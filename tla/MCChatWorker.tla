---------------------------- MODULE MCChatWorker ----------------------------
(* Three requests: chats only, chats against a reset, and one of each kind.  *)
EXTENDS ChatWorker, TLC

CONSTANTS r1, r2, r3

Mix(a, b, c) == r1 :> a @@ r2 :> b @@ r3 :> c
MCMixes == {Mix("generate", "generate", "generate"), Mix("generate", "generate", "reset"),
            Mix("generate", "reset", "prepare")}
=============================================================================
