----------------------------- MODULE ChatWorker -----------------------------
(***************************************************************************)
(* The warm chat workers of the dashboard server, for one model: HTTP        *)
(* requests, the Map of workers, the class ChatWorker with its queue and      *)
(* timers, and the `uaii chat --jsonl` processes it starts.  The server is    *)
(* single threaded: an action is what runs between two awaits.  Processes     *)
(* run beside it, and what they print is delivered later, line by line, and   *)
(* before their close event.  A write to a process that has exited is lost.   *)
(***************************************************************************)
EXTENDS Integers, Sequences, FiniteSets, SequencesExt

CONSTANTS
    Requests,     \* HTTP requests that may arrive
    Mixes,        \* what they may be: chat (generate), chat/reset (reset), chat/prepare (prepare)
    QueueMax,     \* UAII_CHAT_QUEUE_MAX
    MaxStops      \* bound: calls of stopAllChatWorkers (settings saved, cancel-running)

Kinds == {"generate", "reset", "prepare"}

ASSUME ChatAssumption ==
    /\ QueueMax \in Nat \ {0} /\ MaxStops \in Nat
    /\ IsFiniteSet(Requests)
    /\ Mixes \subseteq [Requests -> Kinds]

Workers  == 1 .. (MaxStops + 1)
None     == 0

VARIABLES
    current,   \* the worker in the Map, or None
    created,   \* workers made so far
    child, ready, busy, queue, pending,   \* fields of each worker
    kind,      \* what each request is
    state,     \* how far each request is
    at,        \* the worker a request talks to
    procs,     \* the processes spawned: owner, life, told to stop, stdin, stdout
    launchable \* whether the uaii binary can be launched at all

workerVars  == <<child, ready, busy, queue, pending>>
requestVars == <<kind, state, at>>
chatVars == <<current, created, workerVars, requestVars, procs, launchable>>
Procs  == 1 .. Cardinality(Requests)         \* a request calls start() once
Lives  == {"unlaunched", "loading", "serving", "exited", "closed"}
Is(p, lives) == p \in DOMAIN procs /\ procs[p].life \in lives
Alive(p)     == Is(p, {"loading", "serving"})
Printed(p)   == p \in DOMAIN procs /\ procs[p].stdout # << >>
Settled == {"ok", "error", "full"}
Of(k) == {r \in Requests : kind[r] = k}

-----------------------------------------------------------------------------
ChatInit ==
    /\ current = None /\ created = 0
    /\ child = [w \in Workers |-> None]
    /\ ready = [w \in Workers |-> FALSE]
    /\ busy = [w \in Workers |-> FALSE]
    /\ queue = [w \in Workers |-> << >>]
    /\ pending = [w \in Workers |-> {}]
    /\ kind \in Mixes
    /\ state = [r \in Requests |-> "new"]
    /\ at = [r \in Requests |-> None]
    /\ procs = << >>
    /\ launchable \in BOOLEAN

Proc(w) == [owner |-> w, life |-> IF launchable THEN "loading" ELSE "unlaunched",
            told |-> FALSE, stdin |-> << >>, stdout |-> << >>]

Started_Again(w) ==                   \* mutant: start() does not look at this.child
    /\ procs' = Append(procs, Proc(w))
    /\ child' = [child EXCEPT ![w] = Len(procs) + 1]
    /\ ready' = [ready EXCEPT ![w] = FALSE]

(* start() *)
Started(w) ==
    IF child[w] # None THEN UNCHANGED <<child, ready, procs>>
    ELSE /\ procs' = Append(procs, Proc(w))
         /\ child' = [child EXCEPT ![w] = Len(procs) + 1]
         /\ ready' = [ready EXCEPT ![w] = FALSE]

Write(ps, p, msg) == IF ps[p].life \in {"loading", "serving"}
                     THEN [ps EXCEPT ![p].stdin = Append(@, msg)] ELSE ps

(* #pump(): q is the queue of w and free says that busy has been cleared.     *)
(* ps and st are the processes and request states after what came before.     *)
Pumps(w, q, free, rdy) == free /\ rdy /\ child[w] # None /\ q # << >>

Pumped(w, q, free, rdy, rest, ps, st) ==
    IF Pumps(w, q, free, rdy)
    THEN /\ queue' = [queue EXCEPT ![w] = Tail(q)]
         /\ busy' = [busy EXCEPT ![w] = TRUE]
         /\ pending' = [pending EXCEPT ![w] = rest \cup {Head(q)}]
         /\ procs' = Write(ps, child[w], Head(q))
         /\ state' = [st EXCEPT ![Head(q)] = "sent"]
    ELSE /\ queue' = [queue EXCEPT ![w] = q]
         /\ busy' = [busy EXCEPT ![w] = ~ free]
         /\ pending' = [pending EXCEPT ![w] = rest]
         /\ procs' = ps
         /\ state' = st

Waiting(w) == {queue[w][i] : i \in DOMAIN queue[w]} \cup pending[w]

Failed_QueueOnly(w, ps) ==            \* mutant: pending.clear() without the rejections
    /\ queue' = [queue EXCEPT ![w] = << >>]
    /\ pending' = [pending EXCEPT ![w] = {}]
    /\ busy' = [busy EXCEPT ![w] = FALSE]
    /\ state' = [r \in Requests |-> IF r \in Waiting(w) \ pending[w] THEN "error" ELSE state[r]]
    /\ procs' = ps

(* #failAll() *)
Failed(w, ps) ==
    /\ queue' = [queue EXCEPT ![w] = << >>]
    /\ pending' = [pending EXCEPT ![w] = {}]
    /\ busy' = [busy EXCEPT ![w] = FALSE]
    /\ state' = [r \in Requests |-> IF r \in Waiting(w) THEN "error" ELSE state[r]]
    /\ procs' = ps

-----------------------------------------------------------------------------
(* Requests *)

(* A prepare that arrives while another one is under way shares its promise. *)
Shared(r) == r \in Of("prepare") /\ \E o \in Of("prepare") : state[o] \in {"staging", "waiting"}

(* The worker is in the Map: waitReady() begins with start(). *)
ArriveWarm(r) ==
    /\ state[r] = "new" /\ current # None /\ ~ Shared(r)
    /\ IF r \in Of("prepare") /\ ready[current]
       THEN /\ state' = [state EXCEPT ![r] = "ok"] /\ UNCHANGED <<child, ready, procs, at>>
       ELSE /\ state' = [state EXCEPT ![r] = "waiting"]
            /\ at' = [at EXCEPT ![r] = current]
            /\ Started(current)
    /\ UNCHANGED <<current, created, busy, queue, pending, launchable, kind>>

(* ensureWorker() awaits stageModelPathAsync. *)
ArriveCold(r) ==
    /\ state[r] = "new" /\ current = None /\ ~ Shared(r)
    /\ state' = [state EXCEPT ![r] = "staging"]
    /\ UNCHANGED <<current, created, workerVars, at, procs, launchable, kind>>

(* getChatWorker(): another request may have made the worker meanwhile. *)
StagingDone(r) ==
    /\ state[r] = "staging"
    /\ LET w == IF current = None THEN created + 1 ELSE current
       IN  /\ current' = w
           /\ created' = IF current = None THEN w ELSE created
           /\ state' = [state EXCEPT ![r] = "waiting"]
           /\ at' = [at EXCEPT ![r] = w]
           /\ Started(w)
    /\ UNCHANGED <<busy, queue, pending, launchable, kind>>

(* waitReady() looks every 50 ms: the process is gone, or 10 minutes are over. *)
GiveUp(r) ==
    /\ state[r] = "waiting" /\ ~ ready[at[r]]
    /\ state' = [state EXCEPT ![r] = "error"]
    /\ UNCHANGED <<current, created, workerVars, at, procs, launchable, kind>>

(* generate() goes on after waitReady(): the queue is checked now. *)
Enqueue(r) ==
    /\ r \in Of("generate") /\ state[r] = "waiting" /\ ready[at[r]]
    /\ LET w == at[r] IN
       IF Len(queue[w]) >= QueueMax
       THEN /\ state' = [state EXCEPT ![r] = "full"]
            /\ UNCHANGED <<busy, queue, pending, procs>>
       ELSE Pumped(w, Append(queue[w], r), ~ busy[w], ready[w], pending[w], procs,
                   [state EXCEPT ![r] = "queued"])
    /\ UNCHANGED <<current, created, child, ready, at, launchable, kind>>

Timeout_NoPump(r) ==                  \* mutant: the next request is not sent
    /\ state[r] = "sent"
    /\ pending' = [pending EXCEPT ![at[r]] = @ \ {r}]
    /\ busy' = [busy EXCEPT ![at[r]] = FALSE]
    /\ state' = [state EXCEPT ![r] = "error"]
    /\ UNCHANGED <<current, created, child, ready, queue, at, procs, launchable, kind>>

(* The timer of a generate(): 10 minutes after it was queued. *)
Timeout(r) ==
    /\ r \in Of("generate")
    /\ LET w == at[r] IN
       \/ /\ state[r] = "queued"
          /\ \E i \in DOMAIN queue[w] :
                queue[w][i] = r /\ queue' = [queue EXCEPT ![w] = RemoveAt(@, i)]
          /\ state' = [state EXCEPT ![r] = "error"]
          /\ UNCHANGED <<busy, pending, procs>>
       \/ /\ state[r] = "sent"
          /\ Pumped(w, queue[w], TRUE, ready[w], pending[w] \ {r}, procs,
                    [state EXCEPT ![r] = "error"])
    /\ UNCHANGED <<current, created, child, ready, at, launchable, kind>>

(* reset() polls until the worker is idle, or gives up after 5 minutes. *)
ResetWaits(r) ==
    /\ r \in Of("reset") /\ state[r] = "waiting" /\ ready[at[r]]
    /\ state' = [state EXCEPT ![r] = "resetting"]
    /\ UNCHANGED <<current, created, workerVars, at, procs, launchable, kind>>

ResetSent(r) ==
    /\ state[r] = "resetting" /\ ~ busy[at[r]] /\ queue[at[r]] = << >>
    /\ LET w == at[r] IN
       IF child[w] = None
       THEN state' = [state EXCEPT ![r] = "error"] /\ UNCHANGED <<busy, pending, procs>>
       ELSE /\ busy' = [busy EXCEPT ![w] = TRUE]
            /\ pending' = [pending EXCEPT ![w] = @ \cup {r}]
            /\ procs' = Write(procs, child[w], r)
            /\ state' = [state EXCEPT ![r] = "sent"]
    /\ UNCHANGED <<current, created, child, ready, queue, at, launchable, kind>>

ResetGivesUp(r) ==
    /\ state[r] = "resetting" /\ (busy[at[r]] \/ queue[at[r]] # << >>)
    /\ state' = [state EXCEPT ![r] = "error"]
    /\ UNCHANGED <<current, created, workerVars, at, procs, launchable, kind>>

Prepared(r) ==
    /\ r \in Of("prepare") /\ state[r] = "waiting" /\ ready[at[r]]
    /\ state' = [state EXCEPT ![r] = "ok"]
    /\ UNCHANGED <<current, created, workerVars, at, procs, launchable, kind>>

(* stopAllChatWorkers(): the pending requests are left to the close event. *)
StopAll ==
    /\ current # None /\ created <= MaxStops
    /\ LET p == child[current] IN
       procs' = IF p = None THEN procs ELSE [procs EXCEPT ![p].told = TRUE]
    /\ child' = [child EXCEPT ![current] = None]
    /\ ready' = [ready EXCEPT ![current] = IF child[current] = None THEN @ ELSE FALSE]
    /\ current' = None
    /\ UNCHANGED <<created, busy, queue, pending, requestVars, launchable>>

-----------------------------------------------------------------------------
(* Events of the process p reach the server. *)

(* #onLine() *)
OnReady(p) ==
    LET w == procs[p].owner
        l == procs[p].stdout
    IN  /\ Printed(p) /\ Head(l) = <<"ready">>
        /\ ready' = [ready EXCEPT ![w] = TRUE]
        /\ Pumped(w, queue[w], ~ busy[w], TRUE, pending[w],
                  [procs EXCEPT ![p].stdout = Tail(l)], state)
        /\ UNCHANGED <<current, created, child, at, launchable, kind>>

(* An error without an id: the model could not be loaded. *)
OnLoadError(p) ==
    LET w == procs[p].owner
        l == procs[p].stdout
    IN  /\ Printed(p) /\ Head(l) = <<"error">>
        /\ Failed(w, [procs EXCEPT ![p].stdout = Tail(l)])
        /\ UNCHANGED <<current, created, child, ready, at, launchable, kind>>

(* done, reset, or an error with an id; the request may be gone. *)
OnAnswer(p) ==
    LET w == procs[p].owner
        l == procs[p].stdout
        r == Head(l)[2]
        ps == [procs EXCEPT ![p].stdout = Tail(l)]
    IN  /\ Printed(p) /\ Len(Head(l)) = 2
        /\ IF r \in pending[w]
           THEN Pumped(w, queue[w], TRUE, ready[w], pending[w] \ {r}, ps,
                       [state EXCEPT ![r] = Head(l)[1]])
           ELSE procs' = ps /\ UNCHANGED <<queue, busy, pending, state>>
        /\ UNCHANGED <<current, created, child, ready, at, launchable, kind>>

(* The error event of a spawn that failed; close follows. *)
OnSpawnError(p) ==
    /\ Is(p, {"unlaunched"})
    /\ LET w == procs[p].owner IN
       /\ Failed(w, [procs EXCEPT ![p].life = "exited"])
       /\ child' = [child EXCEPT ![w] = None]
       /\ ready' = [ready EXCEPT ![w] = FALSE]
    /\ UNCHANGED <<current, created, at, launchable, kind>>

OnClose_FailsNone(p) ==               \* mutant: close leaves the requests to their timers
    /\ Is(p, {"exited"}) /\ ~ Printed(p)
    /\ procs' = [procs EXCEPT ![p].life = "closed"]
    /\ child' = [child EXCEPT ![procs[p].owner] = None]
    /\ ready' = [ready EXCEPT ![procs[p].owner] = FALSE]
    /\ UNCHANGED <<current, created, busy, queue, pending, requestVars, launchable>>

OnClose(p) ==
    /\ Is(p, {"exited"}) /\ ~ Printed(p)
    /\ LET w == procs[p].owner IN
       /\ Failed(w, [procs EXCEPT ![p].life = "closed"])
       /\ child' = [child EXCEPT ![w] = None]
       /\ ready' = [ready EXCEPT ![w] = FALSE]
    /\ UNCHANGED <<current, created, at, launchable, kind>>

Event(p) == OnReady(p) \/ OnLoadError(p) \/ OnAnswer(p) \/ OnSpawnError(p) \/ OnClose(p)

-----------------------------------------------------------------------------
(* cmd_chat() in the process p *)

Prints(p, l, life) == procs' = [procs EXCEPT ![p].stdout = Append(@, l), ![p].life = life]

Loads(p) ==
    /\ Is(p, {"loading"})
    /\ Prints(p, <<"ready">>, "serving") \/ Prints(p, <<"error">>, "exited")
    /\ UNCHANGED <<current, created, workerVars, requestVars, launchable>>

Answers(p) ==
    /\ Is(p, {"serving"}) /\ procs[p].stdin # << >>
    /\ \E outcome \in {"ok", "error"} :
          procs' = [procs EXCEPT ![p].stdin = Tail(@),
                                 ![p].stdout = Append(@, <<outcome, Head(procs[p].stdin)>>)]
    /\ UNCHANGED <<current, created, workerVars, requestVars, launchable>>

(* The process obeys quit or SIGTERM, or crashes. *)
Dies(p) ==
    /\ Alive(p)
    /\ procs' = [procs EXCEPT ![p].life = "exited", ![p].stdin = << >>]
    /\ UNCHANGED <<current, created, workerVars, requestVars, launchable>>

-----------------------------------------------------------------------------
Request(r) == \/ ArriveWarm(r) \/ ArriveCold(r) \/ StagingDone(r)
              \/ GiveUp(r) \/ Enqueue(r) \/ Timeout(r)
              \/ ResetWaits(r) \/ ResetSent(r) \/ ResetGivesUp(r) \/ Prepared(r)

ChatNext == \/ \E r \in Requests : Request(r)
            \/ StopAll
            \/ \E p \in Procs : Event(p) \/ Loads(p) \/ Answers(p) \/ Dies(p)

Obeys(p) == Dies(p) /\ procs[p].told

(* The event loop gets to every event and every poll; a process loads,       *)
(* answers and obeys in the end.  Nothing makes a timer expire or a request   *)
(* arrive.                                                                    *)
ChatSpec ==
    /\ ChatInit /\ [][ChatNext]_chatVars
    /\ \A r \in Requests :
          WF_chatVars(StagingDone(r) \/ Enqueue(r) \/ ResetWaits(r) \/ ResetSent(r) \/ Prepared(r)
                      \/ (GiveUp(r) /\ child[at[r]] = None))
    /\ \A p \in Procs : WF_chatVars(Event(p) \/ Loads(p) \/ Answers(p))
    /\ \A p \in Procs : WF_chatVars(Obeys(p))

-----------------------------------------------------------------------------
(* Properties *)

(* A promise that is not settled is reachable: a queued request is in the    *)
(* queue of its worker, a sent one in pending, at most one of them, exactly   *)
(* while the worker is busy.                                                  *)
NothingForgotten ==
    /\ \A r \in Requests :
          /\ state[r] = "queued" <=> \E w \in Workers : r \in Range(queue[w])
          /\ state[r] = "sent" <=> \E w \in Workers : r \in pending[w]
    /\ \A w \in Workers : /\ busy[w] <=> pending[w] # {}
                          /\ Cardinality(pending[w]) <= 1

(* No lost wake-up: requests only queue while there is a reason to wait. *)
NoIdleQueue ==
    \A w \in Workers : queue[w] # << >> /\ ready[w] /\ child[w] # None => busy[w]

(* A process that runs and has not been told to stop belongs to the worker   *)
(* in the Map: no model stays loaded that nobody can stop any more.           *)
NoStrayProcess ==
    \A p \in DOMAIN procs :
        Alive(p) /\ ~ procs[p].told => current # None /\ child[current] = p

(* The types of the fields; what a process prints is a line without or with  *)
(* the id of a request.                                                       *)
Unsettled == {"new", "staging", "waiting", "resetting", "queued", "sent"}
Lines == {<<"ready">>, <<"error">>} \cup ({"ok", "error"} \X Requests)
ProcTypes == [owner : Workers, life : Lives, told : BOOLEAN, stdin : Seq(Requests), stdout : Seq(Lines)]
ChatTypeOK ==
    /\ created \in Workers \cup {None} /\ current \in {None, created}
    /\ current = None => created <= MaxStops
    /\ child \in [Workers -> Nat]
    /\ ready \in [Workers -> BOOLEAN] /\ busy \in [Workers -> BOOLEAN]
    /\ queue \in [Workers -> Seq(Requests)] /\ pending \in [Workers -> SUBSET Requests]
    /\ kind \in [Requests -> Kinds]
    /\ state \in [Requests -> Unsettled \cup Settled]
    /\ at \in [Requests -> Workers \cup {None}]
    /\ procs \in Seq(ProcTypes)
    /\ launchable \in BOOLEAN

(* What makes the invariants above inductive.  Each worker holds exactly the *)
(* unsettled requests that talk to it: each once in its queue q or its        *)
(* pending map pend, in that one at most one, exactly while it is busy.       *)
Filed(w, q, pend, b, st, to) ==
    /\ \A i \in DOMAIN q : st[q[i]] = "queued" /\ to[q[i]] = w
    /\ \A i, j \in DOMAIN q : q[i] = q[j] => i = j
    /\ \A r \in Requests : st[r] = "queued" /\ to[r] = w => \E i \in DOMAIN q : q[i] = r
    /\ \A r \in pend : st[r] = "sent" /\ to[r] = w
    /\ \A r \in Requests : st[r] = "sent" /\ to[r] = w => r \in pend
    /\ b <=> pend # {}
    /\ \A r, s \in pend : r = s
Placed ==
    /\ \A r \in Requests : state[r] \in {"waiting", "resetting", "queued", "sent"} => at[r] # None
    /\ \A w \in Workers : Filed(w, queue[w], pending[w], busy[w], state, at)
(* Only the worker in the Map has a child, and a process that was launched   *)
(* and is neither told to stop nor closed is the child of its worker.         *)
Owned ==
    /\ \A w \in Workers : child[w] # None =>
          child[w] \in DOMAIN procs /\ procs[child[w]].owner = w /\ w = current
    /\ \A p \in DOMAIN procs :
          /\ procs[p].owner <= created
          /\ procs[p].told => procs[p].owner # current
          /\ procs[p].life = "unlaunched" => ~ launchable
          /\ procs[p].life \in {"loading", "serving"} => launchable
          /\ launchable /\ ~ procs[p].told /\ procs[p].life # "closed" => child[procs[p].owner] = p
ChatInv == ChatTypeOK /\ Placed /\ Owned /\ NoIdleQueue

(* Every request is answered, whatever dies, fails to load or is stopped. *)
EveryRequestSettles ==
    []<>(\A r \in Requests : state[r] \in Settled \cup {"new"})
=============================================================================
