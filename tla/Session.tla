------------------------------- MODULE Session -------------------------------
(***************************************************************************)
(* uaii::runtime::Session: generate() and run() on the compute thread, and   *)
(* request_cancel(), set_background() and on_memory_warning(), which the UI   *)
(* thread may call at any time.  The model is of a graph with Attention       *)
(* nodes, so kv_ exists from the first generate() on.  lifecycle_mu_ guards   *)
(* in_run_ and drop_kv_; cancel_ and background_ are atomics.                 *)
(***************************************************************************)
EXTENDS KvCache

CONSTANTS
    Prompts,      \* prompt lengths generate() is called with
    NewTokens,    \* values of max_new_tokens
    Options       \* sessions considered: window, SessionOptions::kv_window, and context, max_ctx
                  \* from the options or the metadata; each 0 when there is none

(* The number of rows generate() configures for a prompt of p tokens and n   *)
(* new ones.                                                                  *)
KvRows_Prompt(o, p, n) == IF o.window > 0 THEN o.window     \* mutant: no room for the answer
                          ELSE IF o.context > 0 THEN o.context ELSE p

KvRows(o, p, n) == IF o.window > 0 THEN o.window
                   ELSE IF o.context > 0 THEN o.context
                   ELSE p + (IF n > 1 THEN n ELSE 1)

ASSUME SessionAssumption ==
    /\ Prompts \subseteq Nat \ {0} /\ NewTokens \subseteq Nat
    /\ Options \subseteq [window : Nat, context : Nat]
    /\ 1 \in SeqLens
    /\ \A o \in Options, p \in Prompts, n \in NewTokens :
          p + n <= MaxPos /\ KvRows(o, p, n) \in Windows

VARIABLES
    opt,       \* the options of this session
    pc,        \* where the compute thread is
    call,      \* what run() is called from: prefill, decode or directly
    prompt, max_new,  \* arguments of the generate() in progress
    fed,       \* tokens that went through a run() that succeeded
    outlen,    \* out_tokens->size()
    result,    \* what the last call returned
    cancel, background,       \* the atomics
    in_run, drop_kv,          \* guarded by lifecycle_mu_
    ui, ui_scale,             \* on_memory_warning in progress, and the scale it saved
    late,      \* history: steps begun since a stop was asked for
    dropped,   \* history: the cache was dropped since generate() configured it
    raced      \* history: a warning was in progress when generate() last set the scale length

callVars == <<opt, call, prompt, max_new>>
uiVars   == <<cancel, background, ui, ui_scale>>
lockVars == <<in_run, drop_kv>>
ghosts   == <<late, dropped, raced>>
progress == <<fed, outlen, result>>
vars == <<kvVars, stepVars, pc, callVars, progress, uiVars, lockVars, ghosts>>

StopAsked == background \/ cancel

Stopped_CancelOnly == cancel       \* mutant: the background switch is not looked at

Stopped   == background \/ cancel
Refusal   == IF background THEN "paused" ELSE "cancelled"   \* reject_if_paused
LockFree  == ui = "idle"           \* only the UI thread keeps lifecycle_mu_ over several steps
InGenerate == pc # "idle" /\ call # "direct"

(* Steps at which generate() touches kv_ without lifecycle_mu_, so that nothing   *)
(* keeps a warning from being in the middle of its own.                          *)
Unlocked == {"configure", "reset", "scale", "unscale", "exit"}

-----------------------------------------------------------------------------
SessionInit ==
    /\ Init
    /\ opt \in Options
    /\ pc = "idle" /\ call = "direct" /\ prompt = 0 /\ max_new = 0
    /\ fed = 0 /\ outlen = 0 /\ result = "ok"
    /\ cancel = FALSE /\ background = FALSE
    /\ in_run = FALSE /\ drop_kv = FALSE
    /\ ui = "idle" /\ ui_scale = 0
    /\ late = 0 /\ dropped = FALSE /\ raced = FALSE

(* generate(): the arguments are valid; an earlier cancel is forgotten. *)
Generate(p, n) ==
    /\ pc = "idle"
    /\ cancel' = FALSE
    /\ pc' = "entry" /\ call' = "prefill" /\ prompt' = p /\ max_new' = n
    /\ fed' = 0 /\ outlen' = 0 /\ result' = "none"
    /\ late' = 0
    /\ UNCHANGED <<kvVars, stepVars, opt, background, ui, ui_scale, lockVars, dropped, raced>>

Sliding == opt.window > 0

TooLong == opt.context > 0 /\ ~ Sliding /\ prompt + max_new > opt.context

Return(r) == pc' = "idle" /\ result' = r
(* Once scale_guard exists every return goes through its destructor. *)
Leave(r)  == pc' = "exit" /\ result' = r

GenerateChecks ==
    /\ pc = "entry"
    /\ \/ Stopped /\ Return(Refusal)
       \/ ~ Stopped /\ Return("error")    \* too long, or no tokens input or scores output
       \/ ~ Stopped /\ ~ TooLong /\ pc' = "configure" /\ UNCHANGED result
    /\ UNCHANGED <<kvVars, stepVars, callVars, fed, outlen, uiVars, lockVars, ghosts>>

(* ensure_kv_cache: configure, then reset; afterwards the scale length. *)
ConfigureKv ==
    /\ pc = "configure"
    /\ Configure(KvRows(opt, prompt, max_new))
    /\ pc' = "reset"
    /\ dropped' = FALSE
    /\ UNCHANGED <<callVars, progress, uiVars, lockVars, late, raced>>

ResetKv ==
    /\ pc = "reset"
    /\ Reset
    /\ pc' = "scale"
    /\ UNCHANGED <<callVars, progress, uiVars, lockVars, ghosts>>

(* set_rope_scale_len() on behalf of generate(), without lifecycle_mu_. *)
GenerateSetsScale(n) ==
    /\ SetRopeScaleLen(n)
    /\ raced' = (ui # "idle")
    /\ UNCHANGED <<late, dropped>>

ScalePrompt ==
    /\ pc = "scale"
    /\ GenerateSetsScale(prompt)
    /\ pc' = "feed"
    /\ UNCHANGED <<callVars, progress, uiVars, lockVars>>

FeedPrompt_OkWhenStopped ==        \* mutant: the loop is left with success
    /\ pc = "feed" /\ call = "prefill" /\ fed < prompt
    /\ IF Stopped THEN Leave("ok") ELSE pc' = "run" /\ UNCHANGED result
    /\ UNCHANGED <<kvVars, stepVars, callVars, fed, outlen, uiVars, lockVars, ghosts>>

(* One iteration of the prefill loop up to its run(). Writing the token may  *)
(* fail when the graph has no buffer for it.                                  *)
FeedPrompt ==
    /\ pc = "feed" /\ call = "prefill" /\ fed < prompt
    /\ \/ Stopped /\ Leave(Refusal)
       \/ ~ Stopped /\ Leave("error")
       \/ ~ Stopped /\ pc' = "run" /\ UNCHANGED result
    /\ UNCHANGED <<kvVars, stepVars, callVars, fed, outlen, uiVars, lockVars, ghosts>>

PrefillOver ==
    /\ pc = "feed" /\ call = "prefill" /\ fed = prompt
    /\ pc' = "unscale"
    /\ UNCHANGED <<kvVars, stepVars, callVars, progress, uiVars, lockVars, ghosts>>

UnscalePrompt ==
    /\ pc = "unscale"
    /\ GenerateSetsScale(0)
    /\ pc' = "feed" /\ call' = "decode"
    /\ UNCHANGED <<opt, prompt, max_new, progress, uiVars, lockVars>>

(* One iteration of the decode loop: sample, report, perhaps stop, run().     *)
(* The last token that is sampled is not fed through run().                   *)
Decode ==
    /\ pc = "feed" /\ call = "decode"
    /\ \/ max_new = 0 /\ Leave("ok") /\ UNCHANGED outlen
       \/ max_new > 0 /\ Stopped /\ Leave(Refusal) /\ UNCHANGED outlen
       \/ max_new > 0 /\ ~ Stopped /\ Leave("error") /\ UNCHANGED outlen   \* no sample
       \/ /\ max_new > 0 /\ ~ Stopped
          /\ outlen' = outlen + 1
          /\ \/ Leave("ok")                       \* on_new_token declines, or a stop token
             \/ outlen' - prompt < max_new /\ Leave("error")   \* the token is not written
             \/ outlen' - prompt < max_new /\ pc' = "run" /\ UNCHANGED result
    /\ UNCHANGED <<kvVars, stepVars, callVars, fed, uiVars, lockVars, ghosts>>

(* ~RopeScaleLenGuard *)
LeaveGenerate ==
    /\ pc = "exit"
    /\ GenerateSetsScale(0)
    /\ pc' = "idle"
    /\ UNCHANGED <<callVars, progress, uiVars, lockVars>>

-----------------------------------------------------------------------------
(* run() *)

RunDirect ==
    /\ pc = "idle" /\ abs_pos < MaxPos
    /\ pc' = "run" /\ call' = "direct" /\ result' = "none"
    /\ prompt' = 0 /\ max_new' = 0 /\ fed' = 0 /\ outlen' = 0     \* there is no generate()
    /\ late' = 0 /\ dropped' = FALSE
    /\ UNCHANGED <<kvVars, stepVars, opt, uiVars, lockVars, raced>>

RunOver(r) == IF call = "direct" THEN Return(r)
              ELSE IF r # "ok" THEN Leave(r)
              ELSE pc' = "feed" /\ UNCHANGED result

RunChecks ==
    /\ pc = "run"
    /\ IF Stopped THEN RunOver(Refusal) ELSE pc' = "guard" /\ UNCHANGED result
    /\ UNCHANGED <<kvVars, stepVars, callVars, fed, outlen, uiVars, lockVars, ghosts>>

(* apply_pending_kv_drop_locked, by the thread that holds the lock *)
ApplyDrop ==
    /\ drop_kv' = FALSE
    /\ IF drop_kv /\ Configured THEN ClearedButScale /\ dropped' = TRUE
       ELSE UNCHANGED <<kvVars, dropped, raced>>

EnterGuard ==
    /\ pc = "guard" /\ LockFree
    /\ ApplyDrop /\ in_run' = TRUE
    /\ pc' = "begin"
    /\ UNCHANGED <<stepVars, callVars, progress, uiVars, late, raced>>

(* Before the first generate() there is no kv_, and the ops run without one. *)
BeginOps ==
    /\ pc = "begin"
    /\ IF Configured THEN BeginStep(1) ELSE UNCHANGED <<kvVars, stepVars>>
    /\ pc' = "ops"
    /\ late' = late + (IF StopAsked THEN 1 ELSE 0)
    /\ UNCHANGED <<callVars, progress, uiVars, lockVars, dropped, raced>>

AttendOp ==
    /\ pc = "ops" /\ seq > 0
    /\ Attend
    /\ UNCHANGED <<pc, callVars, progress, uiVars, lockVars, ghosts>>

OpFails ==
    /\ pc = "ops"
    /\ result' = "error"
    /\ IF seq > 0 THEN StepFails ELSE UNCHANGED <<kvVars, stepVars>>
    /\ pc' = "unguard"
    /\ UNCHANGED <<callVars, fed, outlen, uiVars, lockVars, ghosts>>

OpsDone_NoCommit ==                \* mutant: commit_step is forgotten
    /\ pc = "ops" /\ (seq = 0 \/ layer = NLayers)
    /\ IF seq > 0 THEN StepFails ELSE UNCHANGED <<kvVars, stepVars>>
    /\ fed' = IF call = "direct" THEN fed ELSE fed + 1
    /\ outlen' = IF call = "prefill" THEN outlen + 1 ELSE outlen
    /\ result' = "none" /\ pc' = "unguard"
    /\ UNCHANGED <<callVars, uiVars, lockVars, ghosts>>

OpsDone ==
    /\ pc = "ops" /\ (seq = 0 \/ layer = NLayers)
    /\ IF seq > 0 THEN Commit ELSE UNCHANGED <<kvVars, stepVars>>
    /\ fed' = IF call = "direct" THEN fed ELSE fed + 1
    /\ outlen' = IF call = "prefill" THEN outlen + 1 ELSE outlen
    /\ result' = "none" /\ pc' = "unguard"
    /\ UNCHANGED <<callVars, uiVars, lockVars, ghosts>>

(* The step is committed, but its profiler trace cannot be written. *)
TraceFails ==
    /\ pc = "ops" /\ (seq = 0 \/ layer = NLayers)
    /\ IF seq > 0 THEN Commit ELSE UNCHANGED <<kvVars, stepVars>>
    /\ result' = "error" /\ pc' = "unguard"
    /\ UNCHANGED <<callVars, fed, outlen, uiVars, lockVars, ghosts>>

LeaveGuard_KeepsDrop ==            \* mutant: the pending drop waits for the next run
    /\ pc = "unguard" /\ LockFree
    /\ in_run' = FALSE
    /\ RunOver(IF result = "error" THEN "error" ELSE "ok")
    /\ UNCHANGED <<kvVars, stepVars, callVars, fed, outlen, uiVars, drop_kv, ghosts>>

LeaveGuard ==
    /\ pc = "unguard" /\ LockFree
    /\ in_run' = FALSE /\ ApplyDrop
    /\ RunOver(IF result = "error" THEN "error" ELSE "ok")
    /\ UNCHANGED <<stepVars, callVars, fed, outlen, uiVars, late, raced>>

-----------------------------------------------------------------------------
(* The UI thread *)

RequestCancel ==
    /\ ~ cancel
    /\ cancel' = TRUE
    /\ late' = IF StopAsked THEN late ELSE 0
    /\ UNCHANGED <<kvVars, stepVars, pc, callVars, progress, background, ui, ui_scale,
                   lockVars, dropped, raced>>

SetBackground(b) ==
    /\ background # b
    /\ background' = b
    /\ late' = IF StopAsked THEN late ELSE 0
    /\ UNCHANGED <<kvVars, stepVars, pc, callVars, progress, cancel, ui, ui_scale,
                   lockVars, dropped, raced>>

MemoryWarning_DuringRun ==         \* mutant: in_run_ is not looked at
    /\ ui = "idle" /\ Configured
    /\ ui' = "reset" /\ ui_scale' = rope_scale_len
    /\ UNCHANGED <<kvVars, stepVars, pc, callVars, progress, cancel, background, lockVars, ghosts>>

(* on_memory_warning(): during a run the drop is left to the guard. *)
MemoryWarning ==
    /\ ui = "idle"
    /\ \/ /\ in_run /\ drop_kv' = TRUE
          /\ UNCHANGED <<ui, ui_scale>>
       \/ /\ ~ in_run /\ ~ Configured
          /\ UNCHANGED <<drop_kv, ui, ui_scale>>
       \/ /\ ~ in_run /\ Configured
          /\ drop_kv' = FALSE
          /\ ui' = "reset" /\ ui_scale' = rope_scale_len
    /\ UNCHANGED <<kvVars, stepVars, pc, callVars, progress, cancel, background, in_run, ghosts>>

WarningResets ==
    /\ ui = "reset"
    /\ Cleared /\ dropped' = TRUE
    /\ ui' = "restore"
    /\ UNCHANGED <<stepVars, pc, callVars, progress, cancel, background, ui_scale, lockVars, late, raced>>

WarningRestores_KeepsLock ==        \* mutant: an early return without unlock when no scale was set
    /\ ui = "restore" /\ ui_scale > 0
    /\ rope_scale_len' = ui_scale
    /\ ui' = "idle" /\ ui_scale' = 0
    /\ UNCHANGED <<max_seq, sink, past_len, abs_pos, pending_seq, rows, stepVars,
                   pc, callVars, progress, cancel, background, lockVars, ghosts>>

WarningRestores ==
    /\ ui = "restore"
    /\ rope_scale_len' = IF ui_scale > 0 THEN ui_scale ELSE rope_scale_len
    /\ ui' = "idle" /\ ui_scale' = 0
    /\ UNCHANGED <<max_seq, sink, past_len, abs_pos, pending_seq, rows, stepVars,
                   pc, callVars, progress, cancel, background, lockVars, ghosts>>

-----------------------------------------------------------------------------
Compute == \/ GenerateChecks \/ ConfigureKv \/ ResetKv \/ ScalePrompt
           \/ FeedPrompt \/ PrefillOver \/ UnscalePrompt \/ Decode \/ LeaveGenerate
           \/ RunChecks \/ EnterGuard \/ BeginOps \/ AttendOp \/ OpFails \/ OpsDone
           \/ TraceFails \/ LeaveGuard

Calls == RunDirect \/ \E p \in Prompts, n \in NewTokens : Generate(p, n)

WarningGoesOn == WarningResets \/ WarningRestores

SessionNext == \/ Calls \/ Compute
               \/ RequestCancel \/ \E b \in BOOLEAN : SetBackground(b)
               \/ MemoryWarning \/ WarningGoesOn

(* A thread inside a call is scheduled again; nobody has to call anything.   *)
(* Taking lifecycle_mu_ needs strong fairness: std::mutex is not fair, but    *)
(* warnings do not come without a pause.                                      *)
SessionSpec == /\ SessionInit /\ [][SessionNext]_vars
               /\ SF_vars(Compute) /\ WF_vars(WarningGoesOn)

-----------------------------------------------------------------------------
(* Properties *)

(* Session drives the cache as KvCache expects it to be driven: it is never  *)
(* configured, reset or dropped between the layers of a step, and a step      *)
(* that failed is not committed, whenever warnings, cancels and background    *)
(* switches arrive.                                                           *)
KeepsKvProtocol == Spec

(* Every token is encoded at its own position: position and tokens fed only  *)
(* part when a memory warning has dropped the cache, or on the way out of a   *)
(* generate() whose last step failed.                                         *)
PositionsFollowTokens ==
    InGenerate /\ pc \notin {"entry", "configure", "reset"} /\ ~ dropped /\ result # "error"
        => abs_pos = fed

(* Without a sliding window the cache is large enough for the whole sequence:*)
(* generate() never makes the model forget a token.                           *)
NothingForgottenWithoutWindow ==
    InGenerate /\ ~ Sliding /\ pc \notin {"entry", "configure"} => past_len = abs_pos

(* The longrope scale length is the prompt's for every op of the prefill and *)
(* unset for every op of the decode, also after a drop: CHANGELOG.md, "A      *)
(* memory warning drops KV without clearing the longrope scale length".  The   *)
(* code does not keep it: a warning may be between its save and its restore   *)
(* when generate() sets the length without the lock.                          *)
ScaleOfCall     == IF call = "prefill" THEN prompt ELSE 0
ScaleLengthKept == pc = "ops" => rope_scale_len = ScaleOfCall

(* That one overlap is the only way to lose it: whatever warnings come before *)
(* or after, in the middle of configure() and reset() too, deferred or not,   *)
(* of this call or an earlier one, an op sees the wrong length only if a       *)
(* warning was in progress at the very last setting of it.                    *)
ScaleLostOnlyByOverlap == pc = "ops" /\ ~ raced => rope_scale_len = ScaleOfCall

(* After a cancel or a switch to the background at most one more step runs,  *)
(* the one that had passed its check already.                                 *)
StopsWithinOneStep == late <= 1

(* What makes the two above and the refinement inductive: a step is only in   *)
(* progress while the ops run, the guard is up exactly then, a memory warning *)
(* resets the cache only while it is down, and a step that has passed its     *)
(* check has not been counted.                                                *)
StepOnlyInOps == /\ pc # "ops" => NoStep
                 /\ seq \in Nat /\ (seq = 0 => layer = 0)
GuardIsUp     == in_run <=> pc \in {"begin", "ops", "unguard"}
WarningWaits  == /\ in_run => ui = "idle"
                 /\ ui # "idle" => Configured
ScalesBounded == ui_scale \in 0 .. MaxPos /\ rope_scale_len \in 0 .. MaxPos
CallArguments ==
    /\ opt \in Options
    /\ call # "direct" => prompt \in Prompts /\ max_new \in NewTokens
    /\ pc \in Unlocked \cup {"entry", "feed"} => call # "direct"
NotCountedYet ==
    /\ late \in Nat
    /\ pc \in {"guard", "begin"} /\ StopAsked => late = 0

SessionInv == /\ max_seq \in Nat
              /\ StepOnlyInOps /\ GuardIsUp /\ WarningWaits /\ ScalesBounded
              /\ CallArguments /\ NotCountedYet /\ StopsWithinOneStep

(* What generate() returns as success is a complete answer: the whole prompt *)
(* was fed, and every new token but the last.                                 *)
SuccessIsComplete ==
    pc = "exit" /\ result = "ok" =>
        /\ fed = IF outlen > prompt THEN outlen - 1 ELSE prompt
        /\ outlen - prompt \in 0 .. max_new

(* What makes the answers, the positions and the scale length inductive.     *)
(* The two loops of generate(): in the prefill every token that was fed has   *)
(* been copied to out_tokens; in the decode the token being fed is the last   *)
(* of out_tokens.  A step only runs for a token that is still missing.        *)
Preparing == {"entry", "configure", "reset", "scale"}
Stepping  == {"run", "guard", "begin", "ops"}
LoopCounts ==
    /\ fed \in Nat /\ outlen \in Nat
    /\ call \in {"direct", "prefill", "decode"}
    /\ pc \notin {"idle", "unguard", "exit"} => result = "none"
    /\ pc = "unguard" => result \in {"none", "error"}
    /\ pc \in Preparing => call = "prefill" /\ fed = 0
    /\ pc = "unscale" => call = "prefill" /\ fed = prompt
    /\ InGenerate /\ call = "prefill" =>
          outlen = fed /\ fed <= prompt /\ (pc \in Stepping => fed < prompt)
    /\ call = "decode" /\ pc \in Stepping =>
          fed + 1 = outlen /\ prompt < outlen /\ outlen < prompt + max_new
    /\ call = "decode" /\ (pc = "feed" \/ (pc = "unguard" /\ result = "none")) =>
          fed = outlen /\ prompt <= outlen /\ (outlen = prompt \/ outlen < prompt + max_new)
(* From configure() on the cache has the rows this generate() needs, each     *)
(* step is of one token, and the position is at most the tokens fed.          *)
InCache == InGenerate /\ pc \notin {"entry", "configure"}
CacheFollows ==
    /\ InGenerate /\ pc # "entry" => ~ TooLong
    /\ InCache => max_seq = KvRows(opt, prompt, max_new)
    /\ pc = "ops" => seq = IF Configured THEN 1 ELSE 0
    /\ InCache /\ result # "error" => abs_pos <= fed /\ (~ dropped => abs_pos = fed)
    /\ InCache /\ ~ Sliding => past_len = abs_pos
AnswerInv == LoopCounts /\ CacheFollows /\ SuccessIsComplete

(* The scale length once a warning in progress has put it back: the prompt's  *)
(* from the end of the preparation to the end of the prefill, else unset,      *)
(* unless the last setting of it was overlapped.                               *)
ScaleToBe == IF ui = "idle" THEN rope_scale_len ELSE ui_scale
ScaleInv ==
    /\ ui \in {"idle", "reset", "restore"}
    /\ ~ raced =>
          /\ ui = "reset" => ui_scale = rope_scale_len
          /\ ui = "restore" => rope_scale_len = 0
          /\ pc # "exit" =>
                ScaleToBe = IF call = "prefill" /\ pc \notin Preparing \cup {"idle"} THEN prompt ELSE 0

(* Every call of generate() and run() returns. *)
CallsReturn == pc # "idle" ~> pc = "idle"

(* A drop that had to wait for the end of a step is made good. *)
DropHappens == drop_kv ~> ~ drop_kv
=============================================================================
