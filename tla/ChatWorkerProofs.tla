-------------------------- MODULE ChatWorkerProofs --------------------------
(***************************************************************************)
(* The chat workers of the dashboard lose no request and no wake-up, and no  *)
(* process outlives the worker that could stop it, for every number of        *)
(* requests and of settings saved in between.                                 *)
(***************************************************************************)
EXTENDS ChatWorker, FiniteSetTheorems, SequenceTheorems, TLAPS

(* Workers are numbered from 1, and None is not one of them. *)
LEMMA WorkersAreNumbers == Workers \subseteq Nat \ {0} /\ None \notin Workers /\ MaxStops \in Nat
BY ChatAssumption DEF Workers, None

(* What splice(i, 1) leaves of a queue. *)
LEMMA RemoveAtElements ==
    ASSUME NEW S, NEW q \in Seq(S), NEW i \in DOMAIN q
    PROVE  /\ RemoveAt(q, i) \in Seq(S)
           /\ Len(RemoveAt(q, i)) = Len(q) - 1
           /\ \A j \in 1 .. (Len(q) - 1) : RemoveAt(q, i)[j] = IF j < i THEN q[j] ELSE q[j + 1]
<1>1. i \in 1 .. Len(q) /\ Len(q) \in Nat
  OBVIOUS
<1> DEFINE a == SubSeq(q, 1, i - 1)
           b == SubSeq(q, i + 1, Len(q))
           c == a \o b
<1>2. a \in Seq(S) /\ Len(a) = i - 1 /\ \A j \in 1 .. (i - 1) : a[j] = q[j]
  BY <1>1, SubSeqProperties
<1>3. b \in Seq(S) /\ Len(b) = Len(q) - i /\ \A j \in 1 .. (Len(q) - i) : b[j] = q[i + j]
  BY <1>1, SubSeqProperties
<1>4. /\ c \in Seq(S) /\ Len(c) = Len(a) + Len(b)
      /\ \A j \in 1 .. (Len(a) + Len(b)) : c[j] = IF j <= Len(a) THEN a[j] ELSE b[j - Len(a)]
  BY <1>2, <1>3, ConcatProperties
<1>5. RemoveAt(q, i) = c
  BY DEF RemoveAt
<1> HIDE DEF a, b, c
<1>6. Len(c) = Len(q) - 1
  BY <1>1, <1>2, <1>3, <1>4
<1>7. ASSUME NEW j \in 1 .. (Len(q) - 1) PROVE c[j] = IF j < i THEN q[j] ELSE q[j + 1]
  <2>1. c[j] = IF j <= i - 1 THEN a[j] ELSE b[j - (i - 1)]
    <3>1. j \in 1 .. (Len(a) + Len(b))
      BY <1>1, <1>2, <1>3
    <3> QED
      BY <1>2, <1>4, <3>1
  <2>2. CASE j < i
    BY <1>1, <1>2, <2>1, <2>2
  <2>3. CASE ~ (j < i)
    <3>1. j - (i - 1) \in 1 .. (Len(q) - i) /\ i + (j - (i - 1)) = j + 1
      BY <1>1, <2>3
    <3>2. b[j - (i - 1)] = q[i + (j - (i - 1))]
      BY <1>3, <3>1
    <3> QED
      BY <1>1, <2>1, <2>3, <3>1, <3>2
  <2> QED
    BY <2>2, <2>3
<1> QED
  BY <1>4, <1>5, <1>6, <1>7

(* A worker that holds what it held is filed as before when its requests are *)
(* queued or sent as before.                                                  *)
LEMMA FiledAsBefore ==
    ASSUME NEW w, NEW q \in Seq(Requests), NEW pend \in SUBSET Requests, NEW b, NEW st, NEW to,
           NEW st2, NEW to2, Filed(w, q, pend, b, st, to),
           \A r \in Requests :
               /\ st2[r] = "queued" /\ to2[r] = w <=> st[r] = "queued" /\ to[r] = w
               /\ st2[r] = "sent" /\ to2[r] = w <=> st[r] = "sent" /\ to[r] = w
    PROVE  Filed(w, q, pend, b, st2, to2)
<1>1. \A i \in DOMAIN q : q[i] \in Requests
  OBVIOUS
<1> QED
  BY <1>1 DEF Filed

(* A queue whose head is sent while nothing is pending: the head is pending. *)
LEMMA FiledHead ==
    ASSUME NEW w \in Workers, NEW q \in Seq(Requests), NEW st \in [Requests -> Unsettled \cup Settled],
           NEW to, q # << >>, Filed(w, q, {}, FALSE, st, to)
    PROVE  /\ Filed(w, Tail(q), {Head(q)}, TRUE, [st EXCEPT ![Head(q)] = "sent"], to)
           /\ Tail(q) \in Seq(Requests) /\ Head(q) \in Requests /\ to[Head(q)] = w
<1>1. /\ Head(q) = q[1] /\ Head(q) \in Requests /\ Len(q) \in Nat \ {0} /\ DOMAIN q = 1 .. Len(q)
      /\ Tail(q) \in Seq(Requests) /\ DOMAIN Tail(q) = 1 .. (Len(q) - 1)
      /\ \A i \in 1 .. (Len(q) - 1) : Tail(q)[i] = q[i + 1]
  BY HeadTailProperties, LenProperties
<1> DEFINE h == Head(q)
           t == Tail(q)
           s2 == [st EXCEPT ![h] = "sent"]
<1>2. \A r \in Requests : s2[r] = IF r = h THEN "sent" ELSE st[r]
  OBVIOUS
<1>3. to[h] = w /\ \A i \in 2 .. Len(q) : q[i] # h /\ q[i] \in Requests
  BY <1>1 DEF Filed
<1>4. \A i \in DOMAIN t : s2[t[i]] = "queued" /\ to[t[i]] = w
  BY <1>1, <1>2, <1>3 DEF Filed
<1>5. \A i, j \in DOMAIN t : t[i] = t[j] => i = j
  BY <1>1 DEF Filed
<1>6. \A r \in Requests : s2[r] = "queued" /\ to[r] = w => \E i \in DOMAIN t : t[i] = r
  <2> SUFFICES ASSUME NEW r \in Requests, s2[r] = "queued", to[r] = w PROVE \E i \in DOMAIN t : t[i] = r
    OBVIOUS
  <2>1. r # h /\ st[r] = "queued"
    BY <1>2
  <2>2. PICK i \in DOMAIN q : q[i] = r
    BY <2>1 DEF Filed
  <2>3. i - 1 \in DOMAIN t /\ t[i - 1] = q[(i - 1) + 1]
    BY <1>1, <2>1, <2>2
  <2> QED
    BY <1>1, <2>2, <2>3
<1>7. \A r \in Requests : s2[r] = "sent" /\ to[r] = w <=> r = h
  BY <1>1, <1>2, <1>3 DEF Filed
<1> HIDE DEF h, t, s2
<1>8. h \in Requests
  BY <1>1 DEF h
<1>9. Filed(w, t, {h}, TRUE, s2, to)
  BY <1>4, <1>5, <1>6, <1>7, <1>8 DEF Filed
<1> QED
  BY <1>1, <1>3, <1>9 DEF h, t, s2

(* A request joins the queue of its worker. *)
LEMMA FiledAppend ==
    ASSUME NEW w \in Workers, NEW q \in Seq(Requests), NEW pend \in SUBSET Requests, NEW b,
           NEW st \in [Requests -> Unsettled \cup Settled], NEW to,
           Filed(w, q, pend, b, st, to), NEW r \in Requests, to[r] = w, st[r] \notin {"queued", "sent"}
    PROVE  /\ Filed(w, Append(q, r), pend, b, [st EXCEPT ![r] = "queued"], to)
           /\ Append(q, r) \in Seq(Requests) /\ Append(q, r) # << >>
<1> DEFINE a == Append(q, r)
           s2 == [st EXCEPT ![r] = "queued"]
           n == Len(q)
<1>1. /\ a \in Seq(Requests) /\ a # << >> /\ n \in Nat /\ DOMAIN q = 1 .. n /\ DOMAIN a = 1 .. (n + 1)
      /\ a[n + 1] = r /\ \A i \in 1 .. n : a[i] = q[i] /\ q[i] \in Requests
  BY AppendProperties, LenProperties
<1>2. \A o \in Requests : s2[o] = IF o = r THEN "queued" ELSE st[o]
  OBVIOUS
<1>3. \A i \in 1 .. n : q[i] # r
  BY <1>1 DEF Filed
<1>4. s2[r] = "queued" /\ r \notin pend
  BY <1>2 DEF Filed
<1> HIDE DEF a, s2, n
<1>5. \A i \in DOMAIN a : s2[a[i]] = "queued" /\ to[a[i]] = w
  <2> SUFFICES ASSUME NEW i \in 1 .. (n + 1) PROVE s2[a[i]] = "queued" /\ to[a[i]] = w
    BY <1>1
  <2>1. CASE i = n + 1
    BY <1>1, <1>4, <2>1
  <2>2. CASE i \in 1 .. n
    BY <1>1, <1>2, <1>3, <2>2 DEF Filed
  <2> QED
    BY <1>1, <2>1, <2>2
<1>6. \A i, j \in DOMAIN a : a[i] = a[j] => i = j
  BY <1>1, <1>3 DEF Filed
<1>7. \A o \in Requests : s2[o] = "queued" /\ to[o] = w => \E i \in DOMAIN a : a[i] = o
  BY <1>1, <1>2 DEF Filed
<1>8. /\ \A o \in pend : s2[o] = "sent" /\ to[o] = w
      /\ \A o \in Requests : s2[o] = "sent" /\ to[o] = w => o \in pend
  BY <1>2, <1>4 DEF Filed
<1>9. Filed(w, a, pend, b, s2, to)
  BY <1>5, <1>6, <1>7, <1>8 DEF Filed
<1> QED
  BY <1>1, <1>9 DEF a, s2

(* A request leaves the queue of its worker. *)
LEMMA FiledRemove ==
    ASSUME NEW w \in Workers, NEW q \in Seq(Requests), NEW pend \in SUBSET Requests, NEW b,
           NEW st \in [Requests -> Unsettled \cup Settled], NEW to,
           Filed(w, q, pend, b, st, to), NEW k \in DOMAIN q
    PROVE  /\ Filed(w, RemoveAt(q, k), pend, b, [st EXCEPT ![q[k]] = "error"], to)
           /\ RemoveAt(q, k) \in Seq(Requests)
<1> DEFINE a == RemoveAt(q, k)
           r == q[k]
           s2 == [st EXCEPT ![r] = "error"]
           n == Len(q)
<1>1. /\ a \in Seq(Requests) /\ n \in Nat \ {0} /\ DOMAIN q = 1 .. n /\ DOMAIN a = 1 .. (n - 1)
      /\ k \in 1 .. n /\ r \in Requests
      /\ \A i \in 1 .. (n - 1) : a[i] = IF i < k THEN q[i] ELSE q[i + 1]
      /\ \A i \in 1 .. n : q[i] \in Requests
  BY RemoveAtElements, LenProperties
<1>2. \A o \in Requests : s2[o] = IF o = r THEN "error" ELSE st[o]
  BY <1>1
<1>3. r = q[k] /\ st[r] = "queued" /\ \A i \in 1 .. n : q[i] = r => i = k
  BY <1>1 DEF Filed
<1> HIDE DEF a, r, s2, n
<1>4. ASSUME NEW i \in 1 .. (n - 1)
      PROVE  a[i] \in Requests /\ a[i] # r /\ st[a[i]] = "queued" /\ to[a[i]] = w
  <2>1. PICK j \in 1 .. n : a[i] = q[j] /\ j # k
    <3>1. CASE i < k
      BY <1>1, <3>1
    <3>2. CASE ~ (i < k)
      BY <1>1, <3>2
    <3> QED
      BY <3>1, <3>2
  <2>2. q[j] \in Requests /\ q[j] # r
    BY <1>1, <1>3, <2>1
  <2>3. st[q[j]] = "queued" /\ to[q[j]] = w
    BY <1>1 DEF Filed
  <2> QED
    BY <2>1, <2>2, <2>3
<1>5. \A i \in DOMAIN a : s2[a[i]] = "queued" /\ to[a[i]] = w
  BY <1>1, <1>2, <1>4
<1>6. \A i, j \in DOMAIN a : a[i] = a[j] => i = j
  <2> SUFFICES ASSUME NEW i \in 1 .. (n - 1), NEW j \in 1 .. (n - 1), a[i] = a[j] PROVE i = j
    BY <1>1
  <2>1. \A x, y \in 1 .. n : q[x] = q[y] => x = y
    BY <1>1 DEF Filed
  <2>2. i \in 1 .. n /\ i + 1 \in 1 .. n /\ j \in 1 .. n /\ j + 1 \in 1 .. n
    BY <1>1
  <2>3. q[IF i < k THEN i ELSE i + 1] = q[IF j < k THEN j ELSE j + 1]
    BY <1>1
  <2>4. (IF i < k THEN i ELSE i + 1) = (IF j < k THEN j ELSE j + 1)
    BY <2>1, <2>2, <2>3
  <2> QED
    BY <1>1, <2>4
<1>7. \A o \in Requests : s2[o] = "queued" /\ to[o] = w => \E i \in DOMAIN a : a[i] = o
  <2> SUFFICES ASSUME NEW o \in Requests, s2[o] = "queued", to[o] = w PROVE \E i \in DOMAIN a : a[i] = o
    OBVIOUS
  <2>1. PICK j \in 1 .. n : q[j] = o /\ j # k
    BY <1>1, <1>2, <1>3 DEF Filed
  <2>2. CASE j < k
    BY <1>1, <2>1, <2>2
  <2>3. CASE ~ (j < k)
    <3>1. j - 1 \in 1 .. (n - 1) /\ (j - 1) + 1 = j /\ ~ (j - 1 < k)
      BY <1>1, <2>1, <2>3
    <3>2. a[j - 1] = q[j]
      BY <1>1, <3>1
    <3> QED
      BY <1>1, <2>1, <3>1, <3>2
  <2> QED
    BY <2>2, <2>3
<1>8. /\ \A o \in pend : s2[o] = "sent" /\ to[o] = w
      /\ \A o \in Requests : s2[o] = "sent" /\ to[o] = w => o \in pend
  BY <1>2, <1>3 DEF Filed
<1>9. Filed(w, a, pend, b, s2, to)
  BY <1>5, <1>6, <1>7, <1>8 DEF Filed
<1> QED
  BY <1>1, <1>9 DEF a, r, s2

(* The pending request is settled, by an answer or by its timer. *)
LEMMA FiledSettled ==
    ASSUME ChatInv, NEW w \in Workers, NEW r \in pending[w],
           NEW st \in [Requests -> Unsettled \cup Settled], ~ (st[r] = "queued" \/ st[r] = "sent"),
           \A o \in Requests \ {r} : st[o] = state[o]
    PROVE  Filed(w, queue[w], {}, FALSE, st, at) /\ pending[w] \ {r} = {} /\ at[r] = w /\ r \in Requests
<1>1. Filed(w, queue[w], pending[w], busy[w], state, at)
  BY DEF ChatInv, Placed
<1>2. queue[w] \in Seq(Requests) /\ pending[w] \in SUBSET Requests
  BY DEF ChatInv, ChatTypeOK
<1>3. pending[w] = {r} /\ state[r] = "sent" /\ r \in Requests /\ at[r] = w
  BY <1>1, <1>2 DEF Filed
<1>4. \A i \in DOMAIN queue[w] : queue[w][i] # r /\ queue[w][i] \in Requests
  BY <1>1, <1>2, <1>3 DEF Filed
<1>5. Filed(w, queue[w], {}, FALSE, st, at)
  BY <1>1, <1>3, <1>4 DEF Filed
<1> QED
  BY <1>3, <1>5

-----------------------------------------------------------------------------
(* The processes, up to what they read and print. *)
SameProcs(ps, qs) ==
    /\ qs \in Seq(ProcTypes) /\ DOMAIN qs = DOMAIN ps
    /\ \A p \in DOMAIN ps : /\ qs[p].owner = ps[p].owner
                            /\ qs[p].life = ps[p].life /\ qs[p].told = ps[p].told

(* Changing what one process has to read or has printed. *)
LEMMA SameButIo ==
    ASSUME NEW ps \in Seq(ProcTypes), NEW p \in DOMAIN ps
    PROVE  /\ \A l \in Seq(Requests) : SameProcs(ps, [ps EXCEPT ![p].stdin = l])
           /\ \A l \in Seq(Lines) : SameProcs(ps, [ps EXCEPT ![p].stdout = l])
<1> DEFINE n == Len(ps)
<1>1. n \in Nat /\ DOMAIN ps = 1 .. n /\ ps \in [1 .. n -> ProcTypes]
  BY LenProperties
<1>2. ASSUME NEW l \in Seq(Requests) PROVE SameProcs(ps, [ps EXCEPT ![p].stdin = l])
  <2>1. [ps EXCEPT ![p].stdin = l] \in [1 .. n -> ProcTypes]
    BY <1>1 DEF ProcTypes
  <2>2. [ps EXCEPT ![p].stdin = l] \in Seq(ProcTypes)
    BY <1>1, <2>1, IsASeq
  <2> QED
    BY <1>1, <2>2 DEF SameProcs, ProcTypes
<1>3. ASSUME NEW l \in Seq(Lines) PROVE SameProcs(ps, [ps EXCEPT ![p].stdout = l])
  <2>1. [ps EXCEPT ![p].stdout = l] \in [1 .. n -> ProcTypes]
    BY <1>1 DEF ProcTypes
  <2>2. [ps EXCEPT ![p].stdout = l] \in Seq(ProcTypes)
    BY <1>1, <2>1, IsASeq
  <2> QED
    BY <1>1, <2>2 DEF SameProcs, ProcTypes
<1> QED
  BY <1>2, <1>3

(* The fields of a process have their types. *)
LEMMA ProcFields ==
    ASSUME NEW ps \in Seq(ProcTypes), NEW p \in DOMAIN ps
    PROVE  /\ ps[p] \in ProcTypes /\ ps[p].owner \in Workers /\ ps[p].life \in Lives
           /\ ps[p].told \in BOOLEAN /\ ps[p].stdin \in Seq(Requests) /\ ps[p].stdout \in Seq(Lines)
           /\ p \in Nat \ {0}
<1>1. ps[p] \in ProcTypes /\ p \in Nat \ {0}
  OBVIOUS
<1> QED
  BY <1>1 DEF ProcTypes

(* A write reaches the process or is lost. *)
LEMMA WriteIsIo ==
    ASSUME NEW ps \in Seq(ProcTypes), NEW p \in DOMAIN ps, NEW r \in Requests
    PROVE  SameProcs(ps, Write(ps, p, r))
<1>1. ps[p].stdin \in Seq(Requests)
  BY ProcFields
<1>2. Append(ps[p].stdin, r) \in Seq(Requests)
  BY <1>1, AppendProperties
<1>3. SameProcs(ps, [ps EXCEPT ![p].stdin = Append(ps[p].stdin, r)])
  BY <1>2, SameButIo
<1>4. SameProcs(ps, ps)
  BY DEF SameProcs
<1> QED
  BY <1>3, <1>4 DEF Write

(* Who owns which process depends on nothing else. *)
LEMMA OwnedAsBefore ==
    ASSUME Owned, SameProcs(procs, procs'), UNCHANGED <<child, current, created, launchable>>
    PROVE  Owned'
BY DEF Owned, SameProcs

(* What holds when a handler of worker w calls #pump(): the worker is filed, *)
(* with the queue and the request states the handler has left.                *)
PumpReady(w, q, free, rdy, rest, ps, st) ==
    /\ w \in Workers /\ q \in Seq(Requests) /\ rest \in SUBSET Requests
    /\ free \in BOOLEAN /\ rdy \in BOOLEAN
    /\ ps \in Seq(ProcTypes) /\ SameProcs(procs, ps)
    /\ st \in [Requests -> Unsettled \cup Settled]
    /\ Filed(w, q, rest, ~ free, st, at)
    /\ \A r \in Requests : at[r] # w => st[r] = state[r]
    /\ ready' = [ready EXCEPT ![w] = rdy]
    /\ UNCHANGED <<current, created, child, at, launchable, kind>>

(* #pump() after a change to worker w: nothing is forgotten and, whatever is  *)
(* left in the queue, there is a reason for it to wait.                       *)
LEMMA PumpStep ==
    ASSUME ChatInv, NEW w, NEW q, NEW free, NEW rdy, NEW rest, NEW ps, NEW st,
           PumpReady(w, q, free, rdy, rest, ps, st), Pumped(w, q, free, rdy, rest, ps, st)
    PROVE  ChatInv'
<1> SUFFICES ASSUME ChatTypeOK, Placed, Owned, NoIdleQueue,
                    w \in Workers, q \in Seq(Requests), free \in BOOLEAN, rdy \in BOOLEAN,
                    rest \in SUBSET Requests, ps \in Seq(ProcTypes), SameProcs(procs, ps),
                    st \in [Requests -> Unsettled \cup Settled],
                    Filed(w, q, rest, ~ free, st, at),
                    \A r \in Requests : at[r] # w => st[r] = state[r],
                    ready' = [ready EXCEPT ![w] = rdy],
                    UNCHANGED <<current, created, child, at, launchable, kind>>
             PROVE  ChatInv'
  BY DEF PumpReady, ChatInv
<1> USE WorkersAreNumbers
<1>1. /\ queue \in [Workers -> Seq(Requests)] /\ pending \in [Workers -> SUBSET Requests]
      /\ busy \in [Workers -> BOOLEAN] /\ ready \in [Workers -> BOOLEAN] /\ child \in [Workers -> Nat]
      /\ at \in [Requests -> Workers \cup {None}]
  BY DEF ChatTypeOK
<1>2. /\ queue' \in [Workers -> Seq(Requests)] /\ pending' \in [Workers -> SUBSET Requests]
      /\ busy' \in [Workers -> BOOLEAN] /\ state' \in [Requests -> Unsettled \cup Settled]
      /\ SameProcs(procs, procs')
      /\ Filed(w, queue'[w], pending'[w], busy'[w], state', at)
      /\ queue'[w] # << >> /\ rdy /\ child[w] # None => busy'[w]
      /\ \A v \in Workers \ {w} : queue'[v] = queue[v] /\ pending'[v] = pending[v] /\ busy'[v] = busy[v]
      /\ \A r \in Requests : at[r] # w => state'[r] = state[r]
  <2>1. CASE Pumps(w, q, free, rdy)
    <3>1. /\ queue' = [queue EXCEPT ![w] = Tail(q)]
          /\ busy' = [busy EXCEPT ![w] = TRUE]
          /\ pending' = [pending EXCEPT ![w] = rest \cup {Head(q)}]
          /\ procs' = Write(ps, child[w], Head(q))
          /\ state' = [st EXCEPT ![Head(q)] = "sent"]
          /\ free /\ child[w] # None /\ q # << >>
      BY <2>1 DEF Pumped, Pumps
    <3>2. rest = {} /\ Filed(w, q, {}, FALSE, st, at)
      BY <3>1 DEF Filed
    <3>3. /\ Filed(w, Tail(q), {Head(q)}, TRUE, [st EXCEPT ![Head(q)] = "sent"], at)
          /\ Tail(q) \in Seq(Requests) /\ Head(q) \in Requests /\ at[Head(q)] = w
      BY <3>1, <3>2, FiledHead
    <3>4. child[w] \in DOMAIN ps
      BY <3>1 DEF Owned, SameProcs
    <3>5. SameProcs(ps, procs')
      BY <3>1, <3>3, <3>4, WriteIsIo
    <3>6. SameProcs(procs, procs')
      BY <3>5 DEF SameProcs
    <3>7. queue'[w] = Tail(q) /\ pending'[w] = {Head(q)} /\ busy'[w] = TRUE
      BY <1>1, <3>1, <3>2
    <3>8. /\ queue' \in [Workers -> Seq(Requests)] /\ pending' \in [Workers -> SUBSET Requests]
          /\ busy' \in [Workers -> BOOLEAN]
      BY <1>1, <3>1, <3>3
    <3>9. /\ state' \in [Requests -> Unsettled \cup Settled]
          /\ \A r \in Requests : at[r] # w => state'[r] = state[r]
      BY <3>1, <3>3 DEF Unsettled
    <3> QED
      BY <1>1, <3>1, <3>3, <3>6, <3>7, <3>8, <3>9
  <2>2. CASE ~ Pumps(w, q, free, rdy)
    <3>1. /\ queue' = [queue EXCEPT ![w] = q]
          /\ busy' = [busy EXCEPT ![w] = ~ free]
          /\ pending' = [pending EXCEPT ![w] = rest]
          /\ procs' = ps /\ state' = st
      BY <2>2 DEF Pumped
    <3>2. q # << >> /\ rdy /\ child[w] # None => ~ free
      BY <2>2 DEF Pumps
    <3>3. queue'[w] = q /\ pending'[w] = rest /\ busy'[w] = ~ free
      BY <1>1, <3>1
    <3>4. /\ queue' \in [Workers -> Seq(Requests)] /\ pending' \in [Workers -> SUBSET Requests]
          /\ busy' \in [Workers -> BOOLEAN]
      BY <1>1, <3>1
    <3> QED
      BY <1>1, <3>1, <3>2, <3>3, <3>4
  <2> QED
    BY <2>1, <2>2
<1>3. ChatTypeOK'
  BY <1>1, <1>2 DEF ChatTypeOK, SameProcs
<1>4. Placed'
  <2>1. \A v \in Workers : Filed(v, queue'[v], pending'[v], busy'[v], state', at)
    <3> SUFFICES ASSUME NEW v \in Workers \ {w} PROVE Filed(v, queue[v], pending[v], busy[v], state', at)
      BY <1>2
    <3>1. Filed(v, queue[v], pending[v], busy[v], state, at)
      BY DEF Placed
    <3>2. queue[v] \in Seq(Requests) /\ pending[v] \in SUBSET Requests
      BY <1>1
    <3>3. \A r \in Requests : at[r] = v => state'[r] = state[r]
      BY <1>2
    <3> QED
      BY <3>1, <3>2, <3>3, FiledAsBefore
  <2>2. \A r \in Requests : state'[r] \in {"waiting", "resetting", "queued", "sent"} => at[r] # None
    BY <1>2 DEF Placed
  <2> QED
    BY <2>1, <2>2 DEF Placed
<1>5. Owned'
  BY <1>2, OwnedAsBefore
<1>6. NoIdleQueue'
  BY <1>1, <1>2 DEF NoIdleQueue
<1> QED
  BY <1>3, <1>4, <1>5, <1>6 DEF ChatInv

-----------------------------------------------------------------------------
(* All workers stay as they are while no request becomes queued or sent, or  *)
(* stops being it.                                                            *)
LEMMA StillFiled ==
    ASSUME ChatTypeOK, Placed,
           \A v \in Workers, o \in Requests :
               /\ state'[o] = "queued" /\ at'[o] = v <=> state[o] = "queued" /\ at[o] = v
               /\ state'[o] = "sent" /\ at'[o] = v <=> state[o] = "sent" /\ at[o] = v
    PROVE  \A v \in Workers : Filed(v, queue[v], pending[v], busy[v], state', at')
<1> TAKE v \in Workers
<1>1. Filed(v, queue[v], pending[v], busy[v], state, at)
  BY DEF Placed
<1>2. queue[v] \in Seq(Requests) /\ pending[v] \in SUBSET Requests
  BY DEF ChatTypeOK
<1> QED
  BY <1>1, <1>2, FiledAsBefore

(* A request that is neither queued nor sent moves on to where it is neither. *)
LEMMA PlacedMove ==
    ASSUME ChatTypeOK, Placed, UNCHANGED <<queue, pending, busy>>, NEW r \in Requests,
           NEW how \in (Unsettled \cup Settled) \ {"queued", "sent"}, state[r] \notin {"queued", "sent"},
           state' = [state EXCEPT ![r] = how],
           \/ at' = at /\ (how \in {"waiting", "resetting"} => at[r] # None)
           \/ \E w \in Workers : at' = [at EXCEPT ![r] = w]
    PROVE  Placed' /\ state' \in [Requests -> Unsettled \cup Settled] /\ at' \in [Requests -> Workers \cup {None}]
<1> USE WorkersAreNumbers
<1>1. /\ queue \in [Workers -> Seq(Requests)] /\ pending \in [Workers -> SUBSET Requests]
      /\ state \in [Requests -> Unsettled \cup Settled] /\ at \in [Requests -> Workers \cup {None}]
  BY DEF ChatTypeOK
<1>2. /\ \A o \in Requests : state'[o] = IF o = r THEN how ELSE state[o]
      /\ \A o \in Requests \ {r} : at'[o] = at[o]
      /\ how \in {"waiting", "resetting"} => at'[r] # None
      /\ state' \in [Requests -> Unsettled \cup Settled] /\ at' \in [Requests -> Workers \cup {None}]
  BY <1>1
<1>3. \A o \in Requests : state'[o] \in {"waiting", "resetting", "queued", "sent"} => at'[o] # None
  BY <1>2 DEF Placed
<1>4. \A v \in Workers, o \in Requests :
          /\ state'[o] = "queued" /\ at'[o] = v <=> state[o] = "queued" /\ at[o] = v
          /\ state'[o] = "sent" /\ at'[o] = v <=> state[o] = "sent" /\ at[o] = v
  BY <1>2
<1>5. \A v \in Workers : Filed(v, queue[v], pending[v], busy[v], state', at')
  BY <1>4, StillFiled
<1> QED
  BY <1>2, <1>3, <1>5 DEF Placed

(* Requests that arrive, wait, give up or are answered at once. *)
LEMMA PollSteps ==
    ASSUME ChatInv, NEW r \in Requests,
           ArriveCold(r) \/ GiveUp(r) \/ ResetWaits(r) \/ ResetGivesUp(r) \/ Prepared(r)
    PROVE  ChatInv'
<1>1. UNCHANGED <<current, created, workerVars, at, procs, launchable, kind>>
  BY DEF ArriveCold, GiveUp, ResetWaits, ResetGivesUp, Prepared
<1>2. PICK how \in {"staging", "error", "resetting", "ok"} :
        /\ state' = [state EXCEPT ![r] = how] /\ state[r] \notin {"queued", "sent"}
        /\ how = "resetting" => at[r] # None
  BY DEF ArriveCold, GiveUp, ResetWaits, ResetGivesUp, Prepared, ChatInv, Placed
<1>3. Placed' /\ state' \in [Requests -> Unsettled \cup Settled]
  BY <1>1, <1>2, PlacedMove DEF ChatInv, workerVars, Unsettled, Settled
<1>4. ChatTypeOK'
  BY <1>1, <1>3 DEF ChatInv, ChatTypeOK, workerVars
<1>5. Owned' /\ NoIdleQueue'
  BY <1>1 DEF ChatInv, Owned, NoIdleQueue, workerVars
<1> QED
  BY <1>3, <1>4, <1>5 DEF ChatInv

(* start() of the worker that is in the Map, or has just been put there. *)
LEMMA StartStep ==
    ASSUME ChatInv, NEW w \in Workers, current' = w, w = current \/ (current = None /\ w = created + 1),
           created' = IF current = None THEN w ELSE created, Started(w), UNCHANGED launchable
    PROVE  /\ Owned' /\ procs' \in Seq(ProcTypes) /\ child' \in [Workers -> Nat]
           /\ ready' \in [Workers -> BOOLEAN]
           /\ \A v \in Workers : \/ child'[v] = child[v] /\ ready'[v] = ready[v]
                                 \/ ~ ready'[v]
<1> USE WorkersAreNumbers
<1>1. /\ created \in Nat /\ child \in [Workers -> Nat] /\ ready \in [Workers -> BOOLEAN]
      /\ procs \in Seq(ProcTypes) /\ launchable \in BOOLEAN /\ current \in {None, created}
  BY DEF ChatInv, ChatTypeOK, None
<1>2. \A p \in DOMAIN procs : procs[p].owner \in Workers /\ procs[p].owner <= created
  BY <1>1, ProcFields DEF ChatInv, Owned
<1>3. \A p \in DOMAIN procs : procs[p].owner <= created' /\ (procs[p].told => procs[p].owner # w)
  <2> SUFFICES ASSUME NEW p \in DOMAIN procs
               PROVE  procs[p].owner <= created' /\ (procs[p].told => procs[p].owner # w)
    OBVIOUS
  <2>1. procs[p].owner \in Nat /\ procs[p].owner <= created /\ (procs[p].told => procs[p].owner # current)
    BY <1>2 DEF ChatInv, Owned
  <2>2. CASE current = None /\ w = created + 1
    BY <1>1, <2>1, <2>2
  <2>3. CASE w = current
    BY <1>1, <2>1, <2>3
  <2> QED
    BY <2>2, <2>3
<1>4. CASE child[w] # None
  <2>1. UNCHANGED <<child, ready, procs>>
    BY <1>4 DEF Started
  <2>2. w = current
    BY <1>4 DEF ChatInv, Owned
  <2>3. Owned'
    BY <2>1, <2>2 DEF ChatInv, Owned
  <2> QED
    BY <1>1, <2>1, <2>3
<1>5. CASE child[w] = None
  <2> DEFINE n == Len(procs)
  <2>1. /\ procs' = Append(procs, Proc(w)) /\ child' = [child EXCEPT ![w] = n + 1]
        /\ ready' = [ready EXCEPT ![w] = FALSE]
    BY <1>5 DEF Started
  <2>2. Proc(w) \in ProcTypes
    BY DEF Proc, ProcTypes, Lives
  <2>3. /\ procs' \in Seq(ProcTypes) /\ n \in Nat /\ DOMAIN procs = 1 .. n /\ DOMAIN procs' = 1 .. (n + 1)
        /\ procs'[n + 1] = Proc(w) /\ \A p \in 1 .. n : procs'[p] = procs[p]
    BY <1>1, <2>1, <2>2, AppendProperties, LenProperties
  <2> HIDE DEF n
  <2>4. child'[w] = n + 1 /\ \A v \in Workers \ {w} : child'[v] = child[v]
    BY <1>1, <2>1
  <2>5. \A v \in Workers \ {w} : child'[v] = None
    BY <1>1, <2>4 DEF ChatInv, Owned
  <2>6. ASSUME NEW p \in 1 .. n
        PROVE  launchable /\ ~ procs[p].told /\ procs[p].life # "closed" => child'[procs[p].owner] = p
    <3>1. procs[p].owner \in Workers /\ p # None
      BY <1>2, <2>3 DEF None
    <3>2. launchable /\ ~ procs[p].told /\ procs[p].life # "closed" => child[procs[p].owner] = p
      BY <2>3 DEF ChatInv, Owned
    <3> QED
      BY <1>5, <2>4, <3>1, <3>2
  <2>7. /\ procs'[n + 1].owner = w /\ ~ procs'[n + 1].told
        /\ procs'[n + 1].life = IF launchable THEN "loading" ELSE "unlaunched"
    BY <2>3 DEF Proc
  <2>8. w <= created'
    BY <1>1
  <2>9. Owned'
    <3>1. \A v \in Workers : child'[v] # None =>
             child'[v] \in DOMAIN procs' /\ procs'[child'[v]].owner = v /\ v = current'
      BY <2>3, <2>4, <2>5, <2>7
    <3>2. ASSUME NEW p \in DOMAIN procs'
          PROVE  /\ procs'[p].owner <= created'
                 /\ procs'[p].told => procs'[p].owner # current'
                 /\ procs'[p].life = "unlaunched" => ~ launchable'
                 /\ procs'[p].life \in {"loading", "serving"} => launchable'
                 /\ launchable' /\ ~ procs'[p].told /\ procs'[p].life # "closed" => child'[procs'[p].owner] = p
      <4>1. CASE p \in 1 .. n
        BY <1>3, <2>3, <2>6, <4>1 DEF ChatInv, Owned
      <4>2. CASE p = n + 1
        BY <2>4, <2>7, <2>8, <4>2
      <4> QED
        BY <2>3, <4>1, <4>2
    <3> QED
      BY <3>1, <3>2 DEF Owned
  <2> QED
    BY <1>1, <2>1, <2>3, <2>4, <2>9
<1> QED
  BY <1>4, <1>5

(* A request reaches a worker: in the Map already, or made for it. *)
LEMMA ArriveSteps ==
    ASSUME ChatInv, NEW r \in Requests, ArriveWarm(r) \/ StagingDone(r)
    PROVE  ChatInv'
<1> USE WorkersAreNumbers
<1>1. /\ created \in Workers \cup {None} /\ current \in {None, created}
      /\ current = None => created <= MaxStops
  BY DEF ChatInv, ChatTypeOK
<1>2. CASE ArriveWarm(r) /\ r \in Of("prepare") /\ ready[current]
  <2>1. /\ state' = [state EXCEPT ![r] = "ok"] /\ state[r] \notin {"queued", "sent"}
        /\ UNCHANGED <<current, created, workerVars, at, procs, launchable, kind>>
    BY <1>2 DEF ArriveWarm, workerVars
  <2>2. Placed' /\ state' \in [Requests -> Unsettled \cup Settled]
    BY <2>1, PlacedMove DEF ChatInv, workerVars, Settled
  <2>3. ChatTypeOK'
    BY <2>1, <2>2 DEF ChatInv, ChatTypeOK, workerVars
  <2>4. Owned' /\ NoIdleQueue'
    BY <2>1 DEF ChatInv, Owned, NoIdleQueue, workerVars
  <2> QED
    BY <2>2, <2>3, <2>4 DEF ChatInv
<1>3. CASE ~ (ArriveWarm(r) /\ r \in Of("prepare") /\ ready[current])
  <2> DEFINE w == IF current = None THEN created + 1 ELSE current
  <2>0. w \in Workers
    BY <1>1 DEF Workers, None
  <2>1. /\ current' = w /\ (w = current \/ (current = None /\ w = created + 1))
        /\ created' = IF current = None THEN w ELSE created
        /\ state' = [state EXCEPT ![r] = "waiting"] /\ state[r] \notin {"queued", "sent"}
        /\ at' = [at EXCEPT ![r] = w]
        /\ Started(w)
        /\ UNCHANGED <<busy, queue, pending, launchable, kind>>
    BY <1>3 DEF ArriveWarm, StagingDone
  <2> HIDE DEF w
  <2>2. Placed' /\ state' \in [Requests -> Unsettled \cup Settled] /\ at' \in [Requests -> Workers \cup {None}]
    BY <2>0, <2>1, PlacedMove DEF ChatInv, Unsettled
  <2>3. /\ Owned' /\ procs' \in Seq(ProcTypes) /\ child' \in [Workers -> Nat]
        /\ ready' \in [Workers -> BOOLEAN]
        /\ \A v \in Workers : \/ child'[v] = child[v] /\ ready'[v] = ready[v]
                              \/ ~ ready'[v]
    BY <2>0, <2>1, StartStep
  <2>4. created' \in Workers /\ current' = created'
    BY <1>1, <2>0, <2>1
  <2>5. ChatTypeOK'
    BY <2>1, <2>2, <2>3, <2>4 DEF ChatInv, ChatTypeOK
  <2>6. NoIdleQueue'
    BY <2>1, <2>3 DEF ChatInv, NoIdleQueue
  <2> QED
    BY <2>2, <2>3, <2>5, <2>6 DEF ChatInv
<1> QED
  BY <1>2, <1>3

(* generate() joins the queue or is turned away. *)
LEMMA EnqueueStep == ASSUME ChatInv, NEW r \in Requests, Enqueue(r) PROVE ChatInv'
<1> USE WorkersAreNumbers
<1> DEFINE w == at[r]
<1>1. /\ state[r] = "waiting" /\ w \in Workers
      /\ UNCHANGED <<current, created, child, ready, at, launchable, kind>>
  BY DEF Enqueue, ChatInv, Placed, ChatTypeOK
<1>2. /\ queue[w] \in Seq(Requests) /\ pending[w] \in SUBSET Requests /\ busy[w] \in BOOLEAN
      /\ ready[w] \in BOOLEAN /\ procs \in Seq(ProcTypes)
      /\ state \in [Requests -> Unsettled \cup Settled]
      /\ ready = [ready EXCEPT ![w] = ready[w]]
  BY <1>1 DEF ChatInv, ChatTypeOK
<1>3. Filed(w, queue[w], pending[w], busy[w], state, at)
  BY <1>1 DEF ChatInv, Placed
<1>4. CASE Len(queue[w]) >= QueueMax
  <2>1. state' = [state EXCEPT ![r] = "full"] /\ UNCHANGED <<busy, queue, pending, procs>>
    BY <1>4 DEF Enqueue
  <2>2. Placed' /\ state' \in [Requests -> Unsettled \cup Settled]
    BY <1>1, <2>1, PlacedMove DEF ChatInv, Settled
  <2>3. ChatTypeOK'
    BY <1>1, <2>1, <2>2 DEF ChatInv, ChatTypeOK
  <2>4. Owned' /\ NoIdleQueue'
    BY <1>1, <2>1 DEF ChatInv, Owned, NoIdleQueue
  <2> QED
    BY <2>2, <2>3, <2>4 DEF ChatInv
<1>5. CASE ~ (Len(queue[w]) >= QueueMax)
  <2> DEFINE q == Append(queue[w], r)
             st == [state EXCEPT ![r] = "queued"]
             free == ~ busy[w]
             rdy == ready[w]
  <2>1. Pumped(w, q, free, rdy, pending[w], procs, st)
    BY <1>5 DEF Enqueue
  <2>2. Filed(w, q, pending[w], busy[w], st, at) /\ q \in Seq(Requests)
    BY <1>1, <1>2, <1>3, FiledAppend
  <2>3. st \in [Requests -> Unsettled \cup Settled] /\ \A o \in Requests : at[o] # w => st[o] = state[o]
    BY <1>1, <1>2 DEF Unsettled
  <2>4. SameProcs(procs, procs)
    BY <1>2 DEF SameProcs
  <2>5. Filed(w, q, pending[w], ~ free, st, at) /\ free \in BOOLEAN
    BY <1>2, <2>2
  <2>6. ready' = [ready EXCEPT ![w] = rdy] /\ rdy \in BOOLEAN
    BY <1>1, <1>2
  <2>7. PumpReady(w, q, free, rdy, pending[w], procs, st)
    BY <1>1, <1>2, <2>2, <2>3, <2>4, <2>5, <2>6 DEF PumpReady
  <2> HIDE DEF q, st, w, free, rdy
  <2> QED
    BY <2>1, <2>7, PumpStep
<1> QED
  BY <1>4, <1>5

(* The timer of a generate(): the request leaves the queue, or the worker is *)
(* free for the next one.                                                     *)
LEMMA TimeoutStep == ASSUME ChatInv, NEW r \in Requests, Timeout(r) PROVE ChatInv'
<1> USE WorkersAreNumbers
<1> DEFINE w == at[r]
           st == [state EXCEPT ![r] = "error"]
<1>1. /\ state[r] \in {"queued", "sent"} /\ w \in Workers
      /\ UNCHANGED <<current, created, child, ready, at, launchable, kind>>
  BY DEF Timeout, ChatInv, Placed, ChatTypeOK
<1>2. /\ queue[w] \in Seq(Requests) /\ pending[w] \in SUBSET Requests /\ busy[w] \in BOOLEAN
      /\ ready[w] \in BOOLEAN /\ procs \in Seq(ProcTypes)
      /\ state \in [Requests -> Unsettled \cup Settled]
      /\ ready = [ready EXCEPT ![w] = ready[w]]
  BY <1>1 DEF ChatInv, ChatTypeOK
<1>3. Filed(w, queue[w], pending[w], busy[w], state, at)
  BY <1>1 DEF ChatInv, Placed
<1>4. st \in [Requests -> Unsettled \cup Settled] /\ \A o \in Requests : at[o] # w => st[o] = state[o]
  BY <1>1, <1>2 DEF Settled
<1>5. CASE state[r] = "queued"
  <2>1. PICK k \in DOMAIN queue[w] :
          queue[w][k] = r /\ queue' = [queue EXCEPT ![w] = RemoveAt(queue[w], k)]
    BY <1>5 DEF Timeout
  <2>2. state' = st /\ UNCHANGED <<busy, pending, procs>>
    BY <1>5 DEF Timeout
  <2>3. /\ Filed(w, RemoveAt(queue[w], k), pending[w], busy[w], st, at)
        /\ RemoveAt(queue[w], k) \in Seq(Requests)
    BY <1>1, <1>2, <1>3, <2>1, FiledRemove
  <2>4. queue \in [Workers -> Seq(Requests)]
    BY DEF ChatInv, ChatTypeOK
  <2>5. /\ queue' \in [Workers -> Seq(Requests)] /\ queue'[w] = RemoveAt(queue[w], k)
        /\ \A v \in Workers \ {w} : queue'[v] = queue[v]
    BY <1>1, <2>1, <2>3, <2>4
  <2>6. queue[w] # << >>
    BY <1>2
  <2> HIDE DEF w, st
  <2>7. ChatTypeOK'
    BY <1>1, <1>4, <2>2, <2>5 DEF ChatInv, ChatTypeOK
  <2>8. Placed'
    <3>1. ASSUME NEW v \in Workers \ {w} PROVE Filed(v, queue[v], pending[v], busy[v], st, at)
      <4>1. Filed(v, queue[v], pending[v], busy[v], state, at)
        BY DEF ChatInv, Placed
      <4>2. queue[v] \in Seq(Requests) /\ pending[v] \in SUBSET Requests
        BY DEF ChatInv, ChatTypeOK
      <4>3. \A o \in Requests : at[o] = v => st[o] = state[o]
        BY <1>4
      <4> QED
        BY <4>1, <4>2, <4>3, FiledAsBefore
    <3>2. \A o \in Requests : st[o] \in {"waiting", "resetting", "queued", "sent"} => at[o] # None
      BY <1>1, <1>4 DEF ChatInv, Placed
    <3>3. \A v \in Workers : Filed(v, queue'[v], pending[v], busy[v], st, at)
      BY <2>3, <2>5, <3>1
    <3> QED
      BY <1>1, <2>2, <3>2, <3>3 DEF Placed
  <2>9. Owned'
    BY <1>1, <2>2 DEF ChatInv, Owned
  <2>10. NoIdleQueue'
    BY <1>1, <2>2, <2>5, <2>6 DEF ChatInv, NoIdleQueue
  <2> QED
    BY <2>7, <2>8, <2>9, <2>10 DEF ChatInv
<1>6. CASE state[r] = "sent"
  <2> DEFINE rdy == ready[w]
             rest == pending[w] \ {r}
  <2>1. Pumped(w, queue[w], TRUE, rdy, rest, procs, st)
    BY <1>6 DEF Timeout
  <2>2. r \in pending[w]
    BY <1>3, <1>6 DEF Filed
  <2>3. ~ (st[r] = "queued" \/ st[r] = "sent") /\ \A o \in Requests \ {r} : st[o] = state[o]
    BY <1>2
  <2> HIDE DEF w, st
  <2>4. Filed(w, queue[w], {}, FALSE, st, at) /\ rest = {}
    BY <1>1, <1>4, <2>2, <2>3, FiledSettled
  <2>5. SameProcs(procs, procs)
    BY <1>2 DEF SameProcs
  <2>6. PumpReady(w, queue[w], TRUE, rdy, rest, procs, st)
    BY <1>1, <1>2, <1>4, <2>4, <2>5 DEF PumpReady
  <2> HIDE DEF rdy, rest
  <2> QED
    BY <2>1, <2>6, PumpStep
<1> QED
  BY <1>1, <1>5, <1>6

(* reset() is sent once the worker is idle. *)
LEMMA ResetSentStep == ASSUME ChatInv, NEW r \in Requests, ResetSent(r) PROVE ChatInv'
<1> USE WorkersAreNumbers
<1> DEFINE w == at[r]
           st == [state EXCEPT ![r] = "sent"]
<1>1. /\ state[r] = "resetting" /\ ~ busy[w] /\ queue[w] = << >> /\ w \in Workers
      /\ UNCHANGED <<current, created, child, ready, queue, at, launchable, kind>>
  BY DEF ResetSent, ChatInv, Placed, ChatTypeOK
<1>2. /\ queue \in [Workers -> Seq(Requests)] /\ pending \in [Workers -> SUBSET Requests]
      /\ busy \in [Workers -> BOOLEAN] /\ procs \in Seq(ProcTypes)
      /\ state \in [Requests -> Unsettled \cup Settled]
  BY DEF ChatInv, ChatTypeOK
<1>3. CASE child[w] = None
  <2>1. state' = [state EXCEPT ![r] = "error"] /\ UNCHANGED <<busy, pending, procs>>
    BY <1>3 DEF ResetSent
  <2>2. Placed' /\ state' \in [Requests -> Unsettled \cup Settled]
    BY <1>1, <2>1, PlacedMove DEF ChatInv, Settled
  <2>3. ChatTypeOK'
    BY <1>1, <2>1, <2>2 DEF ChatInv, ChatTypeOK
  <2>4. Owned' /\ NoIdleQueue'
    BY <1>1, <2>1 DEF ChatInv, Owned, NoIdleQueue
  <2> QED
    BY <2>2, <2>3, <2>4 DEF ChatInv
<1>4. CASE child[w] # None
  <2>1. /\ busy' = [busy EXCEPT ![w] = TRUE]
        /\ pending' = [pending EXCEPT ![w] = pending[w] \cup {r}]
        /\ procs' = Write(procs, child[w], r) /\ state' = st
    BY <1>4 DEF ResetSent
  <2>2. Filed(w, << >>, pending[w], busy[w], state, at)
    BY <1>1 DEF ChatInv, Placed
  <2>3. pending[w] = {}
    BY <1>1, <2>2 DEF Filed
  <2>4. pending'[w] = {r} /\ busy'[w] = TRUE
    BY <1>1, <1>2, <2>1, <2>3
  <2>5. /\ \A o \in Requests : st[o] = IF o = r THEN "sent" ELSE state[o]
        /\ st \in [Requests -> Unsettled \cup Settled]
    BY <1>2 DEF Unsettled
  <2>6. SameProcs(procs, procs')
    <3>1. child[w] \in DOMAIN procs
      BY <1>1, <1>4 DEF ChatInv, Owned
    <3> QED
      BY <1>2, <2>1, <3>1, WriteIsIo
  <2>7. Owned'
    BY <1>1, <2>6, OwnedAsBefore DEF ChatInv
  <2>8. /\ pending' \in [Workers -> SUBSET Requests] /\ busy' \in [Workers -> BOOLEAN]
        /\ \A v \in Workers \ {w} : pending'[v] = pending[v] /\ busy'[v] = busy[v]
    BY <1>2, <2>1
  <2>9. at[r] = w
    OBVIOUS
  <2> HIDE DEF w, st
  <2>10. ChatTypeOK'
    BY <1>1, <1>2, <2>1, <2>5, <2>6, <2>8 DEF ChatInv, ChatTypeOK, SameProcs
  <2>11. Filed(w, << >>, {r}, TRUE, st, at)
    BY <2>2, <2>3, <2>5, <2>9 DEF Filed
  <2>12. ASSUME NEW v \in Workers \ {w} PROVE Filed(v, queue[v], pending[v], busy[v], st, at)
    <3>1. Filed(v, queue[v], pending[v], busy[v], state, at)
      BY DEF ChatInv, Placed
    <3>2. queue[v] \in Seq(Requests) /\ pending[v] \in SUBSET Requests
      BY <1>2
    <3>3. \A o \in Requests : at[o] = v => st[o] = state[o]
      BY <2>5, <2>9
    <3> QED
      BY <3>1, <3>2, <3>3, FiledAsBefore
  <2>13. Placed'
    <3>1. \A o \in Requests : st[o] \in {"waiting", "resetting", "queued", "sent"} => at[o] # None
      BY <1>1, <2>5, <2>9 DEF ChatInv, Placed
    <3>2. \A v \in Workers : Filed(v, queue[v], pending'[v], busy'[v], st, at)
      BY <1>1, <2>4, <2>8, <2>11, <2>12
    <3> QED
      BY <1>1, <2>1, <3>1, <3>2 DEF Placed
  <2>14. NoIdleQueue'
    BY <1>1, <2>4, <2>8 DEF ChatInv, NoIdleQueue
  <2> QED
    BY <2>7, <2>10, <2>13, <2>14 DEF ChatInv
<1> QED
  BY <1>3, <1>4

(* Every worker and every request it holds, after a #failAll() of worker w. *)
LEMMA FailedPlaces ==
    ASSUME ChatInv, NEW w \in Workers, NEW ps, Failed(w, ps), UNCHANGED at
    PROVE  /\ Placed' /\ queue' \in [Workers -> Seq(Requests)] /\ pending' \in [Workers -> SUBSET Requests]
           /\ busy' \in [Workers -> BOOLEAN] /\ state' \in [Requests -> Unsettled \cup Settled]
           /\ queue'[w] = << >> /\ procs' = ps
           /\ \A v \in Workers \ {w} : queue'[v] = queue[v] /\ busy'[v] = busy[v]
<1> USE WorkersAreNumbers
<1>1. /\ queue \in [Workers -> Seq(Requests)] /\ pending \in [Workers -> SUBSET Requests]
      /\ busy \in [Workers -> BOOLEAN] /\ state \in [Requests -> Unsettled \cup Settled]
  BY DEF ChatInv, ChatTypeOK
<1>2. /\ queue'[w] = << >> /\ pending'[w] = {} /\ busy'[w] = FALSE
      /\ \A v \in Workers \ {w} : queue'[v] = queue[v] /\ pending'[v] = pending[v] /\ busy'[v] = busy[v]
      /\ queue' \in [Workers -> Seq(Requests)] /\ pending' \in [Workers -> SUBSET Requests]
      /\ busy' \in [Workers -> BOOLEAN] /\ procs' = ps
  BY <1>1 DEF Failed
<1>3. \A r \in Requests : state'[r] = IF r \in Waiting(w) THEN "error" ELSE state[r]
  BY DEF Failed
<1>4. state' \in [Requests -> Unsettled \cup Settled]
  BY <1>1 DEF Failed, Settled
<1>5. Filed(w, queue[w], pending[w], busy[w], state, at)
  BY DEF ChatInv, Placed
<1>6. \A r \in Requests : r \in Waiting(w) => at[r] = w
  BY <1>5 DEF Filed, Waiting
<1>7. \A r \in Requests : at[r] = w /\ state[r] \in {"queued", "sent"} => r \in Waiting(w)
  BY <1>5 DEF Filed, Waiting
<1>8. Filed(w, << >>, {}, FALSE, state', at)
  BY <1>3, <1>7 DEF Filed
<1>9. ASSUME NEW v \in Workers \ {w} PROVE Filed(v, queue[v], pending[v], busy[v], state', at)
  <2>1. Filed(v, queue[v], pending[v], busy[v], state, at)
    BY DEF ChatInv, Placed
  <2>2. queue[v] \in Seq(Requests) /\ pending[v] \in SUBSET Requests
    BY <1>1
  <2>3. \A o \in Requests : at[o] = v => state'[o] = state[o]
    BY <1>3, <1>6
  <2> QED
    BY <2>1, <2>2, <2>3, FiledAsBefore
<1>10. \A o \in Requests : state'[o] \in {"waiting", "resetting", "queued", "sent"} => at[o] # None
  BY <1>3 DEF ChatInv, Placed
<1>11. \A v \in Workers : Filed(v, queue'[v], pending'[v], busy'[v], state', at)
  BY <1>2, <1>8, <1>9
<1>12. Placed'
  BY <1>10, <1>11 DEF Placed
<1> QED
  BY <1>2, <1>4, <1>12

(* A process that has printed: its worker, the next line, and the processes  *)
(* once that line has been read.                                              *)
LEMMA NextLine ==
    ASSUME ChatInv, NEW p, Printed(p)
    PROVE  /\ procs[p].owner \in Workers /\ Head(procs[p].stdout) \in Lines
           /\ [procs EXCEPT ![p].stdout = Tail(procs[p].stdout)] \in Seq(ProcTypes)
           /\ SameProcs(procs, [procs EXCEPT ![p].stdout = Tail(procs[p].stdout)])
<1>1. procs \in Seq(ProcTypes) /\ p \in DOMAIN procs /\ procs[p].stdout # << >>
  BY DEF ChatInv, ChatTypeOK, Printed
<1>2. procs[p].owner \in Workers /\ procs[p].stdout \in Seq(Lines)
  BY <1>1, ProcFields
<1>3. Head(procs[p].stdout) \in Lines /\ Tail(procs[p].stdout) \in Seq(Lines)
  BY <1>1, <1>2, HeadTailProperties
<1>4. SameProcs(procs, [procs EXCEPT ![p].stdout = Tail(procs[p].stdout)])
  BY <1>1, <1>3, SameButIo
<1> QED
  BY <1>2, <1>3, <1>4 DEF SameProcs

(* The model is loaded: the queue moves, unless the worker was stopped. *)
LEMMA OnReadyStep == ASSUME ChatInv, NEW p, OnReady(p) PROVE ChatInv'
<1> DEFINE w == procs[p].owner
           ps == [procs EXCEPT ![p].stdout = Tail(procs[p].stdout)]
           free == ~ busy[w]
<1>1. /\ Printed(p) /\ ready' = [ready EXCEPT ![w] = TRUE]
      /\ Pumped(w, queue[w], free, TRUE, pending[w], ps, state)
      /\ UNCHANGED <<current, created, child, at, launchable, kind>>
  BY DEF OnReady
<1>2. w \in Workers /\ ps \in Seq(ProcTypes) /\ SameProcs(procs, ps)
  BY <1>1, NextLine
<1> HIDE DEF w, ps
<1>3. /\ queue[w] \in Seq(Requests) /\ pending[w] \in SUBSET Requests /\ busy[w] \in BOOLEAN
      /\ state \in [Requests -> Unsettled \cup Settled]
  BY <1>2 DEF ChatInv, ChatTypeOK
<1>4. Filed(w, queue[w], pending[w], ~ free, state, at) /\ free \in BOOLEAN
  BY <1>2, <1>3 DEF ChatInv, Placed
<1> HIDE DEF free
<1>5. PumpReady(w, queue[w], free, TRUE, pending[w], ps, state)
  BY <1>1, <1>2, <1>3, <1>4 DEF PumpReady
<1> QED
  BY <1>1, <1>5, PumpStep

(* An answer settles the request that is pending; one that comes too late is *)
(* ignored.                                                                   *)
LEMMA OnAnswerStep == ASSUME ChatInv, NEW p, OnAnswer(p) PROVE ChatInv'
<1> DEFINE w == procs[p].owner
           l == Head(procs[p].stdout)
           r == l[2]
           ps == [procs EXCEPT ![p].stdout = Tail(procs[p].stdout)]
           st == [state EXCEPT ![r] = l[1]]
           rdy == ready[w]
           rest == pending[w] \ {r}
<1>1. /\ Printed(p) /\ Len(l) = 2
      /\ UNCHANGED <<current, created, child, ready, at, launchable, kind>>
  BY DEF OnAnswer
<1>2. w \in Workers /\ ps \in Seq(ProcTypes) /\ SameProcs(procs, ps) /\ l \in Lines
  BY <1>1, NextLine
<1>3. l[1] \in {"ok", "error"} /\ r \in Requests
  BY <1>1, <1>2 DEF Lines
<1>4. CASE r \in pending[w]
  <2>1. Pumped(w, queue[w], TRUE, rdy, rest, ps, st)
    BY <1>4 DEF OnAnswer
  <2>2. /\ queue[w] \in Seq(Requests) /\ rdy \in BOOLEAN
        /\ state \in [Requests -> Unsettled \cup Settled]
        /\ ready' = [ready EXCEPT ![w] = rdy]
    BY <1>1, <1>2 DEF ChatInv, ChatTypeOK
  <2>3. /\ st \in [Requests -> Unsettled \cup Settled] /\ ~ (st[r] = "queued" \/ st[r] = "sent")
        /\ \A o \in Requests \ {r} : st[o] = state[o]
    BY <1>3, <2>2 DEF Settled
  <2> HIDE DEF w, r, ps, st, l
  <2>4. Filed(w, queue[w], {}, FALSE, st, at) /\ rest = {} /\ at[r] = w
    BY <1>2, <1>4, <2>3, FiledSettled
  <2>5. PumpReady(w, queue[w], TRUE, rdy, rest, ps, st)
    BY <1>1, <1>2, <2>2, <2>3, <2>4 DEF PumpReady
  <2> HIDE DEF rdy, rest
  <2> QED
    BY <2>1, <2>5, PumpStep
<1>5. CASE r \notin pending[w]
  <2>1. procs' = ps /\ UNCHANGED <<queue, busy, pending, state>>
    BY <1>5 DEF OnAnswer
  <2> HIDE DEF ps
  <2>2. Owned'
    BY <1>1, <1>2, <2>1, OwnedAsBefore DEF ChatInv
  <2>3. ChatTypeOK' /\ Placed' /\ NoIdleQueue'
    BY <1>1, <1>2, <2>1 DEF ChatInv, ChatTypeOK, Placed, NoIdleQueue
  <2> QED
    BY <2>2, <2>3 DEF ChatInv
<1> QED
  BY <1>4, <1>5

(* The model cannot be loaded: all requests of the worker fail. *)
LEMMA OnLoadErrorStep == ASSUME ChatInv, NEW p, OnLoadError(p) PROVE ChatInv'
<1> DEFINE w == procs[p].owner
           ps == [procs EXCEPT ![p].stdout = Tail(procs[p].stdout)]
<1>1. /\ Printed(p) /\ Failed(w, ps)
      /\ UNCHANGED <<current, created, child, ready, at, launchable, kind>>
  BY DEF OnLoadError
<1>2. w \in Workers /\ SameProcs(procs, ps)
  BY <1>1, NextLine
<1> HIDE DEF w, ps
<1>3. /\ Placed' /\ queue' \in [Workers -> Seq(Requests)] /\ pending' \in [Workers -> SUBSET Requests]
      /\ busy' \in [Workers -> BOOLEAN] /\ state' \in [Requests -> Unsettled \cup Settled]
      /\ queue'[w] = << >> /\ procs' = ps
      /\ \A v \in Workers \ {w} : queue'[v] = queue[v] /\ busy'[v] = busy[v]
  BY <1>1, <1>2, FailedPlaces
<1>4. Owned'
  BY <1>1, <1>2, <1>3, OwnedAsBefore DEF ChatInv
<1>5. ChatTypeOK'
  BY <1>1, <1>2, <1>3 DEF ChatInv, ChatTypeOK, SameProcs
<1>6. NoIdleQueue'
  BY <1>1, <1>3 DEF ChatInv, NoIdleQueue
<1> QED
  BY <1>3, <1>4, <1>5, <1>6 DEF ChatInv

(* A change to the life of process p. *)
LEMMA LifeChanges ==
    ASSUME NEW ps \in Seq(ProcTypes), NEW p \in DOMAIN ps, NEW x \in ProcTypes
    PROVE  /\ [ps EXCEPT ![p] = x] \in Seq(ProcTypes) /\ DOMAIN [ps EXCEPT ![p] = x] = DOMAIN ps
           /\ [ps EXCEPT ![p] = x][p] = x
           /\ \A o \in DOMAIN ps \ {p} : [ps EXCEPT ![p] = x][o] = ps[o]
<1>1. [ps EXCEPT ![p] = x] \in Seq(ProcTypes)
  BY ExceptSeq, LenProperties
<1> QED
  BY <1>1

(* A spawn that failed, or a process that is gone: its worker has no child   *)
(* and nothing to do, and can be started again.                               *)
LEMMA GoneSteps == ASSUME ChatInv, NEW p, OnSpawnError(p) \/ OnClose(p) PROVE ChatInv'
<1> USE WorkersAreNumbers
<1> DEFINE w == procs[p].owner
           life == IF OnClose(p) THEN "closed" ELSE "exited"
           x == [procs[p] EXCEPT !.life = life]
           ps == [procs EXCEPT ![p] = x]
<1>1. procs \in Seq(ProcTypes) /\ p \in DOMAIN procs
  BY DEF OnSpawnError, OnClose, Is, ChatInv, ChatTypeOK
<1>2. w \in Workers /\ procs[p] \in ProcTypes /\ p \in Nat \ {0}
  BY <1>1, ProcFields
<1>3. /\ x \in ProcTypes /\ x.owner = w /\ x.told = procs[p].told /\ x.life = life
      /\ life \in {"exited", "closed"}
  BY <1>2 DEF ProcTypes, Lives
<1>4. /\ Failed(w, ps) /\ child' = [child EXCEPT ![w] = None] /\ ready' = [ready EXCEPT ![w] = FALSE]
      /\ UNCHANGED <<current, created, at, launchable, kind>>
      /\ procs[p].life = "unlaunched" \/ (procs[p].life = "exited" /\ life = "closed")
  <2>1. CASE OnClose(p)
    BY <2>1 DEF OnClose, Is
  <2>2. CASE ~ OnClose(p)
    BY <2>2 DEF OnSpawnError, Is
  <2> QED
    BY <2>1, <2>2
<1>5. /\ ps \in Seq(ProcTypes) /\ DOMAIN ps = DOMAIN procs /\ ps[p] = x
      /\ \A o \in DOMAIN procs \ {p} : ps[o] = procs[o]
  BY <1>1, <1>3, LifeChanges
<1> HIDE DEF ps, x, w, life
<1>6. /\ Placed' /\ queue' \in [Workers -> Seq(Requests)] /\ pending' \in [Workers -> SUBSET Requests]
      /\ busy' \in [Workers -> BOOLEAN] /\ state' \in [Requests -> Unsettled \cup Settled]
      /\ queue'[w] = << >> /\ procs' = ps
      /\ \A v \in Workers \ {w} : queue'[v] = queue[v] /\ busy'[v] = busy[v]
  BY <1>2, <1>4, FailedPlaces
<1>7. child \in [Workers -> Nat] /\ ready \in [Workers -> BOOLEAN] /\ None \in Nat
  BY DEF ChatInv, ChatTypeOK, None
<1>8. /\ child'[w] = None /\ ~ ready'[w]
      /\ child' \in [Workers -> Nat] /\ ready' \in [Workers -> BOOLEAN]
      /\ \A v \in Workers \ {w} : child'[v] = child[v] /\ ready'[v] = ready[v]
  BY <1>2, <1>4, <1>7
<1>9. procs[p].owner = w
  BY DEF w
<1>10. Owned'
  <2>1. \A v \in Workers : child'[v] # None =>
           child'[v] \in DOMAIN procs' /\ procs'[child'[v]].owner = v /\ v = current'
    BY <1>3, <1>4, <1>5, <1>6, <1>8, <1>9 DEF ChatInv, Owned
  <2>2. ASSUME NEW o \in DOMAIN procs \ {p}, launchable, ~ procs[o].told, procs[o].life # "closed"
        PROVE  child'[procs[o].owner] = o
    <3>1. child[procs[o].owner] = o /\ procs[o].owner \in Workers /\ o # None
      BY <1>1, <2>2, ProcFields DEF ChatInv, Owned, None
    <3>2. procs[o].owner # w
      <4> SUFFICES ASSUME procs[o].owner = w PROVE FALSE
        OBVIOUS
      <4>1. child[w] = o /\ w = current
        BY <1>2, <3>1 DEF ChatInv, Owned
      <4>2. ~ procs[p].told
        BY <1>1, <1>9, <4>1 DEF ChatInv, Owned
      <4>3. procs[p].life = "exited"
        BY <1>1, <1>4, <2>2 DEF ChatInv, Owned
      <4>4. child[w] = p
        BY <1>1, <1>9, <2>2, <4>2, <4>3 DEF ChatInv, Owned
      <4> QED
        BY <4>1, <4>4
    <3> QED
      BY <1>8, <3>1, <3>2
  <2>3. ASSUME NEW o \in DOMAIN procs'
        PROVE  /\ procs'[o].owner <= created'
               /\ procs'[o].told => procs'[o].owner # current'
               /\ procs'[o].life = "unlaunched" => ~ launchable'
               /\ procs'[o].life \in {"loading", "serving"} => launchable'
               /\ launchable' /\ ~ procs'[o].told /\ procs'[o].life # "closed" => child'[procs'[o].owner] = o
    <3>1. CASE o = p
      <4>1. procs'[o] = x /\ x.owner = w /\ x.told = procs[p].told /\ x.life = life
        BY <1>3, <1>5, <1>6, <3>1
      <4>2. /\ w <= created /\ (procs[p].told => w # current)
            /\ (procs[p].life = "unlaunched" => ~ launchable)
        BY <1>1, <1>9 DEF ChatInv, Owned
      <4> QED
        BY <1>3, <1>4, <4>1, <4>2
    <3>2. CASE o # p
      <4>1. o \in DOMAIN procs \ {p} /\ procs'[o] = procs[o]
        BY <1>5, <1>6, <3>2
      <4> QED
        BY <1>4, <2>2, <4>1 DEF ChatInv, Owned
    <3> QED
      BY <3>1, <3>2
  <2> QED
    BY <2>1, <2>3 DEF Owned
<1>11. ChatTypeOK'
  BY <1>4, <1>5, <1>6, <1>8 DEF ChatInv, ChatTypeOK
<1>12. NoIdleQueue'
  BY <1>6, <1>8 DEF ChatInv, NoIdleQueue
<1> QED
  BY <1>6, <1>10, <1>11, <1>12 DEF ChatInv

(* A process changes itself, and stays whose it was, told or not. *)
LEMMA ProcessChanges ==
    ASSUME ChatInv, NEW p \in DOMAIN procs, NEW x \in ProcTypes, procs' = [procs EXCEPT ![p] = x],
           x.owner = procs[p].owner, x.told = procs[p].told, procs[p].life # "closed",
           x.life # "unlaunched", x.life \in {"loading", "serving"} => procs[p].life \in {"loading", "serving"},
           UNCHANGED <<current, created, workerVars, requestVars, launchable>>
    PROVE  ChatInv'
<1>1. procs \in Seq(ProcTypes)
  BY DEF ChatInv, ChatTypeOK
<1>2. /\ procs' \in Seq(ProcTypes) /\ DOMAIN procs' = DOMAIN procs /\ procs'[p] = x
      /\ \A o \in DOMAIN procs \ {p} : procs'[o] = procs[o]
  BY <1>1, LifeChanges
<1>3. ChatTypeOK' /\ Placed' /\ NoIdleQueue'
  BY <1>2 DEF ChatInv, ChatTypeOK, Placed, NoIdleQueue, workerVars, requestVars
<1>4. Owned'
  <2>1. \A w \in Workers : child'[w] # None =>
           child'[w] \in DOMAIN procs' /\ procs'[child'[w]].owner = w /\ w = current'
    BY <1>2 DEF ChatInv, Owned, workerVars
  <2>2. ASSUME NEW o \in DOMAIN procs'
        PROVE  /\ procs'[o].owner <= created'
               /\ procs'[o].told => procs'[o].owner # current'
               /\ procs'[o].life = "unlaunched" => ~ launchable'
               /\ procs'[o].life \in {"loading", "serving"} => launchable'
               /\ launchable' /\ ~ procs'[o].told /\ procs'[o].life # "closed" => child'[procs'[o].owner] = o
    <3>1. CASE o = p
      BY <1>2, <3>1 DEF ChatInv, Owned, workerVars
    <3>2. CASE o # p
      BY <1>2, <3>2 DEF ChatInv, Owned, workerVars
    <3> QED
      BY <3>1, <3>2
  <2> QED
    BY <2>1, <2>2 DEF Owned
<1> QED
  BY <1>3, <1>4 DEF ChatInv

(* cmd_chat() loads, answers and ends. *)
LEMMA ProcessSteps == ASSUME ChatInv, NEW p, Loads(p) \/ Answers(p) \/ Dies(p) PROVE ChatInv'
<1>1. /\ procs \in Seq(ProcTypes) /\ p \in DOMAIN procs /\ procs[p].life \in {"loading", "serving"}
      /\ UNCHANGED <<current, created, workerVars, requestVars, launchable>>
  BY DEF Loads, Answers, Dies, Alive, Is, ChatInv, ChatTypeOK
<1>2. /\ procs[p] \in ProcTypes /\ procs[p].stdin \in Seq(Requests) /\ procs[p].stdout \in Seq(Lines)
  BY <1>1, ProcFields
<1>3. CASE Loads(p)
  <2>1. PICK l \in {<<"ready">>, <<"error">>}, life \in {"serving", "exited"} : Prints(p, l, life)
    BY <1>3 DEF Loads
  <2> DEFINE x == [procs[p] EXCEPT !.stdout = Append(procs[p].stdout, l), !.life = life]
  <2>2. procs' = [procs EXCEPT ![p] = x]
    BY <1>1, <1>2, <2>1 DEF Prints
  <2>3. Append(procs[p].stdout, l) \in Seq(Lines)
    BY <1>2, AppendProperties DEF Lines
  <2>4. x \in ProcTypes /\ x.owner = procs[p].owner /\ x.told = procs[p].told /\ x.life = life
    BY <1>2, <2>3 DEF ProcTypes, Lives
  <2> HIDE DEF x
  <2> QED
    BY <1>1, <2>2, <2>4, ProcessChanges
<1>4. CASE Answers(p)
  <2>1. procs[p].stdin # << >>
    BY <1>4 DEF Answers
  <2>2. PICK outcome \in {"ok", "error"} :
          procs' = [procs EXCEPT ![p].stdin = Tail(@),
                                 ![p].stdout = Append(@, <<outcome, Head(procs[p].stdin)>>)]
    BY <1>4 DEF Answers
  <2> DEFINE x == [procs[p] EXCEPT !.stdin = Tail(procs[p].stdin),
                                   !.stdout = Append(procs[p].stdout, <<outcome, Head(procs[p].stdin)>>)]
  <2>3. procs' = [procs EXCEPT ![p] = x]
    BY <1>1, <1>2, <2>2
  <2>4. Tail(procs[p].stdin) \in Seq(Requests) /\ Head(procs[p].stdin) \in Requests
    BY <1>2, <2>1, HeadTailProperties
  <2>5. Append(procs[p].stdout, <<outcome, Head(procs[p].stdin)>>) \in Seq(Lines)
    BY <1>2, <2>4, AppendProperties DEF Lines
  <2>6. x \in ProcTypes /\ x.owner = procs[p].owner /\ x.told = procs[p].told /\ x.life = procs[p].life
    BY <1>2, <2>4, <2>5 DEF ProcTypes, Lives
  <2> HIDE DEF x
  <2> QED
    BY <1>1, <2>3, <2>6, ProcessChanges
<1>5. CASE Dies(p)
  <2> DEFINE x == [procs[p] EXCEPT !.life = "exited", !.stdin = << >>]
  <2>1. procs' = [procs EXCEPT ![p] = x]
    BY <1>1, <1>2, <1>5 DEF Dies
  <2>2. x \in ProcTypes /\ x.owner = procs[p].owner /\ x.told = procs[p].told /\ x.life = "exited"
    <3>1. << >> \in Seq(Requests)
      OBVIOUS
    <3> QED
      BY <1>2, <3>1 DEF ProcTypes, Lives
  <2> HIDE DEF x
  <2> QED
    BY <1>1, <2>1, <2>2, ProcessChanges
<1> QED
  BY <1>3, <1>4, <1>5

(* The worker leaves the Map and its process is told to stop. *)
LEMMA StopAllStep == ASSUME ChatInv, StopAll PROVE ChatInv'
<1> USE WorkersAreNumbers
<1> DEFINE c == current
           p == child[c]
<1>1. /\ c # None /\ created <= MaxStops /\ current' = None
      /\ procs' = (IF p = None THEN procs ELSE [procs EXCEPT ![p].told = TRUE])
      /\ child' = [child EXCEPT ![c] = None]
      /\ ready' = [ready EXCEPT ![c] = IF child[c] = None THEN @ ELSE FALSE]
      /\ UNCHANGED <<created, busy, queue, pending, requestVars, launchable>>
  BY DEF StopAll
<1>2. /\ c \in Workers /\ procs \in Seq(ProcTypes) /\ child \in [Workers -> Nat]
      /\ ready \in [Workers -> BOOLEAN] /\ None \in Nat /\ (p # None => p \in DOMAIN procs)
  BY <1>1 DEF ChatInv, ChatTypeOK, Owned, None
<1> HIDE DEF c, p
<1>3. /\ child' \in [Workers -> Nat] /\ ready' \in [Workers -> BOOLEAN] /\ child'[c] = None
      /\ \A v \in Workers \ {c} : child'[v] = child[v] /\ ready'[v] = ready[v]
  BY <1>1, <1>2
<1>4. \A v \in Workers : child'[v] = None
  BY <1>3 DEF ChatInv, Owned, c
<1>5. /\ procs' \in Seq(ProcTypes) /\ DOMAIN procs' = DOMAIN procs
      /\ \A o \in DOMAIN procs : /\ procs'[o].owner = procs[o].owner /\ procs'[o].life = procs[o].life
                                 /\ procs'[o].told = (procs[o].told \/ o = p)
  <2>1. CASE p = None
    BY <1>1, <1>2, <2>1, ProcFields DEF None
  <2>2. CASE p # None
    <3> DEFINE x == [procs[p] EXCEPT !.told = TRUE]
    <3>1. procs[p] \in ProcTypes
      BY <1>2, <2>2, ProcFields
    <3>2. x \in ProcTypes /\ x.owner = procs[p].owner /\ x.life = procs[p].life /\ x.told = TRUE
      BY <3>1 DEF ProcTypes
    <3>3. procs' = [procs EXCEPT ![p] = x]
      BY <1>1, <1>2, <2>2
    <3> HIDE DEF x
    <3>4. /\ procs' \in Seq(ProcTypes) /\ DOMAIN procs' = DOMAIN procs /\ procs'[p] = x
          /\ \A o \in DOMAIN procs \ {p} : procs'[o] = procs[o]
      BY <1>2, <2>2, <3>2, <3>3, LifeChanges
    <3>5. \A o \in DOMAIN procs : procs[o].told \in BOOLEAN
      BY <1>2, ProcFields
    <3> QED
      BY <3>2, <3>4, <3>5
  <2> QED
    BY <2>1, <2>2
<1>6. ChatTypeOK'
  BY <1>1, <1>3, <1>5 DEF ChatInv, ChatTypeOK, requestVars
<1>7. Placed'
  BY <1>1 DEF ChatInv, Placed, requestVars
<1>8. NoIdleQueue'
  BY <1>4 DEF NoIdleQueue
<1>9. Owned'
  <2>1. ASSUME NEW o \in DOMAIN procs
        PROVE  /\ procs'[o].owner <= created'
               /\ procs'[o].told => procs'[o].owner # current'
               /\ procs'[o].life = "unlaunched" => ~ launchable'
               /\ procs'[o].life \in {"loading", "serving"} => launchable'
               /\ launchable' /\ ~ procs'[o].told /\ procs'[o].life # "closed" => child'[procs'[o].owner] = o
    <3>1. procs[o].owner \in Workers /\ o # None
      BY <1>2, ProcFields DEF None
    <3>2. launchable /\ ~ procs[o].told /\ procs[o].life # "closed" => o = p
      BY <3>1 DEF ChatInv, Owned, p, c
    <3> QED
      BY <1>1, <1>5, <3>1, <3>2 DEF ChatInv, Owned
  <2> QED
    BY <1>4, <1>5, <2>1 DEF Owned
<1> QED
  BY <1>6, <1>7, <1>8, <1>9 DEF ChatInv

-----------------------------------------------------------------------------
LEMMA ChatInitInv == ChatInit => ChatInv
<1> SUFFICES ASSUME ChatInit PROVE ChatInv
  OBVIOUS
<1> USE WorkersAreNumbers DEF ChatInit
<1>1. kind \in [Requests -> Kinds]
  BY ChatAssumption
<1>2. ChatTypeOK
  BY <1>1 DEF ChatTypeOK, None, Unsettled, Settled
<1>3. Placed
  BY DEF Placed, Filed
<1>4. Owned /\ NoIdleQueue
  BY DEF Owned, NoIdleQueue
<1> QED
  BY <1>2, <1>3, <1>4 DEF ChatInv

LEMMA ChatStep == ChatInv /\ [ChatNext]_chatVars => ChatInv'
<1> SUFFICES ASSUME ChatInv, [ChatNext]_chatVars PROVE ChatInv'
  OBVIOUS
<1>1. ASSUME NEW r \in Requests, Request(r) PROVE ChatInv'
  BY <1>1, ArriveSteps, PollSteps, EnqueueStep, TimeoutStep, ResetSentStep DEF Request
<1>2. CASE StopAll
  BY <1>2, StopAllStep
<1>3. ASSUME NEW p \in Procs, Event(p) PROVE ChatInv'
  BY <1>3, OnReadyStep, OnLoadErrorStep, OnAnswerStep, GoneSteps DEF Event
<1>4. ASSUME NEW p \in Procs, Loads(p) \/ Answers(p) \/ Dies(p) PROVE ChatInv'
  BY <1>4, ProcessSteps
<1>5. CASE UNCHANGED chatVars
  BY <1>5 DEF chatVars, workerVars, requestVars, ChatInv, ChatTypeOK, Placed, Owned, NoIdleQueue
<1> QED
  BY <1>1, <1>2, <1>3, <1>4, <1>5 DEF ChatNext

(* The workers of server/chat_worker.mjs keep the invariant that places each *)
(* request and each process, for any number of requests and of stops.         *)
THEOREM ChatInvariant == ChatSpec => []ChatInv
<1> QED
  BY ChatInitInv, ChatStep, PTL DEF ChatSpec

(* generate() and reset() never lose a promise: a queued request is in a      *)
(* queue, a sent one in a pending map, which holds at most one request and    *)
(* holds one exactly while the worker is busy.                                *)
THEOREM NothingIsLost == ChatSpec => []NothingForgotten
<1>1. ChatInv => NothingForgotten
  <2> SUFFICES ASSUME ChatInv PROVE NothingForgotten
    OBVIOUS
  <2> USE WorkersAreNumbers
  <2>1. /\ \A w \in Workers : queue[w] \in Seq(Requests) /\ pending[w] \in SUBSET Requests
        /\ \A r \in Requests : at[r] \in Workers \cup {None}
    BY DEF ChatInv, ChatTypeOK
  <2>2. \A w \in Workers : Filed(w, queue[w], pending[w], busy[w], state, at)
    BY DEF ChatInv, Placed
  <2>3. ASSUME NEW r \in Requests
        PROVE  state[r] = "queued" <=> \E w \in Workers : r \in Range(queue[w])
    <3>1. ASSUME state[r] = "queued" PROVE \E w \in Workers : r \in Range(queue[w])
      <4>1. at[r] \in Workers
        BY <2>1, <3>1 DEF ChatInv, Placed
      <4>2. PICK i \in DOMAIN queue[at[r]] : queue[at[r]][i] = r
        BY <2>2, <3>1, <4>1 DEF Filed
      <4>3. r \in Range(queue[at[r]])
        BY <4>2 DEF Range
      <4> QED
        BY <4>1, <4>3
    <3>2. ASSUME NEW w \in Workers, r \in Range(queue[w]) PROVE state[r] = "queued"
      BY <2>2, <3>2 DEF Filed, Range
    <3> QED
      BY <3>1, <3>2
  <2>4. ASSUME NEW r \in Requests
        PROVE  state[r] = "sent" <=> \E w \in Workers : r \in pending[w]
    <3>1. state[r] = "sent" => at[r] \in Workers
      BY <2>1 DEF ChatInv, Placed
    <3>2. \A w \in Workers : r \in pending[w] <=> state[r] = "sent" /\ at[r] = w
      BY <2>2 DEF Filed
    <3> QED
      BY <3>1, <3>2
  <2>5. ASSUME NEW w \in Workers
        PROVE  (busy[w] <=> pending[w] # {}) /\ Cardinality(pending[w]) <= 1
    <3>1. (busy[w] <=> pending[w] # {}) /\ \A r, s \in pending[w] : r = s
      BY <2>2 DEF Filed
    <3>2. CASE pending[w] = {}
      BY <3>1, <3>2, FS_EmptySet
    <3>3. CASE pending[w] # {}
      <4>1. PICK r \in pending[w] : pending[w] = {r}
        BY <3>1, <3>3
      <4>2. Cardinality(pending[w]) = 1
        BY <4>1, FS_Singleton
      <4> QED
        BY <3>1, <4>2
    <3> QED
      BY <3>2, <3>3
  <2> QED
    BY <2>3, <2>4, <2>5 DEF NothingForgotten
<1> QED
  BY <1>1, ChatInvariant, PTL

(* #pump() is called wherever it has to be: a request never waits in the      *)
(* queue of a worker that is ready and idle.                                  *)
THEOREM QueueIsServed == ChatSpec => []NoIdleQueue
<1>1. ChatInv => NoIdleQueue
  BY DEF ChatInv
<1> QED
  BY <1>1, ChatInvariant, PTL

(* start() and stopAllChatWorkers() leave no process behind: one that runs    *)
(* and was not told to stop is the child of the worker in the Map.            *)
THEOREM ProcessesAreOwned == ChatSpec => []NoStrayProcess
<1>1. ChatInv => NoStrayProcess
  <2> SUFFICES ASSUME ChatInv, NEW p \in DOMAIN procs, Alive(p), ~ procs[p].told
               PROVE  current # None /\ child[current] = p
    BY DEF NoStrayProcess
  <2>1. procs[p].owner \in Workers /\ p # None
    BY ProcFields DEF ChatInv, ChatTypeOK, None
  <2>2. child[procs[p].owner] = p
    BY DEF ChatInv, Owned, Alive, Is
  <2> QED
    BY <2>1, <2>2, WorkersAreNumbers DEF ChatInv, Owned
<1> QED
  BY <1>1, ChatInvariant, PTL
=============================================================================
