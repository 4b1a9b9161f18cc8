---------------------------- MODULE KvStoreProofs ----------------------------
(***************************************************************************)
(* Theorems about KvStore, for any number of instances and launches: the     *)
(* store implements the map of KvMap, the table never has two rows of a key, *)
(* launches are counted unless two race, and an idle instance holds no lock. *)
(***************************************************************************)
EXTENDS KvStore, TLAPS

ln == "launch_number"

\* a's call is in one of these states.
Busy(a, S) == request[a] # NoRequest /\ request[a].state \in S

KvType == TypeOK /\ kv[ln] \in Seq(Nat) /\ work[ln] \in Seq(Nat)

\* What an instance may be calling while it starts and when it is up.
CallInv ==
  \A a \in Apps :
    /\ pc[a] \in {"off", "setup"} => request[a] = NoRequest
    /\ request[a] # NoRequest =>
         /\ pc[a] = "start" => /\ request[a].op = "get" /\ request[a].key = ln
                               /\ request[a].value \in Nat \cup {Null}
         /\ pc[a] = "counting" => /\ request[a].op = "set" /\ request[a].key = ln
                                  /\ request[a].value = launch[a]
         /\ pc[a] = "up" => request[a].key = "username"
         /\ request[a].op = "set" => request[a].value \in Values
         /\ request[a].op = "get" /\ request[a].state = "asked" => request[a].value = Null

\* What each lock is held for.
LockInv ==
  \A a \in Apps :
    /\ pc[a] = "off" => lock[a] = "none"
    /\ pc[a] = "setup" => lock[a] \in {"shared", "reserved"}
    /\ lock[a] = "shared" => pc[a] = "setup" \/ Busy(a, {"reading"})
    /\ lock[a] = "reserved" => pc[a] = "setup" \/ Busy(a, {"missing", "written"})
    /\ lock[a] = "pending" => pc[a] = "up" \/ (pc[a] = "counting" /\ Busy(a, {"refused"}))
    /\ Busy(a, {"missing", "written"}) => lock[a] = "reserved" /\ request[a].op = "set"
    /\ Busy(a, {"reading"}) => request[a].op = "get"

\* There is one writer, whose rows differ from the file's in what it is setting.
WriterInv ==
  /\ \A a, b \in Apps : Writing(a) /\ Writing(b) => a = b
  /\ (\A a \in Apps : ~Writing(a)) => work = kv
  /\ \A a \in Apps : Writing(a) => /\ pc[a] = "setup" => work = kv
                                   /\ pc[a] = "up" => work[ln] = kv[ln]

RowInv ==
  /\ \A k \in Keys : Len(kv[k]) <= 1 /\ Len(work[k]) <= 1
  /\ \A a \in Apps : Busy(a, {"missing"}) => Len(work[request[a].key]) = 0

\* The number that comes next.
Cur == IF kv[ln] = <<>> THEN 0 ELSE kv[ln][1] + 1

\* Whoever is counting has that number, unless there was a race.
CountInv ==
  /\ \A a \in Apps : pc[a] = "counting" /\ Busy(a, {"written"}) =>
       Len(work[ln]) = 1 /\ work[ln][1] = launch[a]
  /\ ~raced =>
       /\ counted = Cur
       /\ \A a \in Apps :
            /\ pc[a] = "counting" /\ ~Busy(a, {"done"}) => launch[a] = Cur
            /\ pc[a] = "start" /\ Busy(a, {"reading", "done"}) => Next1(request[a].value) = Cur

\* A writer has changed its key, if anything, and nothing else.
SetInv ==
  \A a \in Apps :
    /\ Busy(a, {"missing", "written"}) => \A k \in Keys : k # request[a].key => work[k] = kv[k]
    /\ Busy(a, {"written"}) => Len(work[request[a].key]) = 1 /\ work[request[a].key][1] = request[a].value

IInv == KvType /\ CallInv /\ LockInv /\ WriterInv /\ RowInv /\ CountInv /\ SetInv
------------------------------------------------------------------------------
States == {"asked", "reading", "missing", "written", "done", "refused"}

\* The next call of a, or how far it gets.
LEMMA RequestSet ==
  ASSUME TypeOK, NEW a \in Apps, NEW r \in Request, request' = [request EXCEPT ![a] = r]
  PROVE  /\ request' \in [Apps -> Request \cup {NoRequest}]
         /\ request'[a] = r /\ r # NoRequest
         /\ \A b \in Apps : b # a => request'[b] = request[b]
BY KvStoreAssumption DEF TypeOK

LEMMA RequestBecomes ==
  ASSUME TypeOK, NEW a \in Apps, request[a] # NoRequest, NEW s \in States, Become(a, s)
  PROVE  /\ request' \in [Apps -> Request \cup {NoRequest}] /\ request[a] \in Request
         /\ request'[a] \in Request /\ request'[a] # NoRequest
         /\ request'[a].op = request[a].op /\ request'[a].key = request[a].key
         /\ request'[a].value = request[a].value /\ request'[a].state = s
         /\ \A b \in Apps : b # a => request'[b] = request[b]
<1>1. request[a] \in Request
  BY DEF TypeOK
<1>2. request' = [request EXCEPT ![a] = [request[a] EXCEPT !.state = s]]
  BY DEF Become, TypeOK
<1>3. [request[a] EXCEPT !.state = s] \in Request
  BY <1>1 DEF Request, States
<1>4. /\ [request[a] EXCEPT !.state = s].op = request[a].op /\ [request[a] EXCEPT !.state = s].key = request[a].key
      /\ [request[a] EXCEPT !.state = s].value = request[a].value
      /\ [request[a] EXCEPT !.state = s].state = s
  BY <1>1 DEF Request
<1> QED BY <1>1, <1>2, <1>3, <1>4, RequestSet

\* The request made by Call.
LEMMA Called ==
  ASSUME TypeOK, NEW a \in Apps, NEW r \in Calls(a)
  PROVE  /\ r \in Request /\ r.state = "asked"
         /\ pc[a] \in {"start", "counting", "up"}
         /\ pc[a] = "start" => r.op = "get" /\ r.key = ln /\ r.value = Null
         /\ pc[a] = "counting" => r.op = "set" /\ r.key = ln /\ r.value = launch[a]
         /\ pc[a] = "up" => r.key = "username"
         /\ r.op = "get" => r.value = Null
         /\ r.op = "set" => r.value \in Values
<1>1. launch[a] \in Nat /\ pc[a] \in {"off", "setup", "start", "counting", "up"}
  BY DEF TypeOK
<1>2. \A k \in Keys : /\ Map!Get(k) \in Request /\ Map!Get(k).op = "get" /\ Map!Get(k).key = k
                      /\ Map!Get(k).value = Null /\ Map!Get(k).state = "asked"
  BY DEF Map!Get, Request
<1>3. \A k \in Keys, v \in Values : /\ Map!Set(k, v) \in Request /\ Map!Set(k, v).op = "set"
                      /\ Map!Set(k, v).key = k /\ Map!Set(k, v).value = v /\ Map!Set(k, v).state = "asked"
  BY DEF Map!Set, Request
<1>4. ln \in Keys /\ "username" \in Keys /\ launch[a] \in Values /\ Usernames \subseteq Values
  BY <1>1 DEF Keys, Values, ln
<1>5. CASE pc[a] = "start"
  BY <1>2, <1>4, <1>5 DEF Calls, ln
<1>6. CASE pc[a] = "counting"
  BY <1>3, <1>4, <1>6 DEF Calls, ln
<1>7. CASE pc[a] = "up"
  <2>1. r = Map!Get("username") \/ \E u \in Usernames : r = Map!Set("username", u)
    BY <1>7 DEF Calls
  <2> QED BY <1>2, <1>3, <1>4, <1>7, <2>1
<1>8. pc[a] \notin {"off", "setup"}
  BY DEF Calls
<1> QED BY <1>1, <1>5, <1>6, <1>7, <1>8

\* s with v in every place.
Filled(s, v) == [i \in DOMAIN s |-> v]

LEMMA OneOrNone ==
  ASSUME NEW S, NEW s \in Seq(S)
  PROVE  /\ Len(s) \in Nat /\ (s = <<>> <=> Len(s) = 0) /\ (s # <<>> => Head(s) \in S /\ Head(s) = s[1])
         /\ \A v \in S : /\ Filled(s, v) \in Seq(S) /\ Len(Filled(s, v)) = Len(s)
                         /\ Len(s) # 0 => Filled(s, v)[1] = v
                         /\ Append(s, v) \in Seq(S) /\ Len(Append(s, v)) = Len(s) + 1
                         /\ Len(s) = 0 => Append(s, v)[1] = v
<1>1. Len(s) \in Nat /\ DOMAIN s = 1 .. Len(s) /\ (s = <<>> <=> Len(s) = 0)
  OBVIOUS
<1>2. ASSUME s # <<>> PROVE Head(s) = s[1] /\ s[1] \in S
  BY <1>1, <1>2
<1>3. ASSUME NEW v \in S
      PROVE  /\ Filled(s, v) \in Seq(S) /\ Len(Filled(s, v)) = Len(s)
             /\ Len(s) # 0 => Filled(s, v)[1] = v
  <2>1. [i \in 1 .. Len(s) |-> v] \in Seq(S) /\ Len([i \in 1 .. Len(s) |-> v]) = Len(s)
    BY <1>1
  <2> QED BY <1>1, <2>1 DEF Filled
<1>4. ASSUME NEW v \in S
      PROVE  /\ Append(s, v) \in Seq(S) /\ Len(Append(s, v)) = Len(s) + 1
             /\ Len(s) = 0 => Append(s, v)[1] = v
  OBVIOUS
<1> QED BY <1>1, <1>2, <1>3, <1>4
LEMMA FilledRows ==
  ASSUME NEW s \in Seq(Values), NEW v \in Values, NEW t, t = Filled(s, v)
  PROVE  /\ Len(t) = Len(s) /\ Len(s) \in Nat /\ (s = <<>> <=> Len(s) = 0)
         /\ Len(s) # 0 => t[1] = v
<1>1. Filled(s, v) \in Seq(Values) /\ Len(Filled(s, v)) = Len(s)
  BY OneOrNone
<1>2. Len(s) # 0 => Filled(s, v)[1] = v
  <2>1. DOMAIN s = 1 .. Len(s) /\ Len(s) \in Nat
    OBVIOUS
  <2> QED BY <2>1 DEF Filled
<1>3. Len(s) \in Nat /\ (s = <<>> <=> Len(s) = 0)
  OBVIOUS
<1> QED BY <1>1, <1>2, <1>3

LEMMA RowsSet ==
  ASSUME KvType, NEW k \in Keys, NEW rows \in Seq(Values), k = ln => rows \in Seq(Nat),
         work' = [work EXCEPT ![k] = rows]
  PROVE  /\ work' \in [Keys -> Seq(Values)] /\ work'[ln] \in Seq(Nat)
         /\ work'[k] = rows /\ \A j \in Keys : j # k => work'[j] = work[j]
BY DEF KvType, TypeOK, Keys, ln

LEMMA KvTypeNext ==
  ASSUME KvType, CallInv, LockInv, NEW a \in Apps
  PROVE  /\ Launch(a) \/ SetupCommits(a) \/ LaunchFails(a) \/ Crash(a) \/ Call(a) \/ Return(a) => KvType'
         /\ Select(a) \/ SelectFails(a) \/ CursorDestroyed(a) => KvType'
         /\ Update(a) \/ UpdateFails(a) \/ Insert(a) \/ Commit(a) \/ CommitFails(a) => KvType'
<1> USE DEF KvType
<1>1. /\ TypeOK /\ launch[a] \in Nat /\ stale[a] \in SUBSET {"select", "update"}
      /\ lock[a] \in {"none", "shared", "reserved", "pending"}
  BY DEF TypeOK
<1>2. ASSUME NEW S \in SUBSET {"select", "update"}, stale' = [stale EXCEPT ![a] = S]
      PROVE  stale' \in [Apps -> SUBSET {"select", "update"}]
  BY <1>2 DEF TypeOK
<1>3. ASSUME NEW l \in {"none", "shared", "reserved", "pending"}, Hold(a, l)
      PROVE  lock' \in [Apps -> {"none", "shared", "reserved", "pending"}]
  BY <1>3 DEF TypeOK, Hold
<1>4. ASSUME Close(a) PROVE KvType'
  <2>1. /\ work' \in [Keys -> Seq(Values)] /\ work'[ln] \in Seq(Nat)
        /\ UNCHANGED <<created, kv, launches, counted, raced>>
    BY <1>4 DEF Close, rowVars, historyVars, TypeOK
  <2>2. request' \in [Apps -> Request \cup {NoRequest}] /\ launch' \in [Apps -> Nat]
        /\ pc' \in [Apps -> {"off", "setup", "start", "counting", "up"}]
        /\ stale' \in [Apps -> SUBSET {"select", "update"}]
        /\ lock' \in [Apps -> {"none", "shared", "reserved", "pending"}]
    BY <1>4 DEF Close, Forget, Hold, TypeOK
  <2> QED BY <2>1, <2>2 DEF TypeOK
<1>5. CASE Launch(a)
  BY <1>3, <1>5, KvStoreAssumption DEF Launch, TypeOK, rowVars
<1>6. CASE SetupCommits(a)
  BY <1>3, <1>6 DEF SetupCommits, TypeOK, historyVars
<1>7. CASE Call(a)
  <2>1. request' \in [Apps -> Request \cup {NoRequest}]
    <3>1. PICK r \in Calls(a) : request' = [request EXCEPT ![a] = r]
      BY <1>7 DEF Call
    <3>2. r \in Request
      BY <1>1, Called
    <3> QED BY <1>1, <3>1, <3>2, RequestSet
  <2> QED BY <1>7, <2>1 DEF Call, TypeOK, rowVars, historyVars
<1>8. CASE Return(a)
  <2>1. request' \in [Apps -> Request \cup {NoRequest}]
        /\ pc' \in [Apps -> {"off", "setup", "start", "counting", "up"}]
    BY <1>8 DEF Return, TypeOK
  <2>2. pc[a] = "start" => Next1(request[a].value) \in Nat
    BY <1>8 DEF Return, Next1, CallInv
  <2>3. launch' \in [Apps -> Nat]
    BY <1>8, <2>2 DEF Return, TypeOK
  <2> QED BY <1>8, <2>1, <2>3 DEF Return, TypeOK, rowVars, historyVars
<1>9. CASE Select(a)
  <2>1. request' \in [Apps -> Request \cup {NoRequest}]
    <3>1. CASE Seen(a) = <<>>
      BY <1>1, <1>9, <3>1, RequestBecomes DEF Select, At, States
    <3>2. CASE Seen(a) # <<>>
      <4>1. request[a] \in Request /\ Seen(a) \in Seq(Values)
        BY <1>9 DEF Select, At, TypeOK, Seen, Request
      <4>2. Head(Seen(a)) \in Values
        BY <3>2, <4>1
      <4>3. request' = [request EXCEPT ![a] = [request[a] EXCEPT !.state = "reading", !.value = Head(Seen(a))]]
        BY <1>9, <3>2 DEF Select, TypeOK
      <4>4. [request[a] EXCEPT !.state = "reading", !.value = Head(Seen(a))] \in Request
        BY <4>1, <4>2 DEF Request
      <4> QED BY <1>1, <4>3, <4>4, RequestSet
    <3> QED BY <3>1, <3>2
  <2>2. lock' \in [Apps -> {"none", "shared", "reserved", "pending"}]
    BY <1>1, <1>3, <1>9 DEF Select, TypeOK
  <2> QED BY <1>9, <2>1, <2>2 DEF Select, TypeOK, rowVars, historyVars
<1>10. CASE SelectFails(a) \/ UpdateFails(a)
  <2>1. request' \in [Apps -> Request \cup {NoRequest}]
    BY <1>1, <1>10, RequestBecomes DEF SelectFails, UpdateFails, At, States
  <2>2. stale' \in [Apps -> SUBSET {"select", "update"}]
    <3>1. \/ stale' = stale
          \/ \E q \in {"select", "update"} :
               stale' = [stale EXCEPT ![a] = @ \cup {q}] \/ stale' = [stale EXCEPT ![a] = @ \ {q}]
      BY <1>10 DEF SelectFails, UpdateFails
    <3>2. CASE stale' = stale
      BY <3>2 DEF TypeOK
    <3>3. ASSUME NEW q \in {"select", "update"},
                 stale' = [stale EXCEPT ![a] = @ \cup {q}] \/ stale' = [stale EXCEPT ![a] = @ \ {q}]
          PROVE  stale' \in [Apps -> SUBSET {"select", "update"}]
      <4>1. stale[a] \cup {q} \in SUBSET {"select", "update"} /\ stale[a] \ {q} \in SUBSET {"select", "update"}
        BY <1>1
      <4>2. stale' = [stale EXCEPT ![a] = stale[a] \cup {q}] \/ stale' = [stale EXCEPT ![a] = stale[a] \ {q}]
        BY <3>3
      <4> QED BY <1>2, <4>1, <4>2
    <3> QED BY <3>1, <3>2, <3>3
  <2> QED BY <1>10, <2>1, <2>2 DEF SelectFails, UpdateFails, TypeOK, rowVars, historyVars
<1>11. CASE CursorDestroyed(a) \/ CommitFails(a)
  <2>1. request' \in [Apps -> Request \cup {NoRequest}]
    BY <1>1, <1>11, RequestBecomes DEF CursorDestroyed, CommitFails, At, States
  <2>2. lock' \in [Apps -> {"none", "shared", "reserved", "pending"}]
    BY <1>1, <1>3, <1>11 DEF CursorDestroyed, CommitFails
  <2> QED BY <1>11, <2>1, <2>2 DEF CursorDestroyed, CommitFails, TypeOK, rowVars, historyVars
<1>12. ASSUME Update(a) \/ Insert(a)
       PROVE  /\ request[a] \in Request /\ request[a].op = "set" /\ request[a].key \in Keys
              /\ request[a].value \in Values
              /\ request[a].key = ln => request[a].value \in Nat
  <2>1. request[a] \in Request /\ request[a].op = "set" /\ request[a] # NoRequest
        /\ pc[a] \in {"off", "setup", "start", "counting", "up"}
    BY <1>12 DEF Update, Insert, At, TypeOK
  <2>2. request[a].value \in Values /\ (request[a].key = ln => request[a].value = launch[a])
    BY <2>1 DEF CallInv, ln
  <2> QED BY <1>1, <2>1, <2>2 DEF Request
<1>13. CASE Update(a)
  <2> DEFINE k == request[a].key
             rows == Filled(work[k], request[a].value)
  <2>1. request' \in [Apps -> Request \cup {NoRequest}]
    BY <1>1, <1>13, RequestBecomes DEF Update, At, States
  <2>2. lock' \in [Apps -> {"none", "shared", "reserved", "pending"}]
    BY <1>3, <1>13 DEF Update
  <2>3. work[k] \in Seq(Values) /\ (k = ln => work[k] \in Seq(Nat))
    BY <1>12, <1>13 DEF TypeOK
  <2>4. rows \in Seq(Values)
    BY <1>12, <1>13, <2>3, OneOrNone
  <2>5. k = ln => rows \in Seq(Nat)
    BY <1>12, <1>13, <2>3, OneOrNone
  <2>6. work' \in [Keys -> Seq(Values)] /\ work'[ln] \in Seq(Nat)
    <3>1. k \in Keys /\ work' = [work EXCEPT ![k] = rows]
      BY <1>12, <1>13 DEF Update, Filled
    <3> HIDE DEF rows, k
    <3> QED BY <2>4, <2>5, <3>1, RowsSet
  <2> QED BY <1>13, <2>1, <2>2, <2>6 DEF Update, TypeOK, rowVars, historyVars
<1>14. CASE Insert(a)
  <2> DEFINE k == request[a].key
             rows == Append(work[k], request[a].value)
  <2>1. request' \in [Apps -> Request \cup {NoRequest}]
    BY <1>1, <1>14, RequestBecomes DEF Insert, At, States
  <2>2. work[k] \in Seq(Values) /\ (k = ln => work[k] \in Seq(Nat))
    BY <1>12, <1>14 DEF TypeOK
  <2>3. rows \in Seq(Values)
    BY <1>12, <1>14, <2>2, OneOrNone
  <2>4. k = ln => rows \in Seq(Nat)
    BY <1>12, <1>14, <2>2, OneOrNone
  <2>5. work' \in [Keys -> Seq(Values)] /\ work'[ln] \in Seq(Nat)
    <3>1. k \in Keys /\ work' = [work EXCEPT ![k] = rows]
      BY <1>12, <1>14 DEF Insert
    <3> HIDE DEF rows, k
    <3> QED BY <2>3, <2>4, <3>1, RowsSet
  <2> QED BY <1>14, <2>1, <2>5 DEF Insert, TypeOK, rowVars, historyVars
<1>15. CASE Commit(a)
  <2>1. request' \in [Apps -> Request \cup {NoRequest}]
    BY <1>1, <1>15, RequestBecomes DEF Commit, At, States
  <2>2. lock' \in [Apps -> {"none", "shared", "reserved", "pending"}]
    BY <1>3, <1>15 DEF Commit
  <2>3. raced' \in BOOLEAN /\ counted' \in Nat
    BY <1>15 DEF Commit, TypeOK
  <2> QED BY <1>15, <2>1, <2>2, <2>3 DEF Commit, TypeOK
<1> QED BY <1>4, <1>5, <1>6, <1>7, <1>8, <1>9, <1>10, <1>11, <1>13, <1>14, <1>15 DEF LaunchFails, Crash
------------------------------------------------------------------------------
\* What the actions of a do to the instances, one by one.

\* Nothing happens to the others.
Alone(a) ==
  \A b \in Apps : b # a =>
    /\ request'[b] = request[b] /\ lock'[b] = lock[b] /\ pc'[b] = pc[b] /\ launch'[b] = launch[b]

\* a's call, a get or a set, gets from state s to state t, and then a holds l.
Moves(a, op, s, t, l) ==
  /\ Alone(a) /\ lock'[a] = l /\ pc'[a] = pc[a] /\ launch'[a] = launch[a]
  /\ request[a] # NoRequest /\ request[a].state = s /\ request[a].op = op
  /\ request'[a] # NoRequest /\ request'[a].state = t
  /\ request'[a].op = request[a].op /\ request'[a].key = request[a].key

SameValue(a) == request'[a].value = request[a].value
SameData == UNCHANGED <<kv, work, counted, raced>>

LEMMA LaunchDoes ==
  ASSUME TypeOK, NEW a \in Apps, Launch(a)
  PROVE  /\ Alone(a) /\ SameData /\ request'[a] = request[a] /\ launch'[a] = launch[a]
         /\ pc[a] = "off" /\ pc'[a] = "setup"
         /\ lock'[a] = "shared" \/ (lock'[a] = "reserved" /\ CanWrite(a))
BY DEF Launch, TypeOK, Hold, Alone, SameData, rowVars

LEMMA SetupDoes ==
  ASSUME TypeOK, NEW a \in Apps, SetupCommits(a)
  PROVE  /\ Alone(a) /\ SameData /\ request'[a] = request[a] /\ launch'[a] = launch[a]
         /\ pc[a] = "setup" /\ pc'[a] = "start" /\ lock'[a] = "none"
BY DEF SetupCommits, TypeOK, Hold, Alone, SameData, historyVars

LEMMA CloseDoes ==
  ASSUME TypeOK, NEW a \in Apps, LaunchFails(a) \/ Crash(a)
  PROVE  /\ Alone(a) /\ request'[a] = NoRequest /\ launch'[a] = 0
         /\ pc'[a] = "off" /\ lock'[a] = "none"
         /\ work' = IF Writing(a) THEN kv ELSE work
         /\ UNCHANGED <<kv, counted, raced>>
BY DEF LaunchFails, Crash, Close, Forget, TypeOK, Hold, Alone, rowVars, historyVars

LEMMA CallDoes ==
  ASSUME TypeOK, NEW a \in Apps, Call(a)
  PROVE  /\ Alone(a) /\ SameData /\ launch'[a] = launch[a] /\ pc'[a] = pc[a] /\ lock'[a] = lock[a]
         /\ request[a] = NoRequest /\ request'[a] # NoRequest
         /\ request'[a].state = "asked" /\ pc[a] \in {"start", "counting", "up"}
         /\ pc[a] = "start" => request'[a].op = "get" /\ request'[a].key = ln /\ request'[a].value = Null
         /\ pc[a] = "counting" => /\ request'[a].op = "set" /\ request'[a].key = ln
                                  /\ request'[a].value = launch[a]
         /\ pc[a] = "up" => request'[a].key = "username"
         /\ request'[a].op = "get" => request'[a].value = Null
         /\ request'[a].op = "set" => request'[a].value \in Values
<1>1. request[a] = NoRequest /\ UNCHANGED <<kv, work, lock, pc, launch, counted, raced>>
  BY DEF Call, rowVars, historyVars
<1>2. PICK r \in Calls(a) : request' = [request EXCEPT ![a] = r]
  BY DEF Call
<1>3. r \in Request /\ r.state = "asked"
  BY <1>2, Called
<1>4. request'[a] = r /\ r # NoRequest /\ \A b \in Apps : b # a => request'[b] = request[b]
  BY <1>2, <1>3, RequestSet
<1>5. r.op = "set" => r.value \in Values
  BY <1>2, <1>3, Called, KvStoreAssumption DEF Values, TypeOK
<1>6. r.op = "get" => r.value = Null
  BY <1>2, <1>3, Called
<1> QED BY <1>1, <1>2, <1>3, <1>4, <1>5, <1>6, Called DEF Alone, SameData

LEMMA ReturnDoes ==
  ASSUME TypeOK, NEW a \in Apps, Return(a)
  PROVE  /\ Alone(a) /\ SameData /\ lock'[a] = lock[a]
         /\ request[a] # NoRequest /\ request'[a] = NoRequest
         /\ request[a].state = "done" \/ (request[a].state = "refused" /\ pc[a] = "up")
         /\ IF pc[a] = "start" THEN pc'[a] = "counting" /\ launch'[a] = Next1(request[a].value)
                               ELSE pc'[a] = "up" /\ launch'[a] = 0
BY DEF Return, TypeOK, Alone, SameData, rowVars, historyVars

LEMMA SelectDoes ==
  ASSUME TypeOK, NEW a \in Apps, Select(a)
  PROVE  /\ SameData
         /\ \/ Moves(a, "get", "asked", "done", lock[a]) /\ SameValue(a) /\ Seen(a) = <<>>
            \/ /\ Moves(a, "get", "asked", "reading", IF Writing(a) THEN lock[a] ELSE "shared")
               /\ Seen(a) # <<>> /\ request'[a].value = Head(Seen(a))
<1>1. At(a, "get", "asked") /\ UNCHANGED <<kv, work, pc, launch, counted, raced>>
  BY DEF Select, rowVars, historyVars
<1>2. CASE Seen(a) = <<>>
  <2>1. Become(a, "done") /\ lock' = lock
    BY <1>2 DEF Select
  <2> QED BY <1>1, <1>2, <2>1, RequestBecomes DEF At, States, Moves, Alone, SameData, SameValue
<1>3. CASE Seen(a) # <<>>
  <2> DEFINE r == [request[a] EXCEPT !.state = "reading", !.value = Head(Seen(a))]
             l == IF Writing(a) THEN lock[a] ELSE "shared"
  <2>1. request[a] \in Request /\ request[a] # NoRequest
    BY <1>1 DEF At, TypeOK
  <2>2. request' = [request EXCEPT ![a] = r] /\ Hold(a, l)
    BY <1>3 DEF Select, TypeOK
  <2>3. Seen(a) \in Seq(Values)
    BY <2>1 DEF Seen, TypeOK, Request
  <2>4. Head(Seen(a)) \in Values
    BY <1>3, <2>3
  <2>5. r \in Request /\ r.op = request[a].op /\ r.key = request[a].key /\ r.state = "reading" /\ r.value = Head(Seen(a))
    BY <2>1, <2>4 DEF Request
  <2>6. lock'[a] = l /\ \A b \in Apps : b # a => lock'[b] = lock[b]
    BY <2>2 DEF Hold, TypeOK
  <2> HIDE DEF r, l
  <2>7. request'[a] = r /\ r # NoRequest /\ \A b \in Apps : b # a => request'[b] = request[b]
    BY <2>2, <2>5, RequestSet
  <2>8. Alone(a) /\ SameData
    BY <1>1, <2>6, <2>7 DEF Alone, SameData
  <2>9. Moves(a, "get", "asked", "reading", l) /\ request'[a].value = Head(Seen(a))
    BY <1>1, <2>5, <2>6, <2>7, <2>8 DEF Moves, At
  <2> QED BY <1>3, <2>8, <2>9 DEF l
<1> QED BY <1>2, <1>3

LEMMA FailsDoes ==
  ASSUME TypeOK, NEW a \in Apps, SelectFails(a) \/ UpdateFails(a)
  PROVE  /\ SameData /\ SameValue(a)
         /\ Moves(a, "get", "asked", "refused", lock[a]) \/ Moves(a, "set", "asked", "refused", lock[a])
<1>1. Become(a, "refused") /\ (At(a, "get", "asked") \/ At(a, "set", "asked"))
      /\ UNCHANGED <<kv, work, lock, pc, launch, counted, raced>>
  BY DEF SelectFails, UpdateFails, rowVars, historyVars
<1> QED BY <1>1, RequestBecomes DEF At, States, Moves, Alone, SameData, SameValue

LEMMA CursorDoes ==
  ASSUME TypeOK, NEW a \in Apps, CursorDestroyed(a)
  PROVE  SameData /\ SameValue(a) /\ Moves(a, "get", "reading", "done", IF Writing(a) THEN lock[a] ELSE "none")
<1>1. Become(a, "done") /\ At(a, "get", "reading") /\ UNCHANGED <<kv, work, pc, launch, counted, raced>>
  BY DEF CursorDestroyed, rowVars, historyVars
<1>2. /\ lock'[a] = IF Writing(a) THEN lock[a] ELSE "none"
      /\ \A b \in Apps : b # a => lock'[b] = lock[b]
  BY DEF CursorDestroyed, Hold, TypeOK
<1> QED BY <1>1, <1>2, RequestBecomes DEF At, States, Moves, Alone, SameData, SameValue

LEMMA CommitFailsDoes ==
  ASSUME TypeOK, NEW a \in Apps, CommitFails(a)
  PROVE  SameData /\ SameValue(a) /\ Moves(a, "set", "written", "refused", "pending")
<1>1. Become(a, "refused") /\ At(a, "set", "written") /\ UNCHANGED <<kv, work, pc, launch, counted, raced>>
  BY DEF CommitFails, rowVars, historyVars
<1>2. lock'[a] = "pending" /\ \A b \in Apps : b # a => lock'[b] = lock[b]
  BY DEF CommitFails, Hold, TypeOK
<1> QED BY <1>1, <1>2, RequestBecomes DEF At, States, Moves, Alone, SameData, SameValue

LEMMA UpdateDoes ==
  ASSUME KvType, CallInv, NEW a \in Apps, Update(a)
  PROVE  LET k == request[a].key
             rows == Filled(work[k], request[a].value) IN
         /\ Moves(a, "set", "asked", IF work[k] = <<>> THEN "missing" ELSE "written", "reserved")
         /\ SameValue(a) /\ UNCHANGED <<kv, counted, raced>> /\ CanWrite(a) /\ ~Writing(a)
         /\ k \in Keys /\ work[k] \in Seq(Values) /\ request[a].value \in Values
         /\ work'[k] = rows /\ \A j \in Keys : j # k => work'[j] = work[j]
<1> DEFINE k == request[a].key
           rows == Filled(work[k], request[a].value)
<1> USE DEF KvType
<1>1. /\ At(a, "set", "asked") /\ UNCHANGED <<kv, pc, launch, counted, raced>>
      /\ CanWrite(a) /\ ~Writing(a)
      /\ Become(a, IF work[k] = <<>> THEN "missing" ELSE "written")
      /\ work' = [work EXCEPT ![k] = rows]
  BY DEF Update, Filled, rowVars, historyVars
<1>2. lock'[a] = "reserved" /\ \A b \in Apps : b # a => lock'[b] = lock[b]
  BY DEF Update, Hold, TypeOK
<1>3. k \in Keys /\ request[a].value \in Values /\ work[k] \in Seq(Values)
  <2>1. request[a] \in Request /\ request[a] # NoRequest
    BY <1>1 DEF At, TypeOK
  <2> QED BY <1>1, <2>1 DEF At, TypeOK, Request, CallInv
<1>4. work'[k] = rows /\ \A j \in Keys : j # k => work'[j] = work[j]
  <2>1. work \in [Keys -> Seq(Values)]
    BY DEF TypeOK
  <2> HIDE DEF k, rows
  <2> QED BY <1>1, <1>3, <2>1
<1>5. Moves(a, "set", "asked", IF work[k] = <<>> THEN "missing" ELSE "written", "reserved") /\ SameValue(a)
  BY <1>1, <1>2, RequestBecomes DEF At, States, Moves, Alone, SameValue
<1> QED BY <1>1, <1>3, <1>4, <1>5

LEMMA InsertDoes ==
  ASSUME KvType, CallInv, NEW a \in Apps, Insert(a)
  PROVE  LET k == request[a].key
             rows == Append(work[k], request[a].value) IN
         /\ Moves(a, "set", "missing", "written", lock[a])
         /\ SameValue(a) /\ UNCHANGED <<kv, counted, raced>>
         /\ k \in Keys /\ work[k] \in Seq(Values) /\ request[a].value \in Values
         /\ work'[k] = rows /\ \A j \in Keys : j # k => work'[j] = work[j]
<1> DEFINE k == request[a].key
           rows == Append(work[k], request[a].value)
<1> USE DEF KvType
<1>1. /\ At(a, "set", "missing") /\ UNCHANGED <<kv, lock, pc, launch, counted, raced>>
      /\ Become(a, "written") /\ work' = [work EXCEPT ![k] = rows]
  BY DEF Insert, rowVars, historyVars
<1>2. k \in Keys /\ request[a].value \in Values /\ work[k] \in Seq(Values)
  <2>1. request[a] \in Request /\ request[a] # NoRequest
    BY <1>1 DEF At, TypeOK
  <2> QED BY <1>1, <2>1 DEF At, TypeOK, Request, CallInv
<1>3. work'[k] = rows /\ \A j \in Keys : j # k => work'[j] = work[j]
  <2>1. work \in [Keys -> Seq(Values)]
    BY DEF TypeOK
  <2> HIDE DEF k, rows
  <2> QED BY <1>1, <1>2, <2>1
<1>4. Moves(a, "set", "missing", "written", lock[a]) /\ SameValue(a)
  BY <1>1, RequestBecomes DEF At, States, Moves, Alone, SameValue
<1> QED BY <1>1, <1>2, <1>3, <1>4

LEMMA CommitDoes ==
  ASSUME TypeOK, NEW a \in Apps, Commit(a)
  PROVE  /\ Moves(a, "set", "written", "done", "none") /\ SameValue(a)
         /\ CanCommit(a) /\ kv' = work /\ work' = work
         /\ counted' = (IF Counts(a) THEN counted + 1 ELSE counted)
         /\ raced' = (raced \/ (Counts(a) /\ \E b \in Others(a) : Counting(b)))
<1>1. /\ Become(a, "done") /\ At(a, "set", "written") /\ UNCHANGED <<work, pc, launch>>
      /\ CanCommit(a) /\ kv' = work
      /\ counted' = (IF Counts(a) THEN counted + 1 ELSE counted)
      /\ raced' = (raced \/ (Counts(a) /\ \E b \in Others(a) : Counting(b)))
  BY DEF Commit
<1>2. lock'[a] = "none" /\ \A b \in Apps : b # a => lock'[b] = lock[b]
  BY DEF Commit, Hold, TypeOK
<1> QED BY <1>1, <1>2, RequestBecomes DEF At, States, Moves, Alone, SameValue
------------------------------------------------------------------------------
\* Calls and locks

\* An action of an instance.
Step(a) ==
  \/ Launch(a) \/ SetupCommits(a) \/ LaunchFails(a) \/ Crash(a)
  \/ Call(a) \/ Return(a)
  \/ Select(a) \/ SelectFails(a) \/ CursorDestroyed(a)
  \/ Update(a) \/ UpdateFails(a) \/ Insert(a) \/ Commit(a) \/ CommitFails(a)

LEMMA CallInvNext == ASSUME KvType, CallInv, LockInv, NEW a \in Apps, Step(a) PROVE CallInv'
<1> USE DEF KvType
<1> DEFINE P(b) ==
      /\ pc'[b] \in {"off", "setup"} => request'[b] = NoRequest
      /\ request'[b] # NoRequest =>
           /\ pc'[b] = "start" => /\ request'[b].op = "get" /\ request'[b].key = ln
                                  /\ request'[b].value \in Nat \cup {Null}
           /\ pc'[b] = "counting" => /\ request'[b].op = "set" /\ request'[b].key = ln
                                     /\ request'[b].value = launch'[b]
           /\ pc'[b] = "up" => request'[b].key = "username"
           /\ request'[b].op = "set" => request'[b].value \in Values
           /\ request'[b].op = "get" /\ request'[b].state = "asked" => request'[b].value = Null
<1>1. ASSUME Alone(a), P(a) PROVE CallInv'
  BY <1>1 DEF Alone, CallInv
<1>2. ASSUME NEW op, NEW s, NEW t, NEW l, Moves(a, op, s, t, l), SameValue(a), t # "asked" PROVE CallInv'
  BY <1>1, <1>2 DEF Moves, SameValue, CallInv
<1>3. CASE Launch(a)
  BY <1>1, <1>3, LaunchDoes DEF CallInv
<1>4. CASE SetupCommits(a)
  BY <1>1, <1>4, SetupDoes DEF CallInv
<1>5. CASE LaunchFails(a) \/ Crash(a)
  BY <1>1, <1>5, CloseDoes
<1>6. CASE Call(a)
  BY <1>1, <1>6, CallDoes
<1>7. CASE Return(a)
  BY <1>1, <1>7, ReturnDoes
<1>8. CASE Select(a)
  <2>1. CASE Seen(a) = <<>>
    BY <1>2, <1>8, <2>1, SelectDoes
  <2>2. CASE Seen(a) # <<>>
    <3>1. Moves(a, "get", "asked", "reading", IF Writing(a) THEN lock[a] ELSE "shared")
          /\ request'[a].value = Head(Seen(a))
      BY <1>8, <2>2, SelectDoes
    <3>2. request[a].key = ln => Head(Seen(a)) \in Nat
      <4>1. request[a].key = ln => Seen(a) \in Seq(Nat)
        BY DEF Seen
      <4> QED BY <2>2, <4>1
    <3>3. Alone(a) /\ P(a)
      BY <3>1, <3>2 DEF Moves, CallInv
    <3> QED BY <1>1, <3>3
  <2> QED BY <2>1, <2>2
<1>9. CASE SelectFails(a) \/ UpdateFails(a)
  BY <1>2, <1>9, FailsDoes
<1>10. CASE CursorDestroyed(a)
  BY <1>2, <1>10, CursorDoes
<1>11. CASE CommitFails(a)
  BY <1>2, <1>11, CommitFailsDoes
<1>12. CASE Update(a)
  BY <1>2, <1>12, UpdateDoes
<1>13. CASE Insert(a)
  BY <1>2, <1>13, InsertDoes
<1>14. CASE Commit(a)
  BY <1>2, <1>14, CommitDoes
<1> QED BY <1>3, <1>4, <1>5, <1>6, <1>7, <1>8, <1>9, <1>10, <1>11, <1>12, <1>13, <1>14 DEF Step

LEMMA LockInvNext == ASSUME KvType, CallInv, LockInv, NEW a \in Apps, Step(a) PROVE LockInv'
<1> USE DEF KvType
<1> DEFINE Q(b) ==
      /\ pc'[b] = "off" => lock'[b] = "none"
      /\ pc'[b] = "setup" => lock'[b] \in {"shared", "reserved"}
      /\ lock'[b] = "shared" => pc'[b] = "setup" \/ Busy(b, {"reading"})'
      /\ lock'[b] = "reserved" => pc'[b] = "setup" \/ Busy(b, {"missing", "written"})'
      /\ lock'[b] = "pending" => pc'[b] = "up" \/ (pc'[b] = "counting" /\ Busy(b, {"refused"})')
      /\ Busy(b, {"missing", "written"})' => lock'[b] = "reserved" /\ request'[b].op = "set"
      /\ Busy(b, {"reading"})' => request'[b].op = "get"
<1>1. ASSUME Alone(a), Q(a) PROVE LockInv'
  BY <1>1 DEF Alone, LockInv, Busy
<1>2. lock[a] \in {"none", "shared", "reserved", "pending"}
      /\ pc[a] \in {"off", "setup", "start", "counting", "up"}
  BY DEF TypeOK
<1>3. CASE Launch(a)
  BY <1>1, <1>3, LaunchDoes DEF CallInv, Busy
<1>4. CASE SetupCommits(a)
  BY <1>1, <1>4, SetupDoes DEF CallInv, Busy
<1>5. CASE LaunchFails(a) \/ Crash(a)
  BY <1>1, <1>5, CloseDoes DEF Busy
<1>6. CASE Call(a)
  BY <1>1, <1>2, <1>6, CallDoes DEF LockInv, Busy
<1>7. CASE Return(a)
  BY <1>1, <1>2, <1>7, ReturnDoes DEF CallInv, LockInv, Busy
<1>8. CASE Select(a)
  <2>1. CASE Moves(a, "get", "asked", "done", lock[a])
    BY <1>1, <1>2, <2>1 DEF Moves, CallInv, LockInv, Busy
  <2>2. CASE Moves(a, "get", "asked", "reading", IF Writing(a) THEN lock[a] ELSE "shared")
    BY <1>1, <1>2, <2>2 DEF Moves, CallInv, LockInv, Busy, Writing
  <2> QED BY <1>8, <2>1, <2>2, SelectDoes
<1>9. CASE SelectFails(a) \/ UpdateFails(a)
  <2>1. ASSUME NEW op, Moves(a, op, "asked", "refused", lock[a]) PROVE LockInv'
    BY <1>1, <1>2, <2>1 DEF Moves, CallInv, LockInv, Busy
  <2> QED BY <1>9, <2>1, FailsDoes
<1>10. CASE CursorDestroyed(a)
  <2>1. Moves(a, "get", "reading", "done", IF Writing(a) THEN lock[a] ELSE "none")
    BY <1>10, CursorDoes
  <2> QED BY <1>1, <1>2, <2>1 DEF Moves, CallInv, LockInv, Busy, Writing
<1>11. CASE CommitFails(a)
  <2>1. Moves(a, "set", "written", "refused", "pending")
    BY <1>11, CommitFailsDoes
  <2> QED BY <1>1, <1>2, <2>1 DEF Moves, CallInv, LockInv, Busy
<1>12. CASE Update(a)
  <2>1. PICK t \in {"missing", "written"} : Moves(a, "set", "asked", t, "reserved")
    BY <1>12, UpdateDoes
  <2> QED BY <1>1, <1>2, <2>1 DEF Moves, CallInv, LockInv, Busy
<1>13. CASE Insert(a)
  <2>1. Moves(a, "set", "missing", "written", lock[a])
    BY <1>13, InsertDoes
  <2> QED BY <1>1, <1>2, <2>1 DEF Moves, CallInv, LockInv, Busy
<1>14. CASE Commit(a)
  <2>1. Moves(a, "set", "written", "done", "none")
    BY <1>14, CommitDoes
  <2> QED BY <1>1, <1>2, <2>1 DEF Moves, CallInv, LockInv, Busy
<1> QED BY <1>3, <1>4, <1>5, <1>6, <1>7, <1>8, <1>9, <1>10, <1>11, <1>12, <1>13, <1>14 DEF Step
------------------------------------------------------------------------------
\* Writers and rows

\* a was not writing and neither was anyone else.
LEMMA NobodyWrites ==
  ASSUME WriterInv, NEW a \in Apps, ~Writing(a), CanWrite(a)
  PROVE  work = kv /\ \A b \in Apps : ~Writing(b)
BY DEF WriterInv, CanWrite, Others

LEMMA WriterInvNext ==
  ASSUME KvType, CallInv, LockInv, WriterInv, NEW a \in Apps, Step(a) PROVE WriterInv'
<1> USE DEF KvType
<1>1. lock[a] \in {"none", "shared", "reserved", "pending"}
      /\ pc[a] \in {"off", "setup", "start", "counting", "up"}
  BY DEF TypeOK
<1>2. ASSUME Alone(a), work' = work, kv' = kv, Writing(a)' => Writing(a), Writing(a) => Writing(a)' \/ work = kv,
             Writing(a)' => (pc'[a] = "setup" => work = kv) /\ (pc'[a] = "up" => work[ln] = kv[ln])
      PROVE  WriterInv'
  <2>1. \A b \in Apps : b # a => (Writing(b)' <=> Writing(b)) /\ pc'[b] = pc[b]
    BY <1>2 DEF Alone, Writing
  <2>2. (\A b \in Apps : ~Writing(b)') => work' = kv'
    BY <1>2, <2>1 DEF WriterInv
  <2>3. \A b, c \in Apps : Writing(b)' /\ Writing(c)' => b = c
    BY <1>2, <2>1 DEF WriterInv
  <2>4. \A b \in Apps : Writing(b)' => /\ pc'[b] = "setup" => work' = kv'
                                       /\ pc'[b] = "up" => work'[ln] = kv'[ln]
    BY <1>2, <2>1 DEF WriterInv
  <2> QED BY <2>2, <2>3, <2>4 DEF WriterInv
<1>3. ASSUME Alone(a), \A b \in Others(a) : ~Writing(b), ~Writing(a)', work' = kv' PROVE WriterInv'
  <2>1. \A b \in Apps : ~Writing(b)'
    BY <1>3 DEF Alone, Writing, Others
  <2> QED BY <1>3, <2>1 DEF WriterInv
<1>4. ASSUME NEW op, NEW s, NEW t, NEW l \in {"none", "shared", "reserved", "pending"},
             Moves(a, op, s, t, l), work' = work, kv' = kv,
             l \in {"reserved", "pending"} <=> Writing(a)
      PROVE  WriterInv'
  <2>1. (Writing(a)' <=> Writing(a)) /\ pc'[a] = pc[a] /\ Alone(a)
    BY <1>4 DEF Moves, Writing
  <2> QED BY <1>2, <1>4, <2>1 DEF WriterInv
<1>5. CASE Launch(a)
  <2>1. ~Writing(a) /\ Alone(a) /\ work' = work /\ kv' = kv /\ pc'[a] = "setup"
    BY <1>5, LaunchDoes DEF LockInv, Writing, SameData
  <2>2. CASE lock'[a] = "shared"
    BY <1>2, <2>1, <2>2 DEF Writing
  <2>3. CASE lock'[a] = "reserved" /\ CanWrite(a)
    <3>1. work = kv /\ \A b \in Apps : ~Writing(b)
      BY <2>1, <2>3, NobodyWrites
    <3>2. \A b \in Apps : b # a => ~Writing(b)'
      BY <2>1, <3>1 DEF Alone, Writing
    <3> QED BY <2>1, <3>1, <3>2 DEF WriterInv
  <2> QED BY <1>5, <2>2, <2>3, LaunchDoes
<1>6. CASE SetupCommits(a)
  <2>1. Alone(a) /\ work' = work /\ kv' = kv /\ pc[a] = "setup" /\ ~Writing(a)'
    BY <1>6, SetupDoes DEF Writing, SameData
  <2>2. Writing(a) => work = kv
    BY <2>1 DEF WriterInv
  <2> QED BY <1>2, <2>1, <2>2
<1>7. CASE LaunchFails(a) \/ Crash(a)
  <2>1. Alone(a) /\ ~Writing(a)' /\ kv' = kv /\ work' = IF Writing(a) THEN kv ELSE work
    BY <1>7, CloseDoes DEF Writing
  <2>2. CASE Writing(a)
    <3>1. \A b \in Others(a) : ~Writing(b)
      BY <2>2 DEF WriterInv, Others
    <3> QED BY <1>3, <2>1, <2>2, <3>1
  <2>3. CASE ~Writing(a)
    BY <1>2, <2>1, <2>3
  <2> QED BY <2>2, <2>3
<1>8. CASE Call(a)
  <2>1. Alone(a) /\ work' = work /\ kv' = kv /\ pc'[a] = pc[a] /\ lock'[a] = lock[a]
    BY <1>8, CallDoes DEF SameData
  <2> QED BY <1>2, <2>1 DEF Writing, WriterInv
<1>9. CASE Return(a)
  <2>1. Alone(a) /\ work' = work /\ kv' = kv /\ lock'[a] = lock[a] /\ pc'[a] \in {"counting", "up"}
    BY <1>9, ReturnDoes DEF SameData
  <2>2. (Writing(a)' <=> Writing(a))
    BY <2>1 DEF Writing
  <2>3. Writing(a) => pc[a] = "up"
    BY <1>1, <1>9, ReturnDoes DEF CallInv, LockInv, Busy, Writing
  <2> QED BY <1>2, <2>1, <2>2, <2>3 DEF WriterInv
<1>10. CASE Select(a)
  <2>1. work' = work /\ kv' = kv
    BY <1>10, SelectDoes DEF SameData
  <2>2. CASE Moves(a, "get", "asked", "done", lock[a])
    BY <1>1, <1>4, <2>1, <2>2 DEF Writing
  <2>3. CASE Moves(a, "get", "asked", "reading", IF Writing(a) THEN lock[a] ELSE "shared")
    <3> DEFINE l == IF Writing(a) THEN lock[a] ELSE "shared"
    <3>1. l \in {"none", "shared", "reserved", "pending"} /\ (l \in {"reserved", "pending"} <=> Writing(a))
      BY <1>1 DEF Writing
    <3> QED BY <1>4, <2>1, <2>3, <3>1
  <2> QED BY <1>10, <2>2, <2>3, SelectDoes
<1>11. CASE SelectFails(a) \/ UpdateFails(a)
  <2>1. PICK op \in {"get", "set"} : work' = work /\ kv' = kv /\ Moves(a, op, "asked", "refused", lock[a])
    BY <1>11, FailsDoes DEF SameData
  <2> QED BY <1>1, <1>4, <2>1 DEF Writing
<1>12. CASE CursorDestroyed(a)
  <2> DEFINE l == IF Writing(a) THEN lock[a] ELSE "none"
  <2>1. work' = work /\ kv' = kv /\ Moves(a, "get", "reading", "done", l)
    BY <1>12, CursorDoes DEF SameData
  <2>2. l \in {"none", "shared", "reserved", "pending"} /\ (l \in {"reserved", "pending"} <=> Writing(a))
    BY <1>1 DEF Writing
  <2> QED BY <1>4, <2>1, <2>2
<1>13. CASE CommitFails(a)
  <2>1. work' = work /\ kv' = kv /\ Moves(a, "set", "written", "refused", "pending")
    BY <1>13, CommitFailsDoes DEF SameData
  <2>2. Writing(a)
    BY <2>1 DEF Moves, LockInv, Busy, Writing
  <2> QED BY <1>4, <2>1, <2>2
<1>14. ASSUME Writing(a)', Alone(a), kv' = kv, \A b \in Others(a) : ~Writing(b),
              pc'[a] = "counting" \/ (pc'[a] = "up" /\ work'[ln] = kv[ln]) \/ pc'[a] = "start"
       PROVE  WriterInv'
  <2>1. \A b \in Apps : b # a => ~Writing(b)'
    BY <1>14 DEF Alone, Writing, Others
  <2> QED BY <1>14, <2>1 DEF WriterInv
<1>15. ASSUME NEW s, NEW t, NEW l \in {"reserved"}, Moves(a, "set", s, t, l), kv' = kv,
              \A j \in Keys : j # request[a].key => work'[j] = work[j],
              pc[a] = "up" => work[ln] = kv[ln], \A b \in Others(a) : ~Writing(b)
       PROVE  WriterInv'
  <2>1. Writing(a)' /\ Alone(a) /\ pc'[a] = pc[a] /\ request[a] # NoRequest
    BY <1>15 DEF Moves, Writing
  <2>2. pc[a] = "up" => request[a].key = "username"
    BY <2>1 DEF CallInv
  <2>3. pc[a] = "up" => work'[ln] = kv[ln]
    BY <1>15, <2>2 DEF Keys, ln
  <2>4. pc[a] \in {"start", "counting", "up"}
    BY <1>1, <2>1 DEF CallInv
  <2> QED BY <1>14, <1>15, <2>1, <2>3, <2>4
<1>16. CASE Update(a)
  <2>1. PICK t : Moves(a, "set", "asked", t, "reserved")
    BY <1>16, UpdateDoes
  <2>2. kv' = kv /\ CanWrite(a) /\ ~Writing(a) /\ \A j \in Keys : j # request[a].key => work'[j] = work[j]
    BY <1>16, UpdateDoes
  <2>3. work = kv /\ \A b \in Others(a) : ~Writing(b)
    BY <2>2, NobodyWrites DEF Others
  <2> QED BY <1>15, <2>1, <2>2, <2>3
<1>17. CASE Insert(a)
  <2>1. Moves(a, "set", "missing", "written", lock[a])
    BY <1>17, InsertDoes
  <2>2. kv' = kv /\ \A j \in Keys : j # request[a].key => work'[j] = work[j]
    BY <1>17, InsertDoes
  <2>3. lock[a] = "reserved" /\ Writing(a)
    BY <2>1 DEF Moves, LockInv, Busy, Writing
  <2>4. (pc[a] = "up" => work[ln] = kv[ln]) /\ \A b \in Others(a) : ~Writing(b)
    BY <2>3 DEF WriterInv, Others
  <2> QED BY <1>15, <2>1, <2>2, <2>3, <2>4
<1>18. CASE Commit(a)
  <2>1. Moves(a, "set", "written", "done", "none") /\ CanCommit(a) /\ kv' = work /\ work' = work
    BY <1>18, CommitDoes
  <2> QED BY <1>3, <2>1 DEF Moves, CanCommit, Writing
<1> QED BY <1>5, <1>6, <1>7, <1>8, <1>9, <1>10, <1>11, <1>12, <1>13, <1>16, <1>17, <1>18 DEF Step
\* Only a writer's call finds no row, or has written.
LEMMA OnlyTheWriter ==
  ASSUME LockInv, WriterInv, NEW a \in Apps, NEW b \in Apps, b # a,
         Writing(a) \/ (~Writing(a) /\ CanWrite(a)) \/ CanCommit(a)
  PROVE  ~Busy(b, {"missing"}) /\ ~Busy(b, {"written"})
BY DEF LockInv, WriterInv, Writing, CanWrite, CanCommit, Others, Busy

LEMMA RowInvNext ==
  ASSUME KvType, CallInv, LockInv, WriterInv, RowInv, NEW a \in Apps, Step(a) PROVE RowInv'
<1> USE DEF KvType
<1>1. ASSUME Alone(a), work' = work, kv' = kv,
             Busy(a, {"missing"})' => Busy(a, {"missing"}) /\ request'[a].key = request[a].key
      PROVE  RowInv'
  <2>1. \A b \in Apps : b # a => (Busy(b, {"missing"})' <=> Busy(b, {"missing"})) /\ request'[b] = request[b]
    BY <1>1 DEF Alone, Busy
  <2> QED BY <1>1, <2>1 DEF RowInv
<1>2. ASSUME NEW op, NEW s, NEW t, NEW l, Moves(a, op, s, t, l), work' = work, kv' = kv, t # "missing"
      PROVE  RowInv'
  BY <1>1, <1>2 DEF Moves, Busy
<1>3. ASSUME Alone(a), \A k \in Keys : Len(kv'[k]) <= 1 /\ Len(work'[k]) <= 1,
             \A b \in Others(a) : ~Busy(b, {"missing"}),
             Busy(a, {"missing"})' => Len(work'[request'[a].key]) = 0
      PROVE  RowInv'
  <2>1. \A b \in Apps : b # a => ~Busy(b, {"missing"})'
    BY <1>3 DEF Alone, Busy, Others
  <2> QED BY <1>3, <2>1 DEF RowInv
<1>4. CASE Launch(a)
  BY <1>1, <1>4, LaunchDoes DEF SameData, Busy
<1>5. CASE SetupCommits(a)
  BY <1>1, <1>5, SetupDoes DEF SameData, Busy
<1>6. CASE LaunchFails(a) \/ Crash(a)
  <2>1. Alone(a) /\ ~Busy(a, {"missing"})' /\ kv' = kv /\ work' = IF Writing(a) THEN kv ELSE work
    BY <1>6, CloseDoes DEF Busy
  <2>2. CASE Writing(a)
    <3>1. \A b \in Others(a) : ~Busy(b, {"missing"})
      BY <2>2, OnlyTheWriter DEF Others
    <3> QED BY <1>3, <2>1, <2>2, <3>1 DEF RowInv
  <2>3. CASE ~Writing(a)
    BY <1>1, <2>1, <2>3
  <2> QED BY <2>2, <2>3
<1>7. CASE Call(a)
  BY <1>1, <1>7, CallDoes DEF SameData, Busy
<1>8. CASE Return(a)
  BY <1>1, <1>8, ReturnDoes DEF SameData, Busy
<1>9. CASE Select(a)
  BY <1>2, <1>9, SelectDoes DEF SameData
<1>10. CASE SelectFails(a) \/ UpdateFails(a)
  BY <1>2, <1>10, FailsDoes DEF SameData
<1>11. CASE CursorDestroyed(a)
  BY <1>2, <1>11, CursorDoes DEF SameData
<1>12. CASE CommitFails(a)
  BY <1>2, <1>12, CommitFailsDoes DEF SameData
<1>13. CASE Update(a)
  <2> DEFINE k == request[a].key
  <2>1. /\ Moves(a, "set", "asked", IF work[k] = <<>> THEN "missing" ELSE "written", "reserved")
        /\ kv' = kv /\ CanWrite(a) /\ ~Writing(a) /\ k \in Keys /\ work[k] \in Seq(Values)
        /\ request[a].value \in Values /\ work'[k] = Filled(work[k], request[a].value)
        /\ \A j \in Keys : j # k => work'[j] = work[j]
    BY <1>13, UpdateDoes
  <2>2. Len(work'[k]) = Len(work[k]) /\ Len(work[k]) \in Nat /\ (work[k] = <<>> <=> Len(work[k]) = 0)
    BY <2>1, FilledRows
  <2>3. \A j \in Keys : Len(kv'[j]) <= 1 /\ Len(work'[j]) <= 1
    BY <2>1, <2>2 DEF RowInv
  <2>4. \A b \in Others(a) : ~Busy(b, {"missing"})
    BY <2>1, OnlyTheWriter DEF Others
  <2>5. Busy(a, {"missing"})' => Len(work'[request'[a].key]) = 0
    BY <2>1, <2>2 DEF Moves, Busy
  <2>6. Alone(a)
    BY <2>1 DEF Moves
  <2> QED BY <1>3, <2>3, <2>4, <2>5, <2>6
<1>14. CASE Insert(a)
  <2> DEFINE k == request[a].key
  <2>1. /\ Moves(a, "set", "missing", "written", lock[a])
        /\ kv' = kv /\ k \in Keys /\ work[k] \in Seq(Values)
        /\ request[a].value \in Values /\ work'[k] = Append(work[k], request[a].value)
        /\ \A j \in Keys : j # k => work'[j] = work[j]
    BY <1>14, InsertDoes
  <2>2. Busy(a, {"missing"}) /\ Alone(a) /\ ~Busy(a, {"missing"})'
    BY <2>1 DEF Moves, Busy
  <2>3. Len(work[k]) = 0 /\ Writing(a)
    BY <2>2 DEF RowInv, LockInv, Writing, Busy
  <2>4. Len(work'[k]) = 1
    BY <2>1, <2>3, OneOrNone
  <2>5. \A j \in Keys : Len(kv'[j]) <= 1 /\ Len(work'[j]) <= 1
    BY <2>1, <2>4 DEF RowInv
  <2>6. \A b \in Others(a) : ~Busy(b, {"missing"})
    BY <2>3, OnlyTheWriter DEF Others
  <2> QED BY <1>3, <2>2, <2>5, <2>6
<1>15. CASE Commit(a)
  <2>1. Moves(a, "set", "written", "done", "none") /\ CanCommit(a) /\ kv' = work /\ work' = work
    BY <1>15, CommitDoes
  <2>2. \A b \in Others(a) : ~Busy(b, {"missing"})
    BY <2>1, OnlyTheWriter DEF Others
  <2> QED BY <1>3, <2>1, <2>2 DEF Moves, Busy, RowInv
<1> QED BY <1>4, <1>5, <1>6, <1>7, <1>8, <1>9, <1>10, <1>11, <1>12, <1>13, <1>14, <1>15 DEF Step

LEMMA SetInvNext ==
  ASSUME KvType, CallInv, LockInv, WriterInv, RowInv, SetInv, NEW a \in Apps, Step(a) PROVE SetInv'
<1> USE DEF KvType
<1> DEFINE R(b) ==
      /\ Busy(b, {"missing", "written"}) => \A k \in Keys : k # request[b].key => work[k] = kv[k]
      /\ Busy(b, {"written"}) => Len(work[request[b].key]) = 1 /\ work[request[b].key][1] = request[b].value
<1>1. SetInv <=> \A b \in Apps : R(b)
  BY DEF SetInv
<1>2. SetInv' <=> \A b \in Apps : R(b)'
  BY DEF SetInv
<1>3. ASSUME Alone(a), work' = work, kv' = kv, ~Busy(a, {"missing", "written"})' PROVE SetInv'
  <2>1. \A b \in Apps : b # a => R(b)'
    BY <1>1, <1>3 DEF Alone, Busy
  <2>2. R(a)'
    BY <1>3 DEF Busy
  <2> QED BY <1>2, <2>1, <2>2
<1>4. ASSUME NEW op, NEW s, NEW t, NEW l, Moves(a, op, s, t, l), work' = work, kv' = kv,
             t \notin {"missing", "written"}
      PROVE  SetInv'
  BY <1>3, <1>4 DEF Moves, Busy
<1>5. ASSUME Alone(a), \A b \in Others(a) : ~Busy(b, {"missing"}) /\ ~Busy(b, {"written"}), R(a)'
      PROVE  SetInv'
  <2>1. \A b \in Apps : b # a => R(b)'
    BY <1>5 DEF Alone, Busy, Others
  <2> QED BY <1>2, <1>5, <2>1
<1>6. CASE Launch(a) \/ SetupCommits(a)
  <2>1. Alone(a) /\ work' = work /\ kv' = kv /\ request'[a] = NoRequest
    BY <1>6, LaunchDoes, SetupDoes DEF SameData, CallInv
  <2> QED BY <1>3, <2>1 DEF Busy
<1>7. CASE LaunchFails(a) \/ Crash(a)
  <2>1. Alone(a) /\ request'[a] = NoRequest /\ kv' = kv /\ work' = IF Writing(a) THEN kv ELSE work
    BY <1>7, CloseDoes
  <2>2. CASE Writing(a)
    <3>1. \A b \in Others(a) : ~Busy(b, {"missing"}) /\ ~Busy(b, {"written"})
      BY <2>2, OnlyTheWriter DEF Others
    <3> QED BY <1>5, <2>1, <3>1 DEF Busy
  <2>3. CASE ~Writing(a)
    BY <1>3, <2>1, <2>3 DEF Busy
  <2> QED BY <2>2, <2>3
<1>8. CASE Call(a)
  BY <1>3, <1>8, CallDoes DEF SameData, Busy
<1>9. CASE Return(a)
  BY <1>3, <1>9, ReturnDoes DEF SameData, Busy
<1>10. CASE Select(a)
  BY <1>4, <1>10, SelectDoes DEF SameData
<1>11. CASE SelectFails(a) \/ UpdateFails(a)
  BY <1>4, <1>11, FailsDoes DEF SameData
<1>12. CASE CursorDestroyed(a)
  BY <1>4, <1>12, CursorDoes DEF SameData
<1>13. CASE CommitFails(a)
  BY <1>4, <1>13, CommitFailsDoes DEF SameData
<1>14. CASE Update(a)
  <2> DEFINE k == request[a].key
  <2>1. /\ Moves(a, "set", "asked", IF work[k] = <<>> THEN "missing" ELSE "written", "reserved") /\ SameValue(a)
        /\ kv' = kv /\ CanWrite(a) /\ ~Writing(a) /\ k \in Keys /\ work[k] \in Seq(Values)
        /\ request[a].value \in Values /\ work'[k] = Filled(work[k], request[a].value)
        /\ \A j \in Keys : j # k => work'[j] = work[j]
    BY <1>14, UpdateDoes
  <2>2. work = kv /\ \A b \in Others(a) : ~Busy(b, {"missing"}) /\ ~Busy(b, {"written"})
    BY <2>1, NobodyWrites, OnlyTheWriter DEF Others
  <2>3. /\ Alone(a) /\ request'[a].key = k /\ request'[a].value = request[a].value
        /\ Busy(a, {"written"})' => work[k] # <<>>
    BY <2>1 DEF Moves, SameValue, Busy
  <2>4. Len(work[k]) \in Nat /\ Len(work[k]) <= 1
    BY <2>1 DEF RowInv
  <2>5. \A n \in Nat : n # 0 /\ n <= 1 => n = 1
    OBVIOUS
  <2>6. work[k] # <<>> => Len(work[k]) = 1
    BY <2>1, <2>4, <2>5, FilledRows
  <2>7. work[k] # <<>> => Len(work'[k]) = 1 /\ work'[k][1] = request[a].value
    BY <2>1, <2>6, FilledRows
  <2>8. R(a)'
    BY <2>1, <2>2, <2>3, <2>7
  <2> QED BY <1>5, <2>2, <2>3, <2>8
<1>15. CASE Insert(a)
  <2> DEFINE k == request[a].key
  <2>1. /\ Moves(a, "set", "missing", "written", lock[a]) /\ SameValue(a)
        /\ kv' = kv /\ k \in Keys /\ work[k] \in Seq(Values)
        /\ request[a].value \in Values /\ work'[k] = Append(work[k], request[a].value)
        /\ \A j \in Keys : j # k => work'[j] = work[j]
    BY <1>15, InsertDoes
  <2>2. Alone(a) /\ request'[a].key = k /\ request'[a].value = request[a].value /\ Busy(a, {"missing"})
    BY <2>1 DEF Moves, SameValue, Busy
  <2>3. Len(work[k]) = 0 /\ Writing(a) /\ Busy(a, {"missing", "written"})
    BY <2>2 DEF RowInv, LockInv, Writing, Busy
  <2>4. \A b \in Others(a) : ~Busy(b, {"missing"}) /\ ~Busy(b, {"written"})
    BY <2>3, OnlyTheWriter DEF Others
  <2>5. Len(work'[k]) = 1 /\ work'[k][1] = request[a].value
    BY <2>1, <2>3, OneOrNone
  <2>6. \A j \in Keys : j # k => work[j] = kv[j]
    BY <1>1, <2>3
  <2>7. R(a)'
    BY <2>1, <2>2, <2>5, <2>6
  <2> QED BY <1>5, <2>2, <2>4, <2>7
<1>16. CASE Commit(a)
  <2>1. Moves(a, "set", "written", "done", "none") /\ CanCommit(a)
    BY <1>16, CommitDoes
  <2>2. \A b \in Others(a) : ~Busy(b, {"missing"}) /\ ~Busy(b, {"written"})
    BY <2>1, OnlyTheWriter DEF Others
  <2> QED BY <1>5, <2>1, <2>2 DEF Moves, Busy
<1> QED BY <1>6, <1>7, <1>8, <1>9, <1>10, <1>11, <1>12, <1>13, <1>14, <1>15, <1>16 DEF Step

------------------------------------------------------------------------------
\* Launches

LEMMA CountInvNext ==
  ASSUME KvType, CallInv, LockInv, WriterInv, RowInv, CountInv, NEW a \in Apps, Step(a) PROVE CountInv'
<1> USE DEF KvType
<1>1. lock[a] \in {"none", "shared", "reserved", "pending"} /\ launch[a] \in Nat
      /\ pc[a] \in {"off", "setup", "start", "counting", "up"}
  BY DEF TypeOK
\* What is asked of b after the step.
<1> DEFINE Wrote(b) == pc[b] = "counting" /\ Busy(b, {"written"}) => Len(work[ln]) = 1 /\ work[ln][1] = launch[b]
           Read(b) == /\ pc[b] = "counting" /\ ~Busy(b, {"done"}) => launch[b] = Cur
                      /\ pc[b] = "start" /\ Busy(b, {"reading", "done"}) => Next1(request[b].value) = Cur
<1>2. CountInv <=> /\ \A b \in Apps : Wrote(b)
                   /\ ~raced => counted = Cur /\ \A b \in Apps : Read(b)
  BY DEF CountInv
<1>3. CountInv' <=> /\ \A b \in Apps : Wrote(b)'
                    /\ ~raced' => counted' = Cur' /\ \A b \in Apps : Read(b)'
  BY DEF CountInv
<1>4. ASSUME Alone(a), kv' = kv, UNCHANGED <<counted, raced>>,
             \A b \in Others(a) : Busy(b, {"written"}) => work'[ln] = work[ln],
             Wrote(a)', ~raced => Read(a)'
      PROVE  CountInv'
  <2>1. Cur' = Cur
    BY <1>4 DEF Cur
  <2>2. \A b \in Apps : b # a => Wrote(b)' /\ (Read(b) => Read(b)')
    BY <1>2, <1>4, <2>1 DEF Alone, Busy, Others
  <2> QED BY <1>2, <1>3, <1>4, <2>1, <2>2
<1>5. ASSUME NEW op, NEW s, NEW t, NEW l, Moves(a, op, s, t, l), SameData, SameValue(a),
             t \notin {"written", "reading", "done"}, s # "done"
      PROVE  CountInv'
  <2>1. Alone(a) /\ Cur' = Cur /\ UNCHANGED <<kv, work, counted, raced>>
    BY <1>5 DEF Moves, SameData, Cur
  <2>2. Wrote(a)' /\ (~raced => Read(a)')
    BY <1>2, <1>5, <2>1 DEF Moves, Busy
  <2> QED BY <1>4, <2>1, <2>2
<1>6. CASE Launch(a)
  <2>1. Alone(a) /\ UNCHANGED <<kv, work, counted, raced>> /\ pc'[a] = "setup"
    BY <1>6, LaunchDoes DEF SameData
  <2> QED BY <1>4, <2>1
<1>7. CASE SetupCommits(a)
  <2>1. Alone(a) /\ UNCHANGED <<kv, work, counted, raced>> /\ pc'[a] = "start" /\ request'[a] = NoRequest
    BY <1>7, SetupDoes DEF SameData, CallInv
  <2> QED BY <1>4, <2>1 DEF Busy
<1>8. CASE LaunchFails(a) \/ Crash(a)
  <2>1. Alone(a) /\ UNCHANGED <<kv, counted, raced>> /\ pc'[a] = "off" /\ work' = IF Writing(a) THEN kv ELSE work
    BY <1>8, CloseDoes
  <2>2. \A b \in Others(a) : Busy(b, {"written"}) => work'[ln] = work[ln]
    <3>1. CASE Writing(a)
      BY <3>1, OnlyTheWriter DEF Others
    <3>2. CASE ~Writing(a)
      BY <2>1, <3>2
    <3> QED BY <3>1, <3>2
  <2> QED BY <1>4, <2>1, <2>2
<1>9. CASE Call(a)
  <2>1. Alone(a) /\ UNCHANGED <<kv, work, counted, raced>> /\ pc'[a] = pc[a] /\ launch'[a] = launch[a]
        /\ request[a] = NoRequest /\ ~Busy(a, {"written", "reading", "done"})' /\ ~Busy(a, {"reading", "done"})'
        /\ ~Busy(a, {"written"})' /\ ~Busy(a, {"done"}) /\ Cur' = Cur
    BY <1>9, CallDoes DEF SameData, Busy, Cur
  <2> QED BY <1>2, <1>4, <2>1
<1>10. CASE Return(a)
  <2>1. Alone(a) /\ UNCHANGED <<kv, work, counted, raced>> /\ request'[a] = NoRequest /\ Cur' = Cur
    BY <1>10, ReturnDoes DEF SameData, Cur
  <2>2. CASE pc[a] = "start"
    <3>1. pc'[a] = "counting" /\ launch'[a] = Next1(request[a].value) /\ Busy(a, {"reading", "done"})
      BY <1>10, <2>2, ReturnDoes DEF Busy
    <3> QED BY <1>2, <1>4, <2>1, <2>2, <3>1 DEF Busy
  <2>3. CASE pc[a] # "start"
    <3>1. pc'[a] = "up"
      BY <1>10, <2>3, ReturnDoes
    <3> QED BY <1>4, <2>1, <3>1
  <2> QED BY <2>2, <2>3
<1>11. ASSUME pc[a] = "start", At(a, "get", "asked") PROVE Seen(a) = kv[ln]
  <2>1. ~Writing(a) /\ request[a].key = ln
    BY <1>11 DEF At, LockInv, CallInv, Busy, Writing
  <2> QED BY <2>1 DEF Seen
<1>12. CASE Select(a)
  <2>1. UNCHANGED <<kv, work, counted, raced>> /\ Cur' = Cur
    BY <1>12, SelectDoes DEF SameData, Cur
  <2>2. CASE Seen(a) = <<>>
    <3>1. Moves(a, "get", "asked", "done", lock[a]) /\ SameValue(a)
      BY <1>12, <2>2, SelectDoes
    <3>2. pc[a] = "start" => Cur = 0 /\ request'[a].value = Null
      BY <1>11, <2>2, <3>1 DEF Moves, At, Cur, SameValue, CallInv
    <3>3. pc[a] # "counting" /\ Alone(a) /\ pc'[a] = pc[a]
      BY <3>1 DEF Moves, CallInv
    <3>4. Wrote(a)' /\ Read(a)'
      BY <2>1, <3>2, <3>3 DEF Next1
    <3> QED BY <1>4, <2>1, <3>3, <3>4
  <2>3. CASE Seen(a) # <<>>
    <3>1. Moves(a, "get", "asked", "reading", IF Writing(a) THEN lock[a] ELSE "shared")
          /\ request'[a].value = Head(Seen(a))
      BY <1>12, <2>3, SelectDoes
    <3>2. pc[a] = "start" => Cur = kv[ln][1] + 1 /\ request'[a].value = kv[ln][1] /\ kv[ln][1] \in Nat
      <4> SUFFICES ASSUME pc[a] = "start"
                   PROVE  Cur = kv[ln][1] + 1 /\ request'[a].value = kv[ln][1] /\ kv[ln][1] \in Nat
        OBVIOUS
      <4>1. Seen(a) = kv[ln] /\ kv[ln] # <<>>
        BY <1>11, <2>3, <3>1 DEF Moves, At
      <4>2. Head(kv[ln]) = kv[ln][1] /\ Head(kv[ln]) \in Nat
        BY <4>1, OneOrNone
      <4> QED BY <3>1, <4>1, <4>2 DEF Cur
    <3>3. pc[a] # "counting" /\ Alone(a) /\ pc'[a] = pc[a]
      BY <3>1 DEF Moves, CallInv
    <3>4. \A n \in Nat : n # Null
      BY KvStoreAssumption DEF Values
    <3>5. Wrote(a)' /\ Read(a)'
      BY <2>1, <3>2, <3>3, <3>4 DEF Next1
    <3> QED BY <1>4, <2>1, <3>3, <3>5
  <2> QED BY <2>2, <2>3
<1>13. CASE SelectFails(a) \/ UpdateFails(a)
  <2>1. PICK op \in {"get", "set"} : Moves(a, op, "asked", "refused", lock[a])
    BY <1>13, FailsDoes
  <2>2. SameData /\ SameValue(a)
    BY <1>13, FailsDoes
  <2> QED BY <1>5, <2>1, <2>2
<1>14. CASE CursorDestroyed(a)
  <2>1. UNCHANGED <<kv, work, counted, raced>> /\ Cur' = Cur /\ SameValue(a)
        /\ Moves(a, "get", "reading", "done", IF Writing(a) THEN lock[a] ELSE "none")
    BY <1>14, CursorDoes DEF SameData, Cur
  <2>2. pc[a] # "counting" /\ Alone(a) /\ pc'[a] = pc[a] /\ Busy(a, {"reading", "done"})
        /\ request'[a].value = request[a].value
    BY <2>1 DEF Moves, CallInv, Busy, SameValue
  <2>3. Wrote(a)' /\ (~raced => Read(a)')
    BY <1>2, <2>1, <2>2
  <2> QED BY <1>4, <2>1, <2>2, <2>3
<1>15. CASE CommitFails(a)
  BY <1>5, <1>15, CommitFailsDoes
<1>16. CASE Update(a)
  <2> DEFINE k == request[a].key
  <2>1. /\ Moves(a, "set", "asked", IF work[k] = <<>> THEN "missing" ELSE "written", "reserved")
        /\ UNCHANGED <<kv, counted, raced>> /\ CanWrite(a) /\ ~Writing(a) /\ k \in Keys /\ work[k] \in Seq(Values)
        /\ request[a].value \in Values /\ work'[k] = Filled(work[k], request[a].value)
    BY <1>16, UpdateDoes
  <2>2. \A b \in Others(a) : ~Busy(b, {"written"})
    BY <2>1, OnlyTheWriter DEF Others
  <2>3. /\ Alone(a) /\ pc'[a] = pc[a] /\ launch'[a] = launch[a] /\ request[a] # NoRequest /\ pc[a] # "start"
        /\ ~Busy(a, {"done"})' /\ ~Busy(a, {"done"}) /\ Cur' = Cur
        /\ Busy(a, {"written"})' => work[k] # <<>>
    BY <2>1 DEF Moves, Busy, CallInv, Cur
  <2>4. ASSUME pc[a] = "counting", Busy(a, {"written"})' PROVE Len(work'[ln]) = 1 /\ work'[ln][1] = launch[a]
    <3>1. k = ln /\ request[a].value = launch[a] /\ work[k] # <<>>
      BY <2>3, <2>4 DEF CallInv
    <3>2. Len(work'[k]) = Len(work[k]) /\ Len(work[k]) \in Nat /\ Len(work[k]) # 0 /\ work'[k][1] = request[a].value
      BY <2>1, <3>1, FilledRows
    <3>3. Len(work[k]) <= 1
      BY <2>1 DEF RowInv
    <3>4. Len(work'[k]) = 1
      <4>1. \A n \in Nat : n # 0 /\ n <= 1 => n = 1
        OBVIOUS
      <4>2. Len(work[k]) = 1
        BY <3>2, <3>3, <4>1
      <4> QED BY <3>2, <4>2
    <3>5. k = ln /\ work'[k][1] = launch[a]
      BY <3>1, <3>2
    <3> HIDE DEF k
    <3> QED BY <3>4, <3>5
  <2>5. Wrote(a)' /\ (~raced => Read(a)')
    BY <1>2, <2>3, <2>4
  <2> QED BY <1>4, <2>1, <2>2, <2>3, <2>5
<1>17. CASE Insert(a)
  <2> DEFINE k == request[a].key
  <2>1. /\ Moves(a, "set", "missing", "written", lock[a])
        /\ UNCHANGED <<kv, counted, raced>> /\ k \in Keys /\ work[k] \in Seq(Values)
        /\ request[a].value \in Values /\ work'[k] = Append(work[k], request[a].value)
    BY <1>17, InsertDoes
  <2>2. /\ Alone(a) /\ pc'[a] = pc[a] /\ launch'[a] = launch[a] /\ request[a] # NoRequest /\ pc[a] # "start"
        /\ ~Busy(a, {"done"})' /\ ~Busy(a, {"done"}) /\ Cur' = Cur /\ Busy(a, {"missing"})
    BY <2>1 DEF Moves, Busy, CallInv, Cur
  <2>3. Len(work[k]) = 0 /\ Writing(a)
    BY <2>2 DEF RowInv, LockInv, Writing, Busy
  <2>4. \A b \in Others(a) : ~Busy(b, {"written"})
    BY <2>3, OnlyTheWriter DEF Others
  <2>5. Len(work'[k]) = 1 /\ work'[k][1] = request[a].value
    BY <2>1, <2>3, OneOrNone
  <2>6. pc[a] = "counting" => k = ln /\ request[a].value = launch[a]
    BY <2>2 DEF CallInv
  <2>7. Wrote(a)' /\ (~raced => Read(a)')
    BY <1>2, <2>2, <2>5, <2>6
  <2> QED BY <1>4, <2>1, <2>2, <2>4, <2>7
<1>18. CASE Commit(a)
  <2>1. /\ Moves(a, "set", "written", "done", "none") /\ SameValue(a)
        /\ CanCommit(a) /\ kv' = work /\ work' = work
        /\ counted' = (IF Counts(a) THEN counted + 1 ELSE counted)
        /\ raced' = (raced \/ (Counts(a) /\ \E b \in Others(a) : Counting(b)))
    BY <1>18, CommitDoes
  <2>2. /\ Alone(a) /\ pc'[a] = pc[a] /\ launch'[a] = launch[a] /\ request[a] # NoRequest
        /\ Busy(a, {"done"})' /\ Busy(a, {"written"}) /\ ~Busy(a, {"written"})' /\ ~Busy(a, {"done"})
        /\ request[a].op = "set" /\ pc[a] \in {"counting", "up"}
    BY <1>1, <2>1 DEF Moves, Busy, CallInv
  <2>3. \A b \in Apps : b # a => Wrote(b)'
    <3>1. \A b \in Apps : b # a => ~Busy(b, {"written"})
      BY <2>1, OnlyTheWriter
    <3> QED BY <2>2, <3>1 DEF Alone, Busy
  <2>4. Wrote(a)' /\ (pc[a] # "start" => Read(a)')
    BY <2>2
  <2>5. CASE Counts(a)
    <3> SUFFICES ASSUME ~raced' PROVE counted' = Cur' /\ \A b \in Apps : Read(b)'
      BY <1>3, <2>3, <2>4
    <3>1. pc[a] = "counting"
      BY <2>2, <2>5 DEF CallInv, Counts
    <3>2. ~raced /\ \A b \in Others(a) : ~Counting(b)
      BY <2>1, <2>5
    <3>3. launch[a] = Cur /\ counted = Cur /\ Len(work[ln]) = 1 /\ work[ln][1] = launch[a]
      BY <1>2, <2>2, <3>1, <3>2
    <3>4. work[ln] # <<>>
      BY <3>3, OneOrNone
    <3>5. Cur' = launch[a] + 1
      BY <2>1, <3>3, <3>4 DEF Cur
    <3>6. \A b \in Apps : b # a => Read(b)'
      BY <2>2, <3>2 DEF Alone, Others, Counting, Busy
    <3> QED BY <2>1, <2>2, <2>4, <2>5, <3>3, <3>5, <3>6
  <2>6. CASE ~Counts(a)
    <3>1. pc[a] = "up" /\ Writing(a)
      BY <2>2, <2>6 DEF CallInv, Counts, LockInv, Writing, ln, Busy
    <3>2. Cur' = Cur
      BY <2>1, <3>1 DEF WriterInv, Cur
    <3>3. \A b \in Apps : b # a => (Read(b) => Read(b)')
      BY <2>2, <3>2 DEF Alone, Busy
    <3> QED BY <1>2, <1>3, <2>1, <2>2, <2>3, <2>4, <2>6, <3>2, <3>3
  <2> QED BY <2>5, <2>6
<1> QED BY <1>6, <1>7, <1>8, <1>9, <1>10, <1>12, <1>13, <1>14, <1>15, <1>16, <1>17, <1>18 DEF Step
------------------------------------------------------------------------------

LEMMA IInvInit == Init => IInv
<1> SUFFICES ASSUME Init PROVE IInv
  OBVIOUS
<1>1. \A k \in Keys : kv[k] = <<>> /\ work[k] = <<>>
  BY DEF Init
<1>2. ln \in Keys /\ \A S : <<>> \in Seq(S)
  BY DEF Keys, ln
<1>3. \A a \in Apps : lock[a] = "none" /\ pc[a] = "off" /\ request[a] = NoRequest
  BY DEF Init
<1>4. KvType
  <2>1. kv \in [Keys -> Seq(Values)] /\ work \in [Keys -> Seq(Values)]
    BY <1>1, <1>2 DEF Init
  <2>2. kv[ln] \in Seq(Nat) /\ work[ln] \in Seq(Nat)
    BY <1>1, <1>2
  <2>3. launches \in 0 .. MaxLaunches /\ counted \in Nat
    BY KvStoreAssumption DEF Init
  <2> QED BY <2>1, <2>2, <2>3 DEF Init, KvType, TypeOK
<1>5. WriterInv /\ CallInv /\ LockInv
  BY <1>3 DEF Init, WriterInv, CallInv, LockInv, Writing, Busy
<1>6. RowInv
  BY <1>1, <1>3 DEF RowInv, Busy
<1>7. CountInv
  BY <1>1, <1>2, <1>3 DEF Init, CountInv, Cur, Busy
<1>8. SetInv
  BY <1>3 DEF SetInv, Busy
<1> QED BY <1>4, <1>5, <1>6, <1>7, <1>8 DEF IInv

LEMMA IInvNext == IInv /\ [Next]_vars => IInv'
<1> SUFFICES ASSUME IInv, [Next]_vars PROVE IInv'
  OBVIOUS
<1>1. ASSUME UNCHANGED vars PROVE IInv'
  <2>1. KvType'
    BY <1>1 DEF IInv, KvType, TypeOK, vars
  <2>2. CallInv' /\ LockInv'
    BY <1>1 DEF IInv, CallInv, LockInv, Busy, vars
  <2>3. WriterInv' /\ RowInv'
    BY <1>1 DEF IInv, WriterInv, RowInv, Writing, Busy, vars
  <2>4. CountInv'
    BY <1>1 DEF IInv, CountInv, Cur, Busy, vars
  <2>5. SetInv'
    BY <1>1 DEF IInv, SetInv, Busy, vars
  <2> QED BY <2>1, <2>2, <2>3, <2>4, <2>5 DEF IInv
<1>2. ASSUME NEW a \in Apps, Step(a) PROVE IInv'
  <2>1. KvType'
    BY <1>2, KvTypeNext DEF IInv, Step
  <2> QED BY <1>2, <2>1, CallInvNext, LockInvNext, WriterInvNext, RowInvNext, CountInvNext, SetInvNext DEF IInv
<1>3. (\E a \in Apps : Step(a)) \/ UNCHANGED vars
  BY DEF Next, Step, Terminated
<1> QED BY <1>1, <1>2, <1>3

LEMMA IInvHolds == Spec => []IInv
BY IInvInit, IInvNext, PTL DEF Spec

\* The variables have their types: a launch number is a number.
THEOREM TypeCorrect == Spec => []TypeOK
<1>1. IInv => TypeOK
  BY DEF IInv, KvType
<1> QED BY <1>1, IInvHolds, PTL

\* No key gets a second row, whatever the instances do at the same time.
THEOREM KeysAreUnique == Spec => []OneRowPerKey
<1>1. IInv => OneRowPerKey
  BY DEF IInv, RowInv, OneRowPerKey
<1> QED BY <1>1, IInvHolds, PTL

\* An idle instance is in nobody's way unless its COMMIT was refused.
THEOREM IdleIsHarmless == Spec => []IdleHoldsNoLock
<1>1. IInv => IdleHoldsNoLock
  BY DEF IInv, KvType, TypeOK, LockInv, Busy, IdleHoldsNoLock
<1> QED BY <1>1, IInvHolds, PTL

\* Every launch is counted unless two were being counted at the same time.
THEOREM CountIsRight == Spec => []LaunchesCounted
<1>1. IInv => LaunchesCounted
  BY DEF IInv, CountInv, Cur, LaunchesCounted, ln
<1> QED BY <1>1, IInvHolds, PTL
------------------------------------------------------------------------------
\* The store implements a map.

LEMMA MappedFacts ==
  ASSUME NEW r \in Request
  PROVE  /\ r # NoRequest /\ Mapped(r) \in Request /\ Mapped(r) # NoRequest
         /\ Mapped(r).op = r.op /\ Mapped(r).key = r.key /\ Mapped(r).value = r.value
         /\ Mapped(r).state = IF r.state = "reading" THEN "done"
                              ELSE IF r.state \in {"missing", "written"} THEN "asked" ELSE r.state
<1>1. r # NoRequest
  BY KvStoreAssumption
<1>2. Mapped(r) \in Request
  BY <1>1 DEF Mapped, Request
<1>3. /\ Mapped(r).op = r.op /\ Mapped(r).key = r.key /\ Mapped(r).value = r.value
      /\ Mapped(r).state = IF r.state = "reading" THEN "done"
                           ELSE IF r.state \in {"missing", "written"} THEN "asked" ELSE r.state
  BY <1>1 DEF Mapped, Request
<1> QED BY <1>1, <1>2, <1>3, KvStoreAssumption

LEMMA SameRequest ==
  ASSUME NEW q \in Request, NEW r \in Request,
         q.op = r.op, q.key = r.key, q.value = r.value, q.state = r.state
  PROVE  q = r
BY DEF Request

\* The clients seen from the map, when a moves.
LEMMA SeenCall ==
  ASSUME TypeOK, NEW a \in Apps, Alone(a)
  PROVE  /\ requestSeen' = [requestSeen EXCEPT ![a] = Mapped(request'[a])]
         /\ requestSeen[a] = Mapped(request[a])
BY DEF requestSeen, Alone

\* The state of a call, seen from the map.
StateSeen(s) ==
  IF s = "reading" THEN "done" ELSE IF s \in {"missing", "written"} THEN "asked" ELSE s

LEMMA StatesSeen ==
  /\ StateSeen("asked") = "asked" /\ StateSeen("missing") = "asked" /\ StateSeen("written") = "asked"
  /\ StateSeen("reading") = "done" /\ StateSeen("done") = "done" /\ StateSeen("refused") = "refused"
BY DEF StateSeen

\* A call that gets on, seen from the map: nothing happens, or the state of the call changes.
LEMMA SeenMove ==
  ASSUME TypeOK, TypeOK', NEW a \in Apps, Alone(a), request[a] # NoRequest, request'[a] # NoRequest,
         request'[a].op = request[a].op, request'[a].key = request[a].key
  PROVE  /\ requestSeen[a] # NoRequest /\ requestSeen[a].op = request[a].op /\ requestSeen[a].state = StateSeen(request[a].state)
         /\ requestSeen[a].key = request[a].key /\ requestSeen[a].value = request[a].value
         /\ SameValue(a) => requestSeen' = [requestSeen EXCEPT ![a].state = StateSeen(request'[a].state)]
         /\ requestSeen' = [requestSeen EXCEPT ![a].state = StateSeen(request'[a].state), ![a].value = request'[a].value]
         /\ SameValue(a) /\ StateSeen(request[a].state) = StateSeen(request'[a].state) => requestSeen' = requestSeen
<1> DEFINE r == request[a]
           q == request'[a]
           op == r.op
           s == r.state
           t == q.state
<1>1. r \in Request /\ q \in Request /\ r.op = op /\ r.state = s /\ q.state = t /\ q.op = r.op /\ q.key = r.key
  BY DEF TypeOK
<1>2. /\ requestSeen' = [requestSeen EXCEPT ![a] = Mapped(q)] /\ requestSeen[a] = Mapped(r)
      /\ DOMAIN requestSeen = Apps /\ requestSeen = [b \in Apps |-> requestSeen[b]]
  BY SeenCall DEF requestSeen
<1> HIDE DEF r, q
<1>3. /\ Mapped(r) \in Request /\ Mapped(r) # NoRequest /\ Mapped(r).op = op /\ Mapped(r).state = StateSeen(s)
      /\ Mapped(r).key = r.key /\ Mapped(r).value = r.value
  BY <1>1, MappedFacts DEF StateSeen
<1>4. /\ Mapped(q) \in Request /\ Mapped(q).op = op /\ Mapped(q).state = StateSeen(t)
      /\ Mapped(q).key = r.key /\ Mapped(q).value = q.value
  BY <1>1, MappedFacts DEF StateSeen
<1>5. Mapped(q) = [Mapped(r) EXCEPT !.state = StateSeen(t), !.value = q.value]
  <2> DEFINE m == Mapped(r)
             n == Mapped(q)
  <2>1. m \in Request /\ n \in Request /\ n.op = m.op /\ n.key = m.key /\ n.state = StateSeen(t) /\ n.value = q.value
    BY <1>3, <1>4
  <2> HIDE DEF m, n
  <2>2. n = [m EXCEPT !.state = StateSeen(t), !.value = q.value]
    BY <2>1 DEF Request
  <2> QED BY <2>2 DEF m, n
<1>6. q.value = r.value => Mapped(q) = [Mapped(r) EXCEPT !.state = StateSeen(t)]
  <2> DEFINE m == Mapped(r)
             n == Mapped(q)
  <2>1. m \in Request /\ n \in Request /\ n.op = m.op /\ n.key = m.key /\ n.state = StateSeen(t)
        /\ n.value = q.value /\ m.value = r.value
    BY <1>3, <1>4
  <2> HIDE DEF m, n
  <2>2. q.value = r.value => n = [m EXCEPT !.state = StateSeen(t)]
    BY <2>1 DEF Request
  <2> QED BY <2>2 DEF m, n
<1>7. q.value = r.value /\ StateSeen(s) = StateSeen(t) => Mapped(q) = Mapped(r)
  BY <1>3, <1>4, SameRequest
<1>8. requestSeen' = [requestSeen EXCEPT ![a].state = StateSeen(t), ![a].value = q.value]
  BY <1>2, <1>5
<1>9. q.value = r.value => requestSeen' = [requestSeen EXCEPT ![a].state = StateSeen(t)]
  BY <1>2, <1>6
<1>10. q.value = r.value /\ StateSeen(s) = StateSeen(t) => requestSeen' = requestSeen
  BY <1>2, <1>7
<1> QED BY <1>2, <1>3, <1>8, <1>9, <1>10 DEF SameValue, r, q

\* Who is in limbo, when a moves.
LEMMA SeenLimbo ==
  ASSUME NEW a \in Apps, Alone(a),
         work' = work \/ (\A b \in Others(a) : ~Writing(b)),
         lock'[a] = "pending" <=> lock[a] = "pending", lock[a] = "pending" => work' = work
  PROVE  limboSeen' = limboSeen
<1>1. \A b \in Apps : (lock'[b] = "pending" <=> lock[b] = "pending") /\ (lock[b] = "pending" => work' = work)
  BY DEF Alone, Writing, Others
<1>2. work' = work => MapOf(work)' = MapOf(work)
  BY DEF MapOf
<1> QED BY <1>1, <1>2 DEF limboSeen

LEMMA NoLimbo ==
  ASSUME \A b \in Apps : lock[b] # "pending" PROVE \A b \in Apps : limboSeen[b] = Null
BY DEF limboSeen

LEMMA SameMap == ASSUME kv' = kv PROVE mapSeen' = mapSeen
BY DEF mapSeen, MapOf
LEMMA MapInit == Init => Map!Init
<1> SUFFICES ASSUME Init PROVE Map!Init
  OBVIOUS
<1>1. mapSeen = [k \in Keys |-> Null]
  BY DEF Init, mapSeen, MapOf
<1>2. requestSeen = [a \in Apps |-> NoRequest]
  BY DEF Init, requestSeen, Mapped
<1>3. limboSeen = [a \in Apps |-> Null]
  BY DEF Init, limboSeen
<1> QED BY <1>1, <1>2, <1>3 DEF Map!Init

\* Every step of an instance is one of its client's, or is not seen.
LEMMA MapStep ==
  ASSUME IInv, IInv', NEW a \in Apps, Step(a)
  PROVE  Map!Next \/ UNCHANGED Map!vars
<1>1. TypeOK /\ TypeOK' /\ KvType /\ CallInv /\ LockInv /\ WriterInv /\ RowInv /\ SetInv
  BY DEF IInv, KvType
<1>2. lock[a] \in {"none", "shared", "reserved", "pending"}
      /\ pc[a] \in {"off", "setup", "start", "counting", "up"}
  BY <1>1 DEF TypeOK
<1>3. UNCHANGED <<mapSeen, requestSeen, limboSeen>> => UNCHANGED Map!vars
  BY DEF Map!vars
<1>4. Map!Call(a) \/ Map!Answer(a) \/ Map!Apply(a) \/ Map!Refuse(a) \/ Map!Return(a) \/ Map!Quit(a) => Map!Next
  BY DEF Map!Next
<1>5. CASE Launch(a) \/ SetupCommits(a)
  <2>1. Alone(a) /\ work' = work /\ kv' = kv /\ request'[a] = request[a]
        /\ lock[a] # "pending" /\ lock'[a] # "pending"
    BY <1>1, <1>5, LaunchDoes, SetupDoes DEF SameData, LockInv
  <2>2. requestSeen' = requestSeen
    BY <2>1 DEF Alone, requestSeen
  <2> QED BY <1>3, <2>1, <2>2, SeenLimbo, SameMap
<1>6. CASE LaunchFails(a) \/ Crash(a)
  <2>1. Alone(a) /\ request'[a] = NoRequest /\ kv' = kv /\ lock'[a] = "none"
        /\ work' = IF Writing(a) THEN kv ELSE work
    BY <1>1, <1>6, CloseDoes
  <2>2. requestSeen' = [requestSeen EXCEPT ![a] = NoRequest]
    BY <1>1, <2>1, SeenCall DEF Mapped
  <2>3. \A b \in Apps : b # a => lock'[b] = lock[b] /\ (lock[b] = "pending" => work' = work)
    BY <1>1, <2>1 DEF Alone, Writing, WriterInv
  <2>4. work' = work => MapOf(work)' = MapOf(work)
    BY DEF MapOf
  <2>5. limboSeen' = [limboSeen EXCEPT ![a] = Null]
    BY <2>1, <2>3, <2>4 DEF limboSeen
  <2> QED BY <1>4, <2>1, <2>2, <2>5, SameMap DEF Map!Quit
<1>7. CASE Call(a)
  <2> DEFINE q == request'[a]
  <2>1. /\ Alone(a) /\ work' = work /\ kv' = kv /\ lock'[a] = lock[a]
        /\ request[a] = NoRequest /\ q # NoRequest /\ q.state = "asked"
        /\ q.op = "get" => q.value = Null
        /\ q.op = "set" => q.value \in Values
    BY <1>1, <1>7, CallDoes DEF SameData
  <2>2. q \in Request
    BY <1>1, <2>1 DEF TypeOK
  <2> HIDE DEF q
  <2>3. Mapped(q) = q
    BY <2>1 DEF Mapped
  <2>4. q \in Map!Questions
    BY <2>1, <2>2 DEF Request, Map!Questions
  <2>5. requestSeen[a] = NoRequest /\ requestSeen' = [requestSeen EXCEPT ![a] = q]
    BY <1>1, <2>1, <2>3, SeenCall DEF Mapped, q
  <2>6. requestSeen'[a] = q
    BY <2>5 DEF requestSeen
  <2>7. Map!Call(a)
    BY <2>1, <2>4, <2>5, <2>6, SeenLimbo, SameMap DEF Map!Call
  <2> QED BY <1>4, <2>7
<1>8. CASE Return(a)
  <2>1. /\ Alone(a) /\ work' = work /\ kv' = kv /\ lock'[a] = lock[a]
        /\ request[a] # NoRequest /\ request'[a] = NoRequest /\ request[a].state \in {"done", "refused"}
    BY <1>1, <1>8, ReturnDoes DEF SameData
  <2>2. Mapped(request[a]) = request[a]
    BY <2>1 DEF Mapped
  <2>3. requestSeen[a] = request[a] /\ requestSeen' = [requestSeen EXCEPT ![a] = NoRequest]
    BY <1>1, <2>1, <2>2, SeenCall DEF Mapped
  <2>4. Map!Return(a)
    BY <2>1, <2>3, SeenLimbo, SameMap DEF Map!Return
  <2> QED BY <1>4, <2>4
<1>9. CASE Select(a)
  <2> DEFINE k == request[a].key
             One(rows) == IF rows = <<>> THEN Null ELSE Head(rows)
  <2>1. /\ SameData
        /\ \/ /\ Moves(a, "get", "asked", "done", lock[a]) /\ SameValue(a) /\ Seen(a) = <<>>
           \/ /\ Moves(a, "get", "asked", "reading", IF Writing(a) THEN lock[a] ELSE "shared")
              /\ Seen(a) # <<>> /\ request'[a].value = Head(Seen(a))
    BY <1>1, <1>9, SelectDoes
  <2>2. Alone(a) /\ work' = work /\ kv' = kv /\ (lock'[a] = "pending" <=> lock[a] = "pending")
    BY <1>2, <2>1 DEF SameData, Moves, Writing
  <2>3. request[a] # NoRequest /\ request[a].op = "get" /\ request[a].state = "asked" /\ k \in Keys
    <3>1. request[a] # NoRequest /\ request[a].op = "get" /\ request[a].state = "asked"
      BY <2>1 DEF Moves
    <3> QED BY <1>1, <3>1 DEF TypeOK, Request
  <2>4. Writing(a) <=> lock[a] = "pending"
    BY <1>1, <2>3 DEF Writing, LockInv, CallInv, Busy
  <2>5. Map!Sees(a)[k] = One(Seen(a))
    <3>1. CASE lock[a] = "pending"
      <4>1. limboSeen[a] = MapOf(work) /\ MapOf(work) \in [Keys -> Values \cup {Null}]
        <5>1. \A j \in Keys : work[j] # <<>> => Head(work[j]) \in Values
          BY <1>1 DEF TypeOK
        <5> QED BY <3>1, <5>1 DEF limboSeen, MapOf
      <4>2. Map!Sees(a) = MapOf(work) /\ Seen(a) = work[k]
        BY <2>4, <3>1, <4>1, KvStoreAssumption DEF Map!Sees, Seen
      <4> QED BY <2>3, <4>2 DEF MapOf
    <3>2. CASE lock[a] # "pending"
      <4>1. Map!Sees(a) = MapOf(kv) /\ Seen(a) = kv[k]
        BY <2>4, <3>2 DEF Map!Sees, Seen, limboSeen, mapSeen
      <4> QED BY <2>3, <4>1 DEF MapOf
    <3> QED BY <3>1, <3>2
  <2>6. request'[a].value = One(Seen(a))
    BY <1>1, <2>1, <2>3 DEF SameValue, CallInv
  <2>7. /\ requestSeen[a] # NoRequest /\ requestSeen[a].op = "get" /\ requestSeen[a].state = "asked"
        /\ requestSeen[a].key = k
        /\ requestSeen' = [requestSeen EXCEPT ![a].state = "done", ![a].value = request'[a].value]
    BY <1>1, <2>1, SeenMove, StatesSeen DEF Moves, SameValue
  <2>8. Map!Answer(a)
    <3>1. limboSeen' = limboSeen /\ mapSeen' = mapSeen
      BY <2>2, SeenLimbo, SameMap
    <3>2. request'[a].value = Map!Sees(a)[requestSeen[a].key]
      BY <2>5, <2>6, <2>7
    <3> QED BY <2>7, <3>1, <3>2 DEF Map!Answer, Map!Asked
  <2> QED BY <1>4, <2>8
<1>10. CASE SelectFails(a) \/ UpdateFails(a)
  <2>1. PICK op \in {"get", "set"} : SameData /\ SameValue(a) /\ Moves(a, op, "asked", "refused", lock[a])
    BY <1>1, <1>10, FailsDoes
  <2>2. /\ requestSeen[a] # NoRequest /\ requestSeen[a].op = op /\ requestSeen[a].state = "asked"
        /\ requestSeen' = [requestSeen EXCEPT ![a].state = "refused"]
    <3>1. Alone(a) /\ request[a] # NoRequest /\ request'[a] # NoRequest
          /\ request'[a].op = request[a].op /\ request'[a].key = request[a].key
          /\ request[a].state = "asked" /\ request'[a].state = "refused" /\ request[a].op = op
      BY <2>1 DEF Moves
    <3>2. /\ requestSeen[a] # NoRequest /\ requestSeen[a].op = request[a].op
          /\ requestSeen[a].state = StateSeen(request[a].state)
          /\ requestSeen[a].key = request[a].key /\ requestSeen[a].value = request[a].value
      BY <1>1, <3>1, SeenMove
    <3>3. SameValue(a) => requestSeen' = [requestSeen EXCEPT ![a].state = StateSeen(request'[a].state)]
      BY <1>1, <3>1, SeenMove
    <3>4. StateSeen(request[a].state) = "asked" /\ StateSeen(request'[a].state) = "refused"
      BY <3>1, StatesSeen
    <3> QED BY <2>1, <3>1, <3>2, <3>3, <3>4
  <2>3. limboSeen' = limboSeen /\ mapSeen' = mapSeen
    BY <2>1, SeenLimbo, SameMap DEF SameData, Moves
  <2>4. Map!Refuse(a)
    BY <2>2, <2>3 DEF Map!Refuse, Map!Asked, Map!Become
  <2> QED BY <1>4, <2>4
<1>11. CASE CursorDestroyed(a)
  <2>1. SameData /\ SameValue(a) /\ Moves(a, "get", "reading", "done", IF Writing(a) THEN lock[a] ELSE "none")
    BY <1>1, <1>11, CursorDoes
  <2>2. requestSeen' = requestSeen
    <3>1. Alone(a) /\ request[a] # NoRequest /\ request'[a] # NoRequest
          /\ request'[a].op = request[a].op /\ request'[a].key = request[a].key
          /\ request[a].state = "reading" /\ request'[a].state = "done"
      BY <2>1 DEF Moves
    <3>2. StateSeen(request[a].state) = StateSeen(request'[a].state)
      BY <3>1, StatesSeen
    <3>3. SameValue(a) /\ StateSeen(request[a].state) = StateSeen(request'[a].state) => requestSeen' = requestSeen
      BY <1>1, <3>1, SeenMove
    <3> QED BY <2>1, <3>2, <3>3
  <2>3. Alone(a) /\ work' = work /\ kv' = kv /\ (lock'[a] = "pending" <=> lock[a] = "pending")
    BY <1>2, <2>1 DEF SameData, Moves, Writing
  <2> QED BY <1>3, <2>2, <2>3, SeenLimbo, SameMap
<1>12. CASE Update(a)
  <2>1. PICK t \in {"missing", "written"} : Moves(a, "set", "asked", t, "reserved") /\ SameValue(a)
    BY <1>1, <1>12, UpdateDoes
  <2>2. kv' = kv /\ CanWrite(a) /\ ~Writing(a)
    BY <1>1, <1>12, UpdateDoes
  <2>3. requestSeen' = requestSeen
    <3>1. Alone(a) /\ request[a] # NoRequest /\ request'[a] # NoRequest
          /\ request'[a].op = request[a].op /\ request'[a].key = request[a].key
          /\ request[a].state = "asked" /\ request'[a].state \in {"missing", "written"}
      BY <2>1 DEF Moves
    <3>2. StateSeen(request[a].state) = StateSeen(request'[a].state)
      BY <3>1, StatesSeen
    <3>3. SameValue(a) /\ StateSeen(request[a].state) = StateSeen(request'[a].state) => requestSeen' = requestSeen
      BY <1>1, <3>1, SeenMove
    <3> QED BY <2>1, <3>2, <3>3
  <2>4. Alone(a) /\ lock'[a] = "reserved" /\ lock[a] # "pending" /\ \A b \in Others(a) : ~Writing(b)
    BY <2>1, <2>2 DEF Moves, Writing, CanWrite
  <2> QED BY <1>3, <2>2, <2>3, <2>4, SeenLimbo, SameMap
<1>13. CASE Insert(a)
  <2>1. Moves(a, "set", "missing", "written", lock[a]) /\ SameValue(a) /\ kv' = kv
    BY <1>1, <1>13, InsertDoes
  <2>2. requestSeen' = requestSeen
    <3>1. Alone(a) /\ request[a] # NoRequest /\ request'[a] # NoRequest
          /\ request'[a].op = request[a].op /\ request'[a].key = request[a].key
          /\ request[a].state = "missing" /\ request'[a].state = "written"
      BY <2>1 DEF Moves
    <3>2. StateSeen(request[a].state) = StateSeen(request'[a].state)
      BY <3>1, StatesSeen
    <3>3. SameValue(a) /\ StateSeen(request[a].state) = StateSeen(request'[a].state) => requestSeen' = requestSeen
      BY <1>1, <3>1, SeenMove
    <3> QED BY <2>1, <3>2, <3>3
  <2>3. Alone(a) /\ lock'[a] = lock[a] /\ lock[a] = "reserved"
    BY <1>1, <2>1 DEF Moves, LockInv, Busy
  <2>4. \A b \in Others(a) : ~Writing(b)
    BY <1>1, <2>3 DEF WriterInv, Writing, Others
  <2> QED BY <1>3, <2>1, <2>2, <2>3, <2>4, SeenLimbo, SameMap
<1>14. ASSUME Busy(a, {"written"}), request[a] # NoRequest
       PROVE  /\ lock[a] = "reserved" /\ \A b \in Apps : lock[b] # "pending"
              /\ MapOf(work) = [mapSeen EXCEPT ![request[a].key] = request[a].value]
  <2> DEFINE k == request[a].key
  <2>1. lock[a] = "reserved" /\ Busy(a, {"missing", "written"})
    BY <1>1, <1>14 DEF LockInv, Busy
  <2>2. \A b \in Apps : lock[b] # "pending"
    BY <1>1, <2>1 DEF WriterInv, Writing
  <2>3. /\ k \in Keys /\ work[k] \in Seq(Values) /\ Len(work[k]) = 1 /\ work[k][1] = request[a].value
        /\ \A j \in Keys : j # k => work[j] = kv[j]
    <3>1. k \in Keys
      BY <1>1, <1>14 DEF TypeOK, Request
    <3>2. work[k] \in Seq(Values)
      BY <1>1, <3>1 DEF TypeOK
    <3> QED BY <1>1, <1>14, <2>1, <3>1, <3>2 DEF SetInv
  <2>4. work[k] # <<>> /\ Head(work[k]) = request[a].value
    BY <2>3, OneOrNone
  <2> HIDE DEF k
  <2>5. MapOf(work) = [mapSeen EXCEPT ![k] = request[a].value]
    BY <2>3, <2>4 DEF mapSeen, MapOf
  <2> QED BY <2>1, <2>2, <2>5 DEF k
<1>15. CASE Commit(a)
  <2>1. Moves(a, "set", "written", "done", "none") /\ SameValue(a) /\ kv' = work /\ work' = work
    BY <1>1, <1>15, CommitDoes
  <2>2. Alone(a) /\ lock'[a] = "none" /\ Busy(a, {"written"}) /\ request[a] # NoRequest
    BY <2>1 DEF Moves, Busy
  <2>3. /\ requestSeen[a] # NoRequest /\ requestSeen[a].op = "set" /\ requestSeen[a].state = "asked"
        /\ requestSeen[a].key = request[a].key /\ requestSeen[a].value = request[a].value
        /\ requestSeen' = [requestSeen EXCEPT ![a].state = "done"]
    <3>1. Alone(a) /\ request[a] # NoRequest /\ request'[a] # NoRequest
          /\ request'[a].op = request[a].op /\ request'[a].key = request[a].key
          /\ request[a].state = "written" /\ request'[a].state = "done" /\ request[a].op = "set"
      BY <2>1 DEF Moves
    <3>2. /\ requestSeen[a] # NoRequest /\ requestSeen[a].op = request[a].op
          /\ requestSeen[a].state = StateSeen(request[a].state)
          /\ requestSeen[a].key = request[a].key /\ requestSeen[a].value = request[a].value
      BY <1>1, <3>1, SeenMove
    <3>3. SameValue(a) => requestSeen' = [requestSeen EXCEPT ![a].state = StateSeen(request'[a].state)]
      BY <1>1, <3>1, SeenMove
    <3>4. StateSeen(request[a].state) = "asked" /\ StateSeen(request'[a].state) = "done"
      BY <3>1, StatesSeen
    <3> QED BY <2>1, <3>1, <3>2, <3>3, <3>4
  <2>4. mapSeen' = MapOf(work)
    BY <2>1 DEF mapSeen, MapOf
  <2>5. limboSeen' = limboSeen /\ \A b \in Apps : limboSeen[b] = Null
    BY <1>14, <2>1, <2>2, SeenLimbo, NoLimbo
  <2>6. Map!Apply(a)
    BY <1>14, <2>2, <2>3, <2>4, <2>5 DEF Map!Apply, Map!Asked, Map!Become
  <2> QED BY <1>4, <2>6
<1>16. CASE CommitFails(a)
  <2>1. Moves(a, "set", "written", "refused", "pending") /\ SameValue(a) /\ kv' = kv /\ work' = work
    BY <1>1, <1>16, CommitFailsDoes DEF SameData
  <2>2. Alone(a) /\ lock'[a] = "pending" /\ Busy(a, {"written"}) /\ request[a] # NoRequest
    BY <2>1 DEF Moves, Busy
  <2>3. /\ requestSeen[a] # NoRequest /\ requestSeen[a].op = "set" /\ requestSeen[a].state = "asked"
        /\ requestSeen[a].key = request[a].key /\ requestSeen[a].value = request[a].value
        /\ requestSeen' = [requestSeen EXCEPT ![a].state = "refused"]
    <3>1. Alone(a) /\ request[a] # NoRequest /\ request'[a] # NoRequest
          /\ request'[a].op = request[a].op /\ request'[a].key = request[a].key
          /\ request[a].state = "written" /\ request'[a].state = "refused" /\ request[a].op = "set"
      BY <2>1 DEF Moves
    <3>2. /\ requestSeen[a] # NoRequest /\ requestSeen[a].op = request[a].op
          /\ requestSeen[a].state = StateSeen(request[a].state)
          /\ requestSeen[a].key = request[a].key /\ requestSeen[a].value = request[a].value
      BY <1>1, <3>1, SeenMove
    <3>3. SameValue(a) => requestSeen' = [requestSeen EXCEPT ![a].state = StateSeen(request'[a].state)]
      BY <1>1, <3>1, SeenMove
    <3>4. StateSeen(request[a].state) = "asked" /\ StateSeen(request'[a].state) = "refused"
      BY <3>1, StatesSeen
    <3> QED BY <2>1, <3>1, <3>2, <3>3, <3>4
  <2>4. \A b \in Apps : limboSeen[b] = Null
    BY <1>14, <2>2, NoLimbo
  <2>5. MapOf(work)' = MapOf(work) /\ mapSeen' = mapSeen
    BY <2>1, SameMap DEF MapOf
  <2>6. limboSeen' = [limboSeen EXCEPT ![a] = MapOf(work)]
    <3>1. \A b \in Apps : b # a => lock'[b] = lock[b]
      BY <2>2 DEF Alone
    <3> QED BY <2>2, <2>5, <3>1 DEF limboSeen
  <2>7. Map!Refuse(a)
    BY <1>14, <2>2, <2>3, <2>4, <2>5, <2>6 DEF Map!Refuse, Map!Asked, Map!Become
  <2> QED BY <1>4, <2>7
<1> QED BY <1>5, <1>6, <1>7, <1>8, <1>9, <1>10, <1>11, <1>12, <1>13, <1>15, <1>16 DEF Step

\* A set() that returned took effect in one step, one that threw has no lasting effect, and
\* a get() returns what is there.
THEOREM StoreIsAMap == Spec => ImplementsMap
<1>1. IInv /\ IInv' /\ [Next]_vars => [Map!Next]_(Map!vars)
  <2> SUFFICES ASSUME IInv, IInv', [Next]_vars PROVE Map!Next \/ UNCHANGED Map!vars
    OBVIOUS
  <2>1. CASE UNCHANGED vars
    <3>1. mapSeen' = mapSeen /\ requestSeen' = requestSeen /\ limboSeen' = limboSeen
      BY <2>1 DEF vars, mapSeen, requestSeen, limboSeen, MapOf
    <3> QED BY <3>1 DEF Map!vars
  <2>2. (\E a \in Apps : Step(a)) \/ UNCHANGED vars
    BY DEF Next, Step, Terminated
  <2> QED BY <2>1, <2>2, MapStep
<1> QED BY <1>1, MapInit, IInvHolds, PTL DEF Spec, ImplementsMap, Map!Spec
==============================================================================
