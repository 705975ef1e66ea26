---------------------------- MODULE AdmissionProofs ----------------------------
(***************************************************************************)
(* Proofs about Admission for every number of callers, keys, profiles and  *)
(* executions, and every limit.  The argument: whoever is past the lookup  *)
(* of its key holds the lock on the key, which no execution has by then;   *)
(* whoever is past the count of a profile's executions holds the lock on   *)
(* the profile, and what it counted can only become less until it is done. *)
(***************************************************************************)
EXTENDS Admission, FiniteSetTheorems, TLAPS

\* No execution has the key, or there is none to have.
Free(k) == k = NoKey \/ \A e \in Ids : executions[e].key # k

\* The executions of the profile that were admitted under its lock, have not
\* been retried since and are in flight.
Counts(e) == executions[e].retries = 0 /\ InFlight(e)

Counted(p) == {e \in Ids : /\ executions[e].profile = p
                           /\ executions[e].limit # Unlimited
                           /\ Counts(e)}

\* What a caller knows at each step of its request.
Transaction == {"cap", "insert"}
TickSteps == {"chunk", "resolve", "cap", "insert"}

KnowsExecution(c) == call[c].at \in {"job", "enqueue"} => call[c].execution \in Ids

KnowsProfile(c) ==
    call[c].at \in {"key", "cap", "insert"} /\ call[c].limit # Unlimited =>
        call[c].profile \in Profiles

HoldsKey(c) ==
    /\ call[c].at = "key" => call[c].key # NoKey
    /\ call[c].at \in Transaction =>
         /\ call[c].key # NoKey => keyLock[call[c].key] = c
         /\ Free(call[c].key)

HoldsCap(c) ==
    call[c].at = "insert" /\ call[c].limit # Unlimited =>
        /\ capLock[call[c].profile] = c
        /\ Cardinality(Counted(call[c].profile)) < call[c].limit

IsTick(c) ==
    call[c].tick =>
        /\ c \in Schedulers
        /\ call[c].key = NoKey
        /\ call[c].at \in TickSteps
        /\ call[c].at # "chunk" => call[c].budget > 0

CallerInv(c) ==
    KnowsExecution(c) /\ KnowsProfile(c) /\ HoldsKey(c) /\ HoldsCap(c) /\ IsTick(c)

\* No key is two executions'.
KeyInv == \A d, e \in Ids :
    executions[d].key = executions[e].key => d = e \/ executions[e].key = NoKey

\* The room for the creations that have begun.
Creators == {c \in Callers : call[c].at \in Creating}
RoomInv == Len(executions) + Cardinality(Creators) <= MaxExecutions

\* The answer given in this step is true.
ReplyInv ==
    /\ LET e == reply.execution
           same == executions[e].selection = reply.selection
       IN  /\ reply.verdict = "accepted" => e # 0 /\ same
           /\ reply.verdict = "conflict" => e # 0 /\ ~same
           /\ reply.verdict \in {"limit", "error"} => e = 0
    /\ StartedAsAnswered

\* With one scheduler, what its ticks have in flight and may still admit.
OneScheduler == \A b, c \in Schedulers : b = c
AutoCounted == {e \in Ids : Automated(e) /\ Counts(e)}

TickInv ==
    OneScheduler =>
        /\ Cardinality(AutoCounted) <= ModuleCap
        /\ \A c \in Callers : call[c].tick =>
              Cardinality(AutoCounted) + call[c].budget <= ModuleCap

IInv ==
    /\ TypeOK /\ (\A c \in Callers : CallerInv(c)) /\ KeyInv /\ RoomInv /\ ReplyInv
    /\ AdmittedWithinPinnedLimit /\ TickInv

----------------------------------------------------------------------------
(* Steps that insert no row                                                 *)

\* No row is inserted, none of what was pinned changes, and none comes to count.
RowsKept ==
    /\ Len(executions') = Len(executions)
    /\ Ids' = Ids
    /\ \A e \in Ids :
         /\ executions'[e].key = executions[e].key
         /\ executions'[e].selection = executions[e].selection
         /\ executions'[e].profile = executions[e].profile
         /\ executions'[e].limit = executions[e].limit
         /\ executions'[e].automated = executions[e].automated
         /\ Counts(e)' => Counts(e)

LocksKept(b) ==
    /\ \A k \in Keys : keyLock[k] = b => keyLock'[k] = b
    /\ \A p \in Profiles : capLock[p] = b => capLock'[p] = b

OthersKept(c) == \A b \in Callers \ {c} : call'[b] = call[b] /\ LocksKept(b)

ReplyType == [verdict : Verdict, key : Keys \cup {NoKey}, selection : Selections,
              submit : BOOLEAN, execution : 0..MaxExecutions]

\* A set with one element more has one element more at most.
LEMMA AddOne ==
  ASSUME NEW S, NEW x, IsFiniteSet(S)
  PROVE  /\ IsFiniteSet(S \cup {x})
         /\ Cardinality(S \cup {x}) \in Nat
         /\ Cardinality(S \cup {x}) <= Cardinality(S) + 1
<1>1. Cardinality(S) \in Nat
  BY FS_CardinalityType
<1>2. /\ IsFiniteSet(S \cup {x})
      /\ Cardinality(S \cup {x}) = IF x \in S THEN Cardinality(S) ELSE Cardinality(S) + 1
  BY FS_AddElement
<1> QED BY <1>1, <1>2

\* There are finitely many executions at any time.
LEMMA FiniteIds ==
  ASSUME TypeOK
  PROVE  IsFiniteSet(Ids) /\ \A S \in SUBSET Ids : IsFiniteSet(S) /\ Cardinality(S) \in Nat
<1>1. Ids = 1..Len(executions) /\ Len(executions) \in Nat
  BY DEF TypeOK, Ids
<1>2. IsFiniteSet(Ids)
  BY <1>1, FS_Interval
<1> QED BY <1>2, FS_Subset, FS_CardinalityType

LEMMA RowTyped ==
  ASSUME TypeOK, NEW e \in Ids
  PROVE  executions[e] \in Row /\ executions[e].limit \in Nat
<1>1. executions[e] \in Row
  BY DEF TypeOK, Ids
<1> QED BY <1>1, AdmissionAssumption DEF Row

LEMMA FiniteCreators ==
  /\ IsFiniteSet(Creators)
  /\ Cardinality(Creators) \in Nat
<1>1. Creators \in SUBSET Callers /\ IsFiniteSet(Callers)
  BY AdmissionAssumption DEF Creators
<1> QED BY <1>1, FS_Subset, FS_CardinalityType

\* A caller whose record and locks are left alone knows what it knew.
LEMMA CallerKept ==
  ASSUME TypeOK, NEW b \in Callers, CallerInv(b), RowsKept, LocksKept(b),
         call'[b] = call[b]
  PROVE  CallerInv(b)'
<1>1. call[b] \in Call
  BY DEF TypeOK
<1>2. KnowsExecution(b)' /\ KnowsProfile(b)' /\ IsTick(b)'
  BY DEF CallerInv, RowsKept, KnowsExecution, KnowsProfile, IsTick
<1>3. HoldsKey(b)'
  <2>1. Free(call[b].key) => Free(call[b].key)'
    BY DEF Free, RowsKept
  <2>2. call[b].key # NoKey => call[b].key \in Keys
    BY <1>1 DEF Call
  <2> QED BY <2>1, <2>2 DEF CallerInv, HoldsKey, LocksKept
<1>4. HoldsCap(b)'
  <2> SUFFICES ASSUME call[b].at = "insert", call[b].limit # Unlimited
               PROVE  /\ capLock'[call[b].profile] = b
                      /\ Cardinality(Counted(call[b].profile)') < call[b].limit
    BY DEF HoldsCap
  <2> DEFINE p == call[b].profile
  <2>1. /\ p \in Profiles /\ capLock[p] = b
        /\ Cardinality(Counted(p)) < call[b].limit
    BY DEF CallerInv, KnowsProfile, HoldsCap
  <2>2. Counted(p)' \subseteq Counted(p)
    BY DEF Counted, RowsKept
  <2>3. IsFiniteSet(Counted(p)) /\ Cardinality(Counted(p)) \in Nat
    BY FiniteIds DEF Counted
  <2>4. Cardinality(Counted(p)') \in Nat /\ Cardinality(Counted(p)') <= Cardinality(Counted(p))
    BY <2>2, <2>3, FS_Subset, FS_CardinalityType
  <2>5. call[b].limit \in Nat
    BY <1>1, AdmissionAssumption DEF Call
  <2> QED BY <2>1, <2>3, <2>4, <2>5 DEF LocksKept
<1> QED BY <1>2, <1>3, <1>4 DEF CallerInv

\* A caller that has returned knows nothing, and so does one that serves nobody.
LEMMA IdleKnows ==
  ASSUME NEW c \in Callers, call'[c] = Idle
  PROVE  CallerInv(c)'
BY DEF CallerInv, KnowsExecution, KnowsProfile, HoldsKey, HoldsCap, IsTick, Idle, Transaction

\* What holds of the rows goes on to hold.
LEMMA RowsStep ==
  ASSUME IInv, TypeOK', RowsKept
  PROVE  /\ KeyInv' /\ AdmittedWithinPinnedLimit'
         /\ Cardinality(AutoCounted)' \in Nat /\ Cardinality(AutoCounted) \in Nat
         /\ Cardinality(AutoCounted)' <= Cardinality(AutoCounted)
<1>1. TypeOK
  BY DEF IInv
<1>2. KeyInv'
  BY DEF IInv, KeyInv, RowsKept
<1>3. AdmittedWithinPinnedLimit'
  <2> SUFFICES ASSUME NEW e \in Ids, executions[e].limit # Unlimited
               PROVE  Cardinality(AdmittedUpTo(e)') <= executions[e].limit
    BY DEF AdmittedWithinPinnedLimit, RowsKept
  <2>1. Ids = 1..Len(executions) /\ Len(executions) \in Nat
    BY <1>1 DEF TypeOK, Ids
  <2>2. AdmittedUpTo(e)' \subseteq AdmittedUpTo(e) /\ AdmittedUpTo(e) \subseteq Ids
    BY <2>1 DEF AdmittedUpTo, RowsKept, Counts
  <2>3. IsFiniteSet(AdmittedUpTo(e)) /\ Cardinality(AdmittedUpTo(e)) \in Nat
    BY <1>1, <2>2, FiniteIds
  <2>4. /\ Cardinality(AdmittedUpTo(e)') \in Nat
        /\ Cardinality(AdmittedUpTo(e)') <= Cardinality(AdmittedUpTo(e))
    BY <2>2, <2>3, FS_Subset, FS_CardinalityType
  <2>5. Cardinality(AdmittedUpTo(e)) <= executions[e].limit
    BY DEF IInv, AdmittedWithinPinnedLimit
  <2>6. executions[e].limit \in Nat
    BY <1>1, RowTyped
  <2> QED BY <2>3, <2>4, <2>5, <2>6
<1>4. /\ Cardinality(AutoCounted)' \in Nat /\ Cardinality(AutoCounted) \in Nat
      /\ Cardinality(AutoCounted)' <= Cardinality(AutoCounted)
  <2>1. AutoCounted' \subseteq AutoCounted /\ AutoCounted \subseteq Ids
    BY DEF AutoCounted, RowsKept, Automated
  <2>2. IsFiniteSet(AutoCounted) /\ Cardinality(AutoCounted) \in Nat
    BY <1>1, <2>1, FiniteIds
  <2> QED BY <2>1, <2>2, FS_Subset, FS_CardinalityType
<1> QED BY <1>2, <1>3, <1>4

\* A step of one caller.
LEMMA CallerStep ==
  ASSUME IInv, NEW c \in Callers, TypeOK', RowsKept, OthersKept(c), CallerInv(c)', ReplyInv',
         call'[c].at \in Creating => call[c].at \in Creating \/ Room,
         call'[c].tick =>
            \/ call[c].tick /\ call'[c].budget = call[c].budget
            \/ Cardinality(AutoCounted) + call'[c].budget <= ModuleCap
  PROVE  IInv'
<1>1. TypeOK
  BY DEF IInv
<1>2. ASSUME NEW b \in Callers PROVE CallerInv(b)'
  BY <1>1, <1>2, CallerKept DEF IInv, OthersKept
<1>3. RoomInv'
  <2>1. Creators' \subseteq Creators \cup {c}
    BY DEF Creators, OthersKept
  <2>2. IsFiniteSet(Creators) /\ Cardinality(Creators) \in Nat
        /\ IsFiniteSet(Creators') /\ Cardinality(Creators') \in Nat
    BY FiniteCreators, AdmissionAssumption, FS_Subset, FS_CardinalityType DEF Creators
  <2>3. Len(executions) \in Nat /\ Len(executions') = Len(executions) /\ MaxExecutions \in Nat
    BY <1>1, AdmissionAssumption DEF TypeOK, RowsKept
  <2>4. CASE Creators' \subseteq Creators
    <3>1. Cardinality(Creators') <= Cardinality(Creators)
      BY <2>2, <2>4, FS_Subset
    <3> QED BY <2>2, <2>3, <3>1 DEF IInv, RoomInv
  <2>5. CASE ~(Creators' \subseteq Creators)
    <3>1. Room
      BY <2>1, <2>5 DEF Creators
    <3>2. Len(executions) + Cardinality(Creators) < MaxExecutions
      BY <3>1 DEF Room, Creators
    <3>3. /\ IsFiniteSet(Creators \cup {c})
          /\ Cardinality(Creators \cup {c}) \in Nat
          /\ Cardinality(Creators \cup {c}) <= Cardinality(Creators) + 1
      BY <2>2, AddOne
    <3>4. Cardinality(Creators') <= Cardinality(Creators \cup {c})
      BY <2>1, <3>3, FS_Subset
    <3> QED BY <2>2, <2>3, <3>2, <3>3, <3>4 DEF RoomInv
  <2> QED BY <2>4, <2>5
<1>4. TickInv'
  <2> SUFFICES ASSUME OneScheduler
               PROVE  /\ Cardinality(AutoCounted)' <= ModuleCap
                      /\ \A b \in Callers : call'[b].tick =>
                            Cardinality(AutoCounted)' + call'[b].budget <= ModuleCap
    BY DEF TickInv
  <2>1. /\ Cardinality(AutoCounted)' \in Nat /\ Cardinality(AutoCounted) \in Nat
        /\ Cardinality(AutoCounted)' <= Cardinality(AutoCounted)
    BY RowsStep
  <2>2. ModuleCap \in Nat /\ \A b \in Callers : call'[b].budget \in Nat
    BY AdmissionAssumption DEF TypeOK, Call
  <2>3. /\ Cardinality(AutoCounted) <= ModuleCap
        /\ \A b \in Callers : call[b].tick =>
              Cardinality(AutoCounted) + call[b].budget <= ModuleCap
    BY DEF IInv, TickInv
  <2>4. \A b \in Callers : call'[b].tick =>
              Cardinality(AutoCounted) + call'[b].budget <= ModuleCap
    BY <2>3 DEF OthersKept
  <2> QED BY <2>1, <2>2, <2>3, <2>4
<1> QED BY <1>2, <1>3, <1>4, RowsStep DEF IInv

----------------------------------------------------------------------------
(* Answers                                                                  *)

LEMMA SilentIsTrue ==
  ASSUME Silent
  PROVE  reply' \in ReplyType /\ ReplyInv'
<1>1. reply' = NoReply
  BY DEF Silent
<1>2. NoReply \in ReplyType
  BY AdmissionAssumption DEF NoReply, ReplyType, Verdict, Selections
<1>3. ReplyInv'
  BY <1>1 DEF NoReply, ReplyInv, StartedAsAnswered
<1> QED BY <1>1, <1>2, <1>3

LEMMA ReplyTyped ==
  ASSUME TypeOK, NEW c \in Callers, NEW verdict \in Verdict, NEW e \in 0..MaxExecutions,
         Reply(c, verdict, e)
  PROVE  /\ reply' \in ReplyType
         /\ reply'.verdict = verdict /\ reply'.execution = e
         /\ reply'.selection = call[c].selection /\ reply'.submit = call[c].submit
<1>1. call[c] \in Call
  BY DEF TypeOK
<1> QED BY <1>1 DEF Reply, ReplyType, Call

LEMMA IdsBounded ==
  ASSUME TypeOK
  PROVE  \A e \in Ids : e \in 1..MaxExecutions /\ e # 0 /\ e \in 0..MaxExecutions
<1>1. Len(executions) \in Nat /\ Ids = 1..Len(executions) /\ Len(executions) <= MaxExecutions
  BY DEF TypeOK, Ids
<1> QED BY <1>1, AdmissionAssumption

\* Holder finds an execution of the key if there is one.
LEMMA HolderIs ==
  ASSUME TypeOK, NEW k
  PROVE  /\ Free(k) => Holder(k) = 0
         /\ ~Free(k) => Holder(k) \in Ids /\ executions[Holder(k)].key = k /\ Holder(k) # 0
<1>1. CASE Free(k)
  BY <1>1 DEF Free, Holder
<1>2. CASE ~Free(k)
  <2>1. \E e \in Ids : executions[e].key = k /\ k # NoKey
    BY <1>2 DEF Free
  <2>2. Holder(k) = CHOOSE e \in Ids : executions[e].key = k
    BY <2>1 DEF Holder
  <2>3. Holder(k) \in Ids /\ executions[Holder(k)].key = k
    BY <2>1, <2>2
  <2> QED BY <1>2, <2>3, IdsBounded
<1> QED BY <1>1, <1>2

\* The answer to a request whose key an execution has, is of that execution.
LEMMA ReplayIsTrue ==
  ASSUME TypeOK, NEW c \in Callers, NEW e \in Ids, Replay(c, e), executions' = executions
  PROVE  reply' \in ReplyType /\ ReplyInv'
<1> DEFINE verdict == IF OtherRequest(c, e) THEN "conflict" ELSE "accepted"
<1>1. Reply(c, verdict, e) /\ verdict \in {"conflict", "accepted"} /\ verdict \in Verdict
  BY DEF Replay, Verdict
<1>2. verdict = "accepted" <=> executions[e].selection = call[c].selection
  BY DEF OtherRequest
<1> HIDE DEF verdict
<1>3. e # 0 /\ e \in 0..MaxExecutions
  BY IdsBounded
<1>4. /\ reply' \in ReplyType /\ reply'.verdict = verdict /\ reply'.execution = e
      /\ reply'.selection = call[c].selection
  BY <1>1, <1>3, ReplyTyped
<1> QED BY <1>1, <1>2, <1>3, <1>4 DEF ReplyInv, StartedAsAnswered

\* A refusal is told with the execution that has the key, and none has it.
LEMMA RefusalIsTrue ==
  ASSUME TypeOK, NEW c \in Callers, NEW verdict \in {"limit", "error"},
         Free(call[c].key), Reply(c, verdict, Holder(call[c].key))
  PROVE  reply' \in ReplyType /\ ReplyInv'
<1>1. Holder(call[c].key) = 0 /\ 0 \in 0..MaxExecutions /\ verdict \in Verdict
  BY HolderIs, AdmissionAssumption DEF Verdict
<1>2. reply' \in ReplyType /\ reply'.verdict = verdict /\ reply'.execution = 0
  BY <1>1, ReplyTyped
<1> QED BY <1>2 DEF ReplyInv, StartedAsAnswered

----------------------------------------------------------------------------
(* Steps of a caller outside its transaction                                *)

LEMMA Moved ==
  ASSUME TypeOK, NEW c \in Callers, NEW new \in Call, call' = [call EXCEPT ![c] = new]
  PROVE  /\ call' \in [Callers -> Call]
         /\ call'[c] = new
         /\ \A b \in Callers \ {c} : call'[b] = call[b]
BY DEF TypeOK

LEMMA IdleTyped == Idle \in Call
BY AdmissionAssumption DEF Idle, Call, Steps, Selections, ByDefault, Unlimited

LEMMA Returned ==
  ASSUME TypeOK, NEW c \in Callers, Return(c)
  PROVE  /\ call' \in [Callers -> Call]
         /\ call'[c] = Idle
         /\ \A b \in Callers \ {c} : call'[b] = call[b]
         /\ CallerInv(c)'
         /\ call'[c].at \notin Creating /\ ~call'[c].tick
<1>1. /\ call' \in [Callers -> Call]
      /\ call'[c] = Idle
      /\ \A b \in Callers \ {c} : call'[b] = call[b]
  BY IdleTyped, Moved DEF Return
<1>2. Idle.at \notin Creating /\ ~Idle.tick
  BY DEF Idle, Creating
<1> QED BY <1>1, <1>2, IdleKnows

LEMMA WentTo ==
  ASSUME TypeOK, NEW c \in Callers, NEW step \in Steps, Goto(c, step)
  PROVE  /\ call' \in [Callers -> Call]
         /\ call'[c] = [call[c] EXCEPT !.at = step]
         /\ call'[c] \in Call
         /\ \A b \in Callers \ {c} : call'[b] = call[b]
<1>1. call[c] \in Call
  BY DEF TypeOK
<1>2. [call[c] EXCEPT !.at = step] \in Call
  BY <1>1 DEF Call
<1>3. call' = [call EXCEPT ![c] = [call[c] EXCEPT !.at = step]]
  BY DEF Goto
<1> QED BY <1>2, <1>3, Moved

\* A step of one caller that takes no lock and writes nothing.
LEMMA PureStep ==
  ASSUME IInv, NEW c \in Callers, UNCHANGED <<profile, executions, keyLock, capLock, edits>>,
         call' \in [Callers -> Call], \A b \in Callers \ {c} : call'[b] = call[b],
         reply' \in ReplyType, ReplyInv', CallerInv(c)',
         call'[c].at \in Creating => call[c].at \in Creating \/ Room,
         call'[c].tick =>
            \/ call[c].tick /\ call'[c].budget = call[c].budget
            \/ Cardinality(AutoCounted) + call'[c].budget <= ModuleCap
  PROVE  IInv'
<1>1. TypeOK'
  BY DEF IInv, TypeOK, ReplyType
<1>2. RowsKept
  BY DEF RowsKept, Ids, Counts, InFlight
<1>3. OthersKept(c)
  BY DEF OthersKept, LocksKept
<1> QED BY <1>1, <1>2, <1>3, CallerStep

LEMMA PureReturn ==
  ASSUME IInv, NEW c \in Callers, UNCHANGED <<profile, executions, keyLock, capLock, edits>>,
         Return(c), reply' \in ReplyType, ReplyInv'
  PROVE  IInv'
<1>1. TypeOK
  BY DEF IInv
<1> QED BY <1>1, Returned, PureStep

\* A request looks for its key, and is answered if an execution has it.
LEMMA ReadStep ==
  ASSUME IInv, NEW c \in Callers, Read(c)
  PROVE  IInv'
<1> DEFINE e == Holder(call[c].key)
<1>1. TypeOK /\ UNCHANGED <<profile, executions, keyLock, capLock, edits>>
  BY DEF IInv, Read
<1>2. CASE e = 0
  <2>1. Goto(c, "validate") /\ Silent /\ call[c].at = "read"
    BY <1>2 DEF Read
  <2>2. /\ call' \in [Callers -> Call] /\ \A b \in Callers \ {c} : call'[b] = call[b]
        /\ call'[c] = [call[c] EXCEPT !.at = "validate"] /\ call'[c] \in Call
    BY <1>1, <2>1, WentTo DEF Steps
  <2>3. /\ call'[c].at = "validate" /\ call'[c].tick = call[c].tick
        /\ "read" \in Creating /\ ~call[c].tick
    BY <1>1, <2>1, <2>2 DEF Call, Creating, TypeOK, IInv, CallerInv, IsTick, TickSteps
  <2>4. CallerInv(c)'
    BY <2>2, <2>3 DEF CallerInv, KnowsExecution, KnowsProfile, HoldsKey, HoldsCap, IsTick,
                      Transaction
  <2> QED BY <1>1, <2>1, <2>2, <2>3, <2>4, SilentIsTrue, PureStep
<1>3. CASE e # 0
  <2>1. Return(c) /\ Replay(c, e) /\ e \in Ids
    BY <1>1, <1>3, HolderIs DEF Read
  <2> QED BY <1>1, <2>1, ReplayIsTrue, PureReturn
<1> QED BY <1>2, <1>3

\* What a request that comes in, or a tick, starts with
LEMMA CreateStep ==
  ASSUME IInv, NEW c \in Callers, NEW k \in Keys \cup {NoKey}, NEW s \in Selections,
         Create(c, k, s)
  PROVE  IInv'
<1> DEFINE at == IF k = NoKey THEN "validate" ELSE "read"
           new == [Idle EXCEPT !.key = k, !.selection = s, !.at = at]
<1>1. TypeOK /\ UNCHANGED <<profile, executions, keyLock, capLock, edits>> /\ Silent /\ Room
  BY DEF IInv, Create
<1>2. call' = [call EXCEPT ![c] = new]
  BY DEF Create
<1>3. at \in {"validate", "read"}
  OBVIOUS
<1> HIDE DEF at
<1>4. new \in Call /\ new.at = at /\ ~new.tick
  <2>1. Idle \in Call /\ ~Idle.tick
    BY IdleTyped DEF Idle
  <2> QED BY <1>3, <2>1 DEF Call, Steps
<1> HIDE DEF new
<1>5. /\ call' \in [Callers -> Call] /\ \A b \in Callers \ {c} : call'[b] = call[b]
      /\ call'[c] = new
  BY <1>1, <1>2, <1>4, Moved
<1>6. CallerInv(c)'
  BY <1>3, <1>4, <1>5 DEF CallerInv, KnowsExecution, KnowsProfile, HoldsKey, HoldsCap, IsTick,
                          Transaction
<1> QED BY <1>1, <1>4, <1>5, <1>6, SilentIsTrue, PureStep

\* The profile that is selected exists.
LEMMA SelectedTyped ==
  ASSUME NEW s \in Selections
  PROVE  Selected(s) \in Profiles \cup {NoProfile}
<1>1. CASE \E p \in Profiles : Exists(p) /\ profile[p].default
  BY <1>1 DEF Selected, Selections, ByDefault
<1>2. CASE ~\E p \in Profiles : Exists(p) /\ profile[p].default
  BY <1>2 DEF Selected, Selections, ByDefault
<1> QED BY <1>1, <1>2

LEMMA ValidateStep ==
  ASSUME IInv, NEW c \in Callers, Validate(c) \/ Invalid(c)
  PROVE  IInv'
<1> DEFINE p == Selected(call[c].selection)
<1>1. TypeOK /\ UNCHANGED <<profile, executions, keyLock, capLock, edits>> /\ Silent
      /\ call[c].at = "validate"
  BY DEF IInv, Validate, Invalid
<1>2. CASE Return(c)
  BY <1>1, <1>2, SilentIsTrue, PureReturn
<1>3. CASE ~Return(c)
  <2>1. p # NoProfile /\ call' = [call EXCEPT ![c].at = "resolve", ![c].profile = p]
    BY <1>3 DEF Validate, Invalid
  <2>2. call[c] \in Call /\ call[c].selection \in Selections
    BY <1>1 DEF TypeOK, Call
  <2>3. p \in Profiles
    BY <2>1, <2>2, SelectedTyped
  <2> HIDE DEF p
  <2> DEFINE new == [call[c] EXCEPT !.at = "resolve", !.profile = p]
  <2>4. call' = [call EXCEPT ![c] = new]
    BY <1>1, <2>1 DEF TypeOK
  <2>5. new \in Call /\ new.at = "resolve" /\ new.tick = call[c].tick
        /\ new.budget = call[c].budget /\ new.key = call[c].key
    BY <2>2, <2>3 DEF Call, Steps
  <2> HIDE DEF new
  <2>6. /\ call' \in [Callers -> Call] /\ \A b \in Callers \ {c} : call'[b] = call[b]
        /\ call'[c] = new
    BY <1>1, <2>4, <2>5, Moved
  <2>7. ~call[c].tick /\ "validate" \in Creating
    BY <1>1 DEF IInv, CallerInv, IsTick, TickSteps, Creating
  <2>8. CallerInv(c)'
    BY <2>5, <2>6, <2>7 DEF CallerInv, KnowsExecution, KnowsProfile, HoldsKey, HoldsCap, IsTick,
                            Transaction
  <2> QED BY <1>1, <2>5, <2>6, <2>7, <2>8, SilentIsTrue, PureStep
<1> QED BY <1>2, <1>3

\* What is pinned is the limit of a profile that exists.
LEMMA ResolveStep ==
  ASSUME IInv, NEW c \in Callers, Resolve(c)
  PROVE  IInv'
<1> DEFINE p == IF call[c].profile = NoProfile THEN Selected(ByDefault)
                ELSE Selected(call[c].profile)
           limit == IF p = NoProfile THEN Unlimited ELSE profile[p].limit
           at == IF call[c].key # NoKey THEN "key" ELSE "cap"
           new == [call[c] EXCEPT !.profile = p, !.limit = limit, !.at = at]
<1>1. TypeOK /\ UNCHANGED <<profile, executions, keyLock, capLock, edits>> /\ Silent
      /\ call[c].at = "resolve"
  BY DEF IInv, Resolve
<1>2. call[c] \in Call /\ call[c].profile \in Profiles \cup {NoProfile}
  BY <1>1 DEF TypeOK, Call
<1>3. CASE Return(c)
  BY <1>1, <1>3, SilentIsTrue, PureReturn
<1>4. CASE ~Return(c)
  <2>1. /\ KeyIsComplete(c)
        /\ call' = [call EXCEPT ![c].profile = p, ![c].limit = limit, ![c].at = at]
    BY <1>4 DEF Resolve
  <2>2. p \in Profiles \cup {NoProfile}
    BY <1>2, SelectedTyped DEF Selections
  <2>3. limit \in Limits /\ (limit # Unlimited => p \in Profiles)
    BY <1>1, <2>2, AdmissionAssumption DEF TypeOK, ProfileRow, Unlimited
  <2>4. at \in {"key", "cap"} /\ (at = "cap" <=> call[c].key = NoKey)
    OBVIOUS
  <2> HIDE DEF p, limit, at
  <2>5. call' = [call EXCEPT ![c] = new]
    BY <1>1, <2>1 DEF TypeOK
  <2>6. new \in Call /\ new.at = at /\ new.tick = call[c].tick /\ new.limit = limit
        /\ new.budget = call[c].budget /\ new.key = call[c].key /\ new.profile = p
    BY <1>2, <2>2, <2>3, <2>4 DEF Call, Steps
  <2> HIDE DEF new
  <2>7. /\ call' \in [Callers -> Call] /\ \A b \in Callers \ {c} : call'[b] = call[b]
        /\ call'[c] = new
    BY <1>1, <2>5, <2>6, Moved
  <2>8. "resolve" \in Creating /\ IsTick(c)
    BY DEF Creating, IInv, CallerInv
  <2>9. CallerInv(c)'
    <3>1. KnowsExecution(c)' /\ KnowsProfile(c)' /\ HoldsCap(c)'
      BY <2>3, <2>4, <2>6, <2>7 DEF KnowsExecution, KnowsProfile, HoldsCap
    <3>2. HoldsKey(c)'
      BY <2>4, <2>6, <2>7 DEF HoldsKey, Free, Transaction
    <3>3. IsTick(c)'
      BY <1>1, <2>4, <2>6, <2>7, <2>8 DEF IsTick, TickSteps
    <3> QED BY <3>1, <3>2, <3>3 DEF CallerInv
  <2> QED BY <1>1, <2>6, <2>7, <2>8, <2>9, SilentIsTrue, PureStep
<1> QED BY <1>3, <1>4

\* A tick takes its budget from counts that its own executions are among.
LEMMA BudgetIsRoom ==
  ASSUME TypeOK, NEW p \in Profiles \cup {NoProfile}, Budget(p) > 0
  PROVE  /\ Budget(p) \in Nat
         /\ Cardinality(AutoCounted) + Budget(p) <= ModuleCap
<1> DEFINE room == ModuleCap - ModuleLoad
           left == profile[p].limit - Load(p)
           flying == {e \in Ids : InFlight(e)}
           loaded == {e \in Ids : executions[e].profile = p /\ InFlight(e)}
<1>1. /\ flying \in SUBSET Ids /\ loaded \in SUBSET Ids /\ AutoCounted \in SUBSET Ids
      /\ AutoCounted \in SUBSET flying
  BY DEF AutoCounted, Counts
<1>2. /\ IsFiniteSet(flying) /\ Cardinality(flying) \in Nat /\ Cardinality(loaded) \in Nat
      /\ Cardinality(AutoCounted) \in Nat
  BY <1>1, FiniteIds
<1>3. Cardinality(AutoCounted) <= Cardinality(flying)
  BY <1>1, <1>2, FS_Subset
<1>4. ModuleLoad = Cardinality(flying) /\ Load(p) = Cardinality(loaded)
  BY DEF ModuleLoad, Load
<1>5. p # NoProfile => profile[p].limit \in Nat
  BY AdmissionAssumption DEF TypeOK, ProfileRow
<1>6. Budget(p) = IF p = NoProfile \/ profile[p].limit = Unlimited \/ room <= left
                  THEN room ELSE left
  BY DEF Budget
<1> HIDE DEF flying, loaded
<1> QED BY <1>2, <1>3, <1>4, <1>5, <1>6, AdmissionAssumption

LEMMA TickBeginStep ==
  ASSUME IInv, NEW c \in Callers, TickBegin(c)
  PROVE  IInv'
<1> DEFINE p == Selected(ByDefault)
           budget == Budget(p)
           new == [Idle EXCEPT !.at = "chunk", !.tick = TRUE, !.profile = p, !.budget = budget]
<1>1. /\ TypeOK /\ UNCHANGED <<profile, executions, keyLock, capLock, edits>> /\ Silent
      /\ c \in Schedulers /\ budget > 0 /\ call' = [call EXCEPT ![c] = new]
  BY DEF IInv, TickBegin
<1>2. p \in Profiles \cup {NoProfile}
  BY SelectedTyped DEF Selections
<1>3. budget \in Nat /\ Cardinality(AutoCounted) + budget <= ModuleCap
  BY <1>1, <1>2, BudgetIsRoom
<1> HIDE DEF p, budget
<1>4. /\ new \in Call /\ new.at = "chunk" /\ new.tick /\ new.budget = budget
      /\ new.key = NoKey
  <2>1. Idle \in Call /\ Idle.key = NoKey
    BY IdleTyped DEF Idle
  <2> QED BY <1>2, <1>3, <2>1 DEF Call, Steps
<1> HIDE DEF new
<1>5. /\ call' \in [Callers -> Call] /\ \A b \in Callers \ {c} : call'[b] = call[b]
      /\ call'[c] = new
  BY <1>1, <1>4, Moved
<1>6. CallerInv(c)'
  BY <1>1, <1>4, <1>5 DEF CallerInv, KnowsExecution, KnowsProfile, HoldsKey, HoldsCap, IsTick,
                          Transaction, TickSteps
<1>7. call'[c].at \notin Creating
  BY <1>4, <1>5 DEF Creating
<1> QED BY <1>1, <1>3, <1>4, <1>5, <1>6, <1>7, SilentIsTrue, PureStep

LEMMA TickStep ==
  ASSUME IInv, NEW c \in Callers, TickChunk(c) \/ TickEnd(c)
  PROVE  IInv'
<1>1. TypeOK /\ UNCHANGED <<profile, executions, keyLock, capLock, edits>> /\ Silent
      /\ call[c].at = "chunk"
  BY DEF IInv, TickChunk, TickEnd
<1>2. CASE TickEnd(c)
  BY <1>1, <1>2, SilentIsTrue, PureReturn DEF TickEnd
<1>3. CASE TickChunk(c)
  <2>1. Goto(c, "resolve") /\ Room /\ call[c].budget > 0
    BY <1>3 DEF TickChunk
  <2>2. /\ call' \in [Callers -> Call] /\ \A b \in Callers \ {c} : call'[b] = call[b]
        /\ call'[c] = [call[c] EXCEPT !.at = "resolve"] /\ call[c] \in Call
    BY <1>1, <2>1, WentTo DEF Steps, TypeOK
  <2>3. /\ call'[c].at = "resolve" /\ call'[c].tick = call[c].tick
        /\ call'[c].budget = call[c].budget /\ call'[c].key = call[c].key
    BY <2>2 DEF Call
  <2>4. CallerInv(c)'
    BY <2>1, <2>3 DEF IInv, CallerInv, KnowsExecution, KnowsProfile, HoldsKey, HoldsCap, IsTick,
                      Transaction, TickSteps
  <2> QED BY <1>1, <2>1, <2>2, <2>3, <2>4, SilentIsTrue, PureStep
<1> QED BY <1>2, <1>3

\* A start request reads the row, then the job.
LEMMA StartStep ==
  ASSUME IInv, NEW c \in Callers, NEW e \in Ids, NEW o \in BOOLEAN, Start(c, e, o)
  PROVE  IInv'
<1> DEFINE pending == executions[e].status = "pending"
           new == [Idle EXCEPT !.at = "job", !.execution = e, !.submit = o,
                               !.pending = pending]
<1>1. TypeOK /\ UNCHANGED <<profile, executions, keyLock, capLock, edits>> /\ Silent
      /\ call' = [call EXCEPT ![c] = new]
  BY DEF IInv, Start
<1>2. e \in 0..MaxExecutions /\ pending \in BOOLEAN
  BY <1>1, IdsBounded
<1> HIDE DEF pending
<1>3. new \in Call /\ new.at = "job" /\ new.execution = e /\ ~new.tick
  <2>1. Idle \in Call /\ ~Idle.tick
    BY IdleTyped DEF Idle
  <2> QED BY <1>2, <2>1 DEF Call, Steps
<1> HIDE DEF new
<1>4. /\ call' \in [Callers -> Call] /\ \A b \in Callers \ {c} : call'[b] = call[b]
      /\ call'[c] = new
  BY <1>1, <1>3, Moved
<1>5. CallerInv(c)'
  BY <1>1, <1>3, <1>4 DEF CallerInv, KnowsExecution, KnowsProfile, HoldsKey, HoldsCap, IsTick,
                          Transaction, Ids
<1>6. call'[c].at \notin Creating
  BY <1>3, <1>4 DEF Creating
<1> QED BY <1>1, <1>3, <1>4, <1>5, <1>6, SilentIsTrue, PureStep

\* An accepted start names an execution whose job has the options asked for.
LEMMA StartedIsTrue ==
  ASSUME IInv, NEW c \in Callers, call[c].execution \in Ids, Accept(c),
         executions'[call[c].execution].job # "none",
         executions'[call[c].execution].submit = call[c].submit
  PROVE  reply' \in ReplyType /\ ReplyInv'
<1> DEFINE e == call[c].execution
<1>1. TypeOK
  BY DEF IInv
<1>2. Reply(c, "started", e) /\ e \in 0..MaxExecutions /\ "started" \in Verdict
  BY <1>1, IdsBounded DEF Accept, Verdict
<1>3. /\ reply' \in ReplyType /\ reply'.verdict = "started" /\ reply'.execution = e
      /\ reply'.submit = call[c].submit
  BY <1>1, <1>2, ReplyTyped
<1> QED BY <1>3 DEF ReplyInv, StartedAsAnswered

LEMMA StartJobStep ==
  ASSUME IInv, NEW c \in Callers, StartJob(c)
  PROVE  IInv'
<1> DEFINE e == call[c].execution
<1>1. TypeOK /\ UNCHANGED <<profile, executions, keyLock, capLock, edits>>
      /\ call[c].at = "job" /\ e \in Ids
  BY DEF IInv, StartJob, CallerInv, KnowsExecution
<1>2. CASE Return(c) /\ Silent
  BY <1>1, <1>2, SilentIsTrue, PureReturn
<1>3. CASE Return(c) /\ Accept(c) /\ executions[e].job # "none"
           /\ executions[e].submit = call[c].submit
  <2>1. reply' \in ReplyType /\ ReplyInv'
    BY <1>1, <1>3, StartedIsTrue
  <2> QED BY <1>1, <1>3, <2>1, PureReturn
<1>4. CASE Goto(c, "enqueue") /\ Silent
  <2>1. /\ call' \in [Callers -> Call] /\ \A b \in Callers \ {c} : call'[b] = call[b]
        /\ call'[c] = [call[c] EXCEPT !.at = "enqueue"] /\ call[c] \in Call
    BY <1>1, <1>4, WentTo DEF Steps, TypeOK
  <2>2. /\ call'[c].at = "enqueue" /\ call'[c].tick = call[c].tick
        /\ call'[c].execution = e
    BY <2>1 DEF Call
  <2>3. ~call[c].tick
    BY <1>1 DEF IInv, CallerInv, IsTick, TickSteps
  <2>4. CallerInv(c)'
    BY <1>1, <2>2, <2>3 DEF CallerInv, KnowsExecution, KnowsProfile, HoldsKey, HoldsCap, IsTick,
                            Transaction, Ids
  <2>5. call'[c].at \notin Creating
    BY <2>2 DEF Creating
  <2> QED BY <1>1, <1>4, <2>1, <2>2, <2>3, <2>4, <2>5, SilentIsTrue, PureStep
<1> QED BY <1>2, <1>3, <1>4 DEF StartJob

----------------------------------------------------------------------------
(* The transaction, its locks, and what becomes of an execution             *)

LEMMA Unlocked ==
  ASSUME TypeOK, NEW c \in Callers, Unlock(c)
  PROVE  /\ keyLock' \in [Keys -> Callers \cup {NoCaller}]
         /\ capLock' \in [Profiles -> Callers \cup {NoCaller}]
         /\ \A b \in Callers \ {c} : LocksKept(b)
<1>1. /\ keyLock \in [Keys -> Callers \cup {NoCaller}]
      /\ capLock \in [Profiles -> Callers \cup {NoCaller}]
  BY DEF TypeOK
<1>2. /\ keyLock' = [k \in Keys |-> IF keyLock[k] = c THEN NoCaller ELSE keyLock[k]]
      /\ capLock' = [q \in Profiles |-> IF capLock[q] = c THEN NoCaller ELSE capLock[q]]
  BY DEF Unlock
<1> QED BY <1>1, <1>2 DEF LocksKept

\* A call that ends gives back its locks.
LEMMA EndStep ==
  ASSUME IInv, NEW c \in Callers, Return(c), Unlock(c),
         UNCHANGED <<profile, executions, edits>>, reply' \in ReplyType, ReplyInv'
  PROVE  IInv'
<1>1. TypeOK
  BY DEF IInv
<1>2. /\ call' \in [Callers -> Call] /\ \A b \in Callers \ {c} : call'[b] = call[b]
      /\ CallerInv(c)' /\ call'[c].at \notin Creating /\ ~call'[c].tick
  BY <1>1, Returned
<1>3. TypeOK' /\ OthersKept(c)
  BY <1>1, <1>2, Unlocked DEF TypeOK, ReplyType, OthersKept
<1>4. RowsKept
  BY DEF RowsKept, Ids, Counts, InFlight
<1> QED BY <1>2, <1>3, <1>4, CallerStep

LEMMA LoseStep ==
  ASSUME IInv, NEW c \in Callers, Lose(c)
  PROVE  IInv'
BY SilentIsTrue, EndStep DEF Lose

\* A caller goes on with its transaction.
LEMMA WentOn ==
  ASSUME IInv, NEW c \in Callers, NEW step \in Transaction, Goto(c, step)
  PROVE  /\ call' \in [Callers -> Call]
         /\ \A b \in Callers \ {c} : call'[b] = call[b]
         /\ call'[c].at = step
         /\ call'[c].key = call[c].key /\ call'[c].profile = call[c].profile
         /\ call'[c].limit = call[c].limit /\ call'[c].tick = call[c].tick
         /\ call'[c].budget = call[c].budget
<1>1. TypeOK /\ call[c] \in Call /\ step \in Steps
  BY DEF IInv, TypeOK, Steps, Transaction
<1>2. /\ call' \in [Callers -> Call] /\ \A b \in Callers \ {c} : call'[b] = call[b]
      /\ call'[c] = [call[c] EXCEPT !.at = step]
  BY <1>1, WentTo
<1> QED BY <1>1, <1>2 DEF Call

LEMMA EnterKeyStep ==
  ASSUME IInv, NEW c \in Callers, EnterKey(c)
  PROVE  IInv'
<1> DEFINE k == call[c].key
           e == Holder(k)
<1>1. /\ TypeOK /\ CallerInv(c) /\ UNCHANGED <<profile, executions, edits>>
      /\ call[c].at = "key" /\ keyLock[k] = NoCaller
  BY DEF IInv, EnterKey
<1>2. k \in Keys /\ ~call[c].tick
  BY <1>1 DEF TypeOK, Call, CallerInv, HoldsKey, IsTick, TickSteps
<1>3. CASE e # 0
  <2>1. Return(c) /\ Replay(c, e) /\ UNCHANGED <<keyLock, capLock>> /\ e \in Ids
    BY <1>1, <1>3, HolderIs DEF EnterKey
  <2> QED BY <1>1, <2>1, ReplayIsTrue, PureReturn
<1>4. CASE e = 0
  <2>1. /\ keyLock' = [keyLock EXCEPT ![k] = c] /\ Goto(c, "cap") /\ Silent
        /\ capLock' = capLock
    BY <1>4 DEF EnterKey
  <2>2. Free(k)
    BY <1>1, <1>4, HolderIs
  <2>3. /\ call' \in [Callers -> Call] /\ \A b \in Callers \ {c} : call'[b] = call[b]
        /\ call'[c].at = "cap" /\ call'[c].key = k /\ call'[c].profile = call[c].profile
        /\ call'[c].limit = call[c].limit /\ call'[c].tick = call[c].tick
    BY <2>1, WentOn DEF Transaction
  <2>4. /\ keyLock' \in [Keys -> Callers \cup {NoCaller}] /\ keyLock'[k] = c
        /\ \A b \in Callers : LocksKept(b)
    BY <1>1, <1>2, <2>1, AdmissionAssumption DEF TypeOK, LocksKept
  <2>5. TypeOK' /\ OthersKept(c) /\ RowsKept
    BY <1>1, <2>1, <2>3, <2>4, SilentIsTrue
       DEF TypeOK, ReplyType, OthersKept, RowsKept, Ids, Counts, InFlight
  <2>6. CallerInv(c)'
    <3>1. HoldsKey(c)'
      BY <1>1, <1>2, <2>2, <2>3, <2>4 DEF HoldsKey, Free, Ids
    <3>2. KnowsProfile(c)'
      BY <1>1, <2>3 DEF CallerInv, KnowsProfile
    <3> QED BY <1>2, <2>3, <3>1, <3>2
            DEF CallerInv, KnowsExecution, HoldsCap, IsTick
  <2> QED BY <1>1, <1>2, <2>1, <2>3, <2>5, <2>6, SilentIsTrue, CallerStep DEF Creating
<1> QED BY <1>3, <1>4

\* What is counted under the lock is among the load of the profile.
LEMMA CountedInLoad ==
  ASSUME TypeOK, NEW p
  PROVE  /\ Cardinality(Counted(p)) \in Nat /\ Load(p) \in Nat
         /\ Cardinality(Counted(p)) <= Load(p)
<1> DEFINE loaded == {e \in Ids : executions[e].profile = p /\ InFlight(e)}
<1>1. loaded \in SUBSET Ids /\ Counted(p) \in SUBSET Ids /\ Counted(p) \in SUBSET loaded
  BY DEF Counted, Counts
<1>2. Load(p) = Cardinality(loaded)
  BY DEF Load
<1> HIDE DEF loaded
<1>3. IsFiniteSet(loaded) /\ Cardinality(loaded) \in Nat /\ Cardinality(Counted(p)) \in Nat
  BY <1>1, FiniteIds
<1> QED BY <1>1, <1>2, <1>3, FS_Subset

LEMMA EnterCapStep ==
  ASSUME IInv, NEW c \in Callers, EnterCap(c)
  PROVE  IInv'
<1> DEFINE p == call[c].profile
<1>1. /\ TypeOK /\ CallerInv(c) /\ UNCHANGED <<profile, executions, edits>>
      /\ call[c].at = "cap" /\ call[c] \in Call
  BY DEF IInv, TypeOK, EnterCap
<1>2. "cap" \in Creating /\ "insert" \in Transaction /\ Free(call[c].key)
      /\ (call[c].key # NoKey => call[c].key \in Keys)
  BY <1>1 DEF Creating, Transaction, CallerInv, HoldsKey, Call
<1>3. ASSUME Goto(c, "insert")
      PROVE  /\ call' \in [Callers -> Call] /\ \A b \in Callers \ {c} : call'[b] = call[b]
             /\ call'[c].at = "insert" /\ call'[c].key = call[c].key
             /\ call'[c].profile = p /\ call'[c].limit = call[c].limit
             /\ call'[c].tick = call[c].tick /\ call'[c].budget = call[c].budget
             /\ KnowsExecution(c)' /\ KnowsProfile(c)' /\ IsTick(c)'
  <2>1. /\ call' \in [Callers -> Call] /\ \A b \in Callers \ {c} : call'[b] = call[b]
        /\ call'[c].at = "insert" /\ call'[c].key = call[c].key
        /\ call'[c].profile = p /\ call'[c].limit = call[c].limit
        /\ call'[c].tick = call[c].tick /\ call'[c].budget = call[c].budget
    BY <1>2, <1>3, WentOn
  <2> QED BY <1>1, <2>1 DEF CallerInv, KnowsExecution, KnowsProfile, IsTick, TickSteps
<1>4. CASE call[c].limit = Unlimited
  <2>1. Goto(c, "insert") /\ Silent /\ UNCHANGED <<keyLock, capLock>>
    BY <1>4 DEF EnterCap
  <2>2. HoldsKey(c)' /\ HoldsCap(c)'
    BY <1>1, <1>2, <1>3, <1>4, <2>1 DEF CallerInv, HoldsKey, HoldsCap, Transaction, Free, Ids
  <2> QED BY <1>1, <1>2, <1>3, <2>1, <2>2, SilentIsTrue, PureStep DEF CallerInv
<1>5. CASE call[c].limit # Unlimited /\ Load(p) >= call[c].limit
  <2>1. Reply(c, "limit", Holder(call[c].key)) /\ Return(c) /\ Unlock(c)
    BY <1>5 DEF EnterCap
  <2> QED BY <1>1, <1>2, <2>1, RefusalIsTrue, EndStep
<1>6. CASE call[c].limit # Unlimited /\ ~(Load(p) >= call[c].limit)
  <2>1. /\ capLock[p] = NoCaller /\ capLock' = [capLock EXCEPT ![p] = c]
        /\ Goto(c, "insert") /\ Silent /\ keyLock' = keyLock
    BY <1>6 DEF EnterCap
  <2>2. p \in Profiles /\ call[c].limit \in Nat
    BY <1>1, <1>6, AdmissionAssumption DEF CallerInv, KnowsProfile, Call
  <2>3. /\ capLock' \in [Profiles -> Callers \cup {NoCaller}] /\ capLock'[p] = c
        /\ \A b \in Callers : LocksKept(b)
    BY <1>1, <2>1, <2>2, AdmissionAssumption DEF TypeOK, LocksKept
  <2>4. TypeOK' /\ OthersKept(c) /\ RowsKept
    BY <1>1, <1>3, <2>1, <2>3, SilentIsTrue
       DEF TypeOK, ReplyType, OthersKept, RowsKept, Ids, Counts, InFlight
  <2>5. Cardinality(Counted(p)) < call[c].limit
    BY <1>1, <1>6, <2>2, CountedInLoad
  <2>6. \A q : Counted(q)' = Counted(q)
    BY <1>1 DEF Counted, Counts, InFlight, Ids
  <2>7. Counted(p)' = Counted(p)
    BY <1>3, <2>1, <2>6
  <2>8. HoldsKey(c)'
    BY <1>1, <1>2, <1>3, <2>1 DEF CallerInv, HoldsKey, Transaction, Free, Ids
  <2>9. HoldsCap(c)'
    BY <1>3, <2>1, <2>3, <2>5, <2>7 DEF HoldsCap
  <2> QED BY <1>1, <1>2, <1>3, <2>1, <2>4, <2>8, <2>9, SilentIsTrue, CallerStep DEF CallerInv
<1> QED BY <1>4, <1>5, <1>6

\* One row is written, and what it pins stays.
LEMMA RowWritten ==
  ASSUME TypeOK, NEW e \in Ids, NEW new \in Row, executions' = [executions EXCEPT ![e] = new],
         new.key = executions[e].key, new.selection = executions[e].selection,
         new.profile = executions[e].profile, new.limit = executions[e].limit,
         new.automated = executions[e].automated,
         new.retries = 0 /\ new.status \in {"pending", "active"} => Counts(e)
  PROVE  /\ executions' \in Seq(Row) /\ Len(executions') <= MaxExecutions
         /\ executions'[e] = new
         /\ RowsKept
<1>1. executions \in Seq(Row) /\ e \in DOMAIN executions
  BY DEF TypeOK, Ids
<1>2. /\ executions' \in Seq(Row) /\ Len(executions') = Len(executions)
      /\ DOMAIN executions' = DOMAIN executions
      /\ executions'[e] = new
      /\ \A d \in DOMAIN executions \ {e} : executions'[d] = executions[d]
  BY <1>1
<1>3. \A d \in Ids : Counts(d)' => Counts(d)
  BY <1>2 DEF Counts, InFlight, Ids
<1> QED BY <1>2, <1>3 DEF RowsKept, Ids, TypeOK

LEMMA EnqueueStep ==
  ASSUME IInv, NEW c \in Callers, Enqueue(c)
  PROVE  IInv'
<1> DEFINE e == call[c].execution
<1>1. /\ TypeOK /\ UNCHANGED <<profile, keyLock, capLock, edits>> /\ Return(c)
      /\ e \in Ids /\ call[c] \in Call
  BY DEF IInv, TypeOK, Enqueue, CallerInv, KnowsExecution
<1>2. executions' = [executions EXCEPT ![e].job = "live", ![e].submit = call[c].submit]
        => executions'[e].job = "live"
  <2>1. executions[e] \in Row /\ executions \in Seq(Row)
    BY <1>1, RowTyped DEF TypeOK
  <2> QED BY <1>1, <2>1 DEF Row, Ids
<1>3. CASE executions' = executions
  <2>1. reply' \in ReplyType /\ ReplyInv'
    <3>1. CASE Silent
      BY <3>1, SilentIsTrue
    <3>2. CASE ~Silent
      <4>1. executions[e].job # "none"
        BY <1>1, <1>3, <1>2, <3>2 DEF Enqueue
      <4>2. Accept(c) /\ executions[e].submit = call[c].submit
        BY <3>2, <4>1 DEF Enqueue
      <4> QED BY <1>1, <1>3, <4>1, <4>2, StartedIsTrue
    <3> QED BY <3>1, <3>2
  <2> QED BY <1>1, <1>3, <2>1, PureReturn
<1>4. CASE executions' # executions
  <2> DEFINE submit == call[c].submit
             new == [executions[e] EXCEPT !.job = "live", !.submit = submit]
  <2>1. /\ executions' = [executions EXCEPT ![e].job = "live", ![e].submit = call[c].submit]
        /\ InFlight(e) /\ Accept(c)
    BY <1>4 DEF Enqueue
  <2>2. executions[e] \in Row /\ submit \in BOOLEAN
    BY <1>1, RowTyped DEF Call
  <2>3. executions' = [executions EXCEPT ![e] = new]
    BY <1>1, <2>1 DEF TypeOK, Ids
  <2> HIDE DEF submit
  <2>4. /\ new \in Row /\ new.key = executions[e].key /\ new.selection = executions[e].selection
        /\ new.profile = executions[e].profile /\ new.limit = executions[e].limit
        /\ new.automated = executions[e].automated /\ new.retries = executions[e].retries
        /\ new.job = "live" /\ new.submit = submit
    BY <2>2 DEF Row, JobStatus
  <2> HIDE DEF new
  <2>5. /\ executions' \in Seq(Row) /\ Len(executions') <= MaxExecutions
        /\ executions'[e] = new /\ RowsKept
    <3>1. new.retries = 0 => Counts(e)
      BY <2>1, <2>4 DEF Counts
    <3> HIDE DEF e
    <3> QED BY <1>1, <2>3, <2>4, <3>1, RowWritten
  <2>6. reply' \in ReplyType /\ ReplyInv'
    BY <1>1, <2>1, <2>4, <2>5, StartedIsTrue DEF submit
  <2>7. /\ call' \in [Callers -> Call] /\ \A b \in Callers \ {c} : call'[b] = call[b]
        /\ CallerInv(c)' /\ call'[c].at \notin Creating /\ ~call'[c].tick
    BY <1>1, Returned
  <2>8. TypeOK' /\ OthersKept(c)
    BY <1>1, <2>5, <2>6, <2>7 DEF TypeOK, ReplyType, OthersKept, LocksKept
  <2> QED BY <2>5, <2>6, <2>7, <2>8, CallerStep
<1> QED BY <1>3, <1>4

\* A step that no caller takes.
LEMMA ElsewhereStep ==
  ASSUME IInv, TypeOK', RowsKept, UNCHANGED <<call, keyLock, capLock>>, ReplyInv'
  PROVE  IInv'
<1>1. TypeOK
  BY DEF IInv
<1>2. ASSUME NEW b \in Callers PROVE CallerInv(b)'
  BY <1>1, <1>2, CallerKept DEF IInv, LocksKept
<1>3. RoomInv'
  BY DEF IInv, RoomInv, Creators, RowsKept
<1>4. TickInv'
  <2> SUFFICES ASSUME OneScheduler
               PROVE  /\ Cardinality(AutoCounted)' <= ModuleCap
                      /\ \A b \in Callers : call[b].tick =>
                            Cardinality(AutoCounted)' + call[b].budget <= ModuleCap
    BY DEF TickInv
  <2>1. /\ Cardinality(AutoCounted)' \in Nat /\ Cardinality(AutoCounted) \in Nat
        /\ Cardinality(AutoCounted)' <= Cardinality(AutoCounted)
    BY RowsStep
  <2>2. ModuleCap \in Nat /\ \A b \in Callers : call[b].budget \in Nat
    BY <1>1, AdmissionAssumption DEF TypeOK, Call
  <2> QED BY <2>1, <2>2 DEF IInv, TickInv
<1> QED BY <1>2, <1>3, <1>4, RowsStep DEF IInv

LEMMA BecomesStep ==
  ASSUME IInv, NEW e \in Ids, NEW status \in Status, NEW job \in JobStatus,
         Becomes(e, status, job), status # "ended" => InFlight(e) \/ status = executions[e].status
  PROVE  IInv'
<1> DEFINE new == [executions[e] EXCEPT !.status = status, !.job = job]
<1>1. TypeOK /\ Silent /\ UNCHANGED <<profile, call, keyLock, capLock, edits>>
  BY DEF IInv, Becomes
<1>2. executions[e] \in Row
  BY <1>1, RowTyped
<1>3. executions' = [executions EXCEPT ![e] = new]
  BY <1>1 DEF Becomes, TypeOK, Ids
<1>4. /\ new \in Row /\ new.key = executions[e].key /\ new.selection = executions[e].selection
      /\ new.profile = executions[e].profile /\ new.limit = executions[e].limit
      /\ new.automated = executions[e].automated /\ new.retries = executions[e].retries
      /\ new.status = status
  BY <1>2 DEF Row
<1> HIDE DEF new
<1>5. new.retries = 0 /\ new.status \in {"pending", "active"} => Counts(e)
  BY <1>4 DEF Counts, InFlight
<1>6. executions' \in Seq(Row) /\ Len(executions') <= MaxExecutions /\ RowsKept
  BY <1>1, <1>3, <1>4, <1>5, RowWritten
<1>7. TypeOK' /\ ReplyInv'
  BY <1>1, <1>6, SilentIsTrue DEF TypeOK, ReplyType
<1> QED BY <1>1, <1>6, <1>7, ElsewhereStep

\* A retried execution counts no more, for it was not admitted again.
LEMMA RetryStep ==
  ASSUME IInv, NEW e \in Ids, Retry(e)
  PROVE  IInv'
<1> DEFINE retries == executions[e].retries + 1
           new == [executions[e] EXCEPT !.status = "active", !.retries = retries]
<1>1. TypeOK /\ Silent /\ UNCHANGED <<profile, call, keyLock, capLock, edits>>
  BY DEF IInv, Retry
<1>2. executions[e] \in Row
  BY <1>1, RowTyped
<1>3. executions' = [executions EXCEPT ![e] = new]
  BY <1>1 DEF Retry, TypeOK, Ids
<1>4. retries \in 0..MaxRetries /\ retries # 0
  BY <1>2, AdmissionAssumption DEF Retry, Row
<1> HIDE DEF retries
<1>5. /\ new \in Row /\ new.key = executions[e].key /\ new.selection = executions[e].selection
      /\ new.profile = executions[e].profile /\ new.limit = executions[e].limit
      /\ new.automated = executions[e].automated /\ new.retries = retries
  BY <1>2, <1>4 DEF Row, Status
<1> HIDE DEF new
<1>6. executions' \in Seq(Row) /\ Len(executions') <= MaxExecutions /\ RowsKept
  BY <1>1, <1>3, <1>4, <1>5, RowWritten
<1>7. TypeOK' /\ ReplyInv'
  BY <1>1, <1>6, SilentIsTrue DEF TypeOK, ReplyType
<1> QED BY <1>1, <1>6, <1>7, ElsewhereStep

LEMMA ProfileStep ==
  ASSUME IInv, NEW p \in Profiles, NEW limit \in Limits, NEW default \in BOOLEAN,
         WriteProfile(p, limit, default) \/ DeleteProfile(p)
  PROVE  IInv'
<1>1. TypeOK /\ Silent /\ UNCHANGED <<executions, call, keyLock, capLock>>
  BY DEF IInv, WriteProfile, DeleteProfile
<1>2. profile' \in [Profiles -> ProfileRow]
  <2>1. [state |-> "present", limit |-> limit, default |-> default] \in ProfileRow
    BY DEF ProfileRow
  <2>2. [AbsentProfile EXCEPT !.state = "deleted"] \in ProfileRow
    BY AdmissionAssumption DEF AbsentProfile, ProfileRow, Unlimited
  <2> QED BY <1>1, <2>1, <2>2 DEF WriteProfile, DeleteProfile, TypeOK
<1>3. edits' \in 0..MaxEdits
  BY <1>1, AdmissionAssumption DEF WriteProfile, DeleteProfile, TypeOK
<1>4. TypeOK' /\ ReplyInv'
  BY <1>1, <1>2, <1>3, SilentIsTrue DEF TypeOK, ReplyType
<1>5. RowsKept
  BY <1>1 DEF RowsKept, Ids, Counts, InFlight
<1> QED BY <1>1, <1>4, <1>5, ElsewhereStep

LEMMA ElsewhereHolds ==
  ASSUME IInv, Elsewhere
  PROVE  IInv'
<1>1. ASSUME NEW e \in Ids, Begin(e) \/ SettleJob(e) \/ Conclude(e) \/ Cancel(e)
      PROVE  IInv'
  <2>1. executions[e].status \in Status /\ executions[e].job \in JobStatus
    BY RowTyped DEF IInv, Row
  <2>2. {"active", "ended"} \subseteq Status /\ {"live", "completed", "lost"} \subseteq JobStatus
    BY DEF Status, JobStatus
  <2>3. CASE Begin(e)
    BY <2>2, <2>3, BecomesStep DEF Begin, InFlight
  <2>4. CASE SettleJob(e)
    BY <2>1, <2>2, <2>4, BecomesStep DEF SettleJob
  <2>5. CASE Conclude(e)
    BY <2>1, <2>2, <2>5, BecomesStep DEF Conclude
  <2>6. CASE Cancel(e)
    BY <2>1, <2>2, <2>6, BecomesStep DEF Cancel
  <2> QED BY <1>1, <2>3, <2>4, <2>5, <2>6
<1>2. ASSUME NEW p \in Profiles, DeleteProfile(p)
      PROVE  IInv'
  BY <1>2, ProfileStep, AdmissionAssumption
<1> QED BY <1>1, <1>2, RetryStep, ProfileStep DEF Elsewhere

----------------------------------------------------------------------------
(* The insertion                                                            *)

Inserted(c) == executions' = Append(executions, NewRow(c))

\* The rows after an insertion: the ones that were, and the new one.
LEMMA InsertedRows ==
  ASSUME IInv, NEW c \in Callers, Inserted(c), call[c].at = "insert"
  PROVE  LET n == Len(executions) + 1
         IN /\ executions' \in Seq(Row) /\ Len(executions') = n /\ n <= MaxExecutions
            /\ n \notin Ids /\ Ids' = Ids \cup {n} /\ Ids = 1..Len(executions)
            /\ executions'[n] = NewRow(c)
            /\ \A e \in Ids : executions'[e] = executions[e]
<1> DEFINE n == Len(executions) + 1
<1>1. /\ TypeOK /\ executions \in Seq(Row) /\ Len(executions) \in Nat
      /\ Ids = 1..Len(executions) /\ call[c] \in Call
  BY DEF IInv, TypeOK, Ids
<1>2. NewRow(c) \in Row
  <2> DEFINE job == IF call[c].tick THEN "live" ELSE "none"
  <2>1. job \in JobStatus /\ 0 \in 0..MaxRetries
    BY AdmissionAssumption DEF JobStatus
  <2> HIDE DEF job
  <2>2. NewRow(c) = [key |-> call[c].key, selection |-> call[c].selection,
                     profile |-> call[c].profile, limit |-> call[c].limit,
                     automated |-> call[c].tick, status |-> "pending", retries |-> 0,
                     job |-> job, submit |-> call[c].tick]
    BY DEF NewRow, job
  <2> QED BY <1>1, <2>1, <2>2 DEF Call, Row, Status
<1>3. n <= MaxExecutions
  <2>1. c \in Creators /\ IsFiniteSet(Creators) /\ Cardinality(Creators) \in Nat
    BY FiniteCreators DEF Creators, Creating
  <2>2. Cardinality(Creators) # 0
    BY <2>1, FS_EmptySet
  <2> QED BY <1>1, <2>1, <2>2, AdmissionAssumption DEF IInv, RoomInv
<1>4. /\ executions' \in Seq(Row) /\ Len(executions') = n
      /\ executions'[n] = NewRow(c)
      /\ \A e \in 1..Len(executions) : executions'[e] = executions[e]
  BY <1>1, <1>2 DEF Inserted
<1>5. Ids' = 1..n
  BY <1>4 DEF Ids
<1> QED BY <1>1, <1>3, <1>4, <1>5

\* The caller that inserts holds the locks on its key and on its profile, so
\* nobody else's knowledge is touched by the new row.
LEMMA InsertedOthers ==
  ASSUME IInv, NEW c \in Callers, Inserted(c), call[c].at = "insert",
         NEW b \in Callers \ {c}, call'[b] = call[b], LocksKept(b)
  PROVE  CallerInv(b)'
<1> DEFINE n == Len(executions) + 1
<1>1. /\ TypeOK /\ CallerInv(b) /\ CallerInv(c) /\ call[b] \in Call
  BY DEF IInv, TypeOK
<1>2. /\ Ids' = Ids \cup {n} /\ executions'[n] = NewRow(c)
      /\ \A e \in Ids : executions'[e] = executions[e]
  BY InsertedRows
<1>3. /\ NewRow(c).key = call[c].key /\ NewRow(c).profile = call[c].profile
      /\ NewRow(c).limit = call[c].limit
  BY DEF NewRow
<1>4. KnowsExecution(b)' /\ KnowsProfile(b)' /\ IsTick(b)'
  BY <1>1, <1>2 DEF CallerInv, KnowsExecution, KnowsProfile, IsTick
<1>5. HoldsKey(b)'
  <2> SUFFICES ASSUME call[b].at \in Transaction, call[b].key # NoKey
               PROVE  keyLock'[call[b].key] = b /\ Free(call[b].key)'
    BY <1>1 DEF CallerInv, HoldsKey, Free
  <2>1. call[b].key \in Keys /\ keyLock[call[b].key] = b /\ Free(call[b].key)
    BY <1>1 DEF CallerInv, HoldsKey, Call
  <2>2. call[c].key # call[b].key
    BY <1>1, <2>1 DEF CallerInv, HoldsKey, Transaction
  <2> QED BY <1>2, <1>3, <2>1, <2>2 DEF LocksKept, Free
<1>6. HoldsCap(b)'
  <2> SUFFICES ASSUME call[b].at = "insert", call[b].limit # Unlimited
               PROVE  /\ capLock'[call[b].profile] = b
                      /\ Cardinality(Counted(call[b].profile)') < call[b].limit
    BY DEF HoldsCap
  <2> DEFINE p == call[b].profile
  <2>1. /\ p \in Profiles /\ capLock[p] = b
        /\ Cardinality(Counted(p)) < call[b].limit
    BY <1>1 DEF CallerInv, KnowsProfile, HoldsCap
  <2>2. call[c].profile # p \/ call[c].limit = Unlimited
    BY <1>1, <2>1 DEF CallerInv, HoldsCap
  <2>3. Counted(call[b].profile)' = Counted(p)
    BY <1>2, <1>3, <2>2 DEF Counted, Counts, InFlight
  <2> QED BY <2>1, <2>3 DEF LocksKept
<1> QED BY <1>4, <1>5, <1>6 DEF CallerInv

\* The new execution is within the limit that it pinned.
LEMMA InsertedWithin ==
  ASSUME IInv, NEW c \in Callers, Inserted(c), call[c].at = "insert"
  PROVE  AdmittedWithinPinnedLimit'
<1> DEFINE n == Len(executions) + 1
           p == call[c].profile
<1>1. /\ TypeOK /\ CallerInv(c) /\ call[c] \in Call /\ Len(executions) \in Nat
  BY DEF IInv, TypeOK
<1>2. /\ n \notin Ids /\ Ids' = Ids \cup {n} /\ executions'[n] = NewRow(c)
      /\ Ids = 1..Len(executions)
      /\ \A e \in Ids : executions'[e] = executions[e]
  BY InsertedRows
<1>3. /\ NewRow(c).profile = p /\ NewRow(c).limit = call[c].limit
  BY DEF NewRow
<1>4. ASSUME NEW e \in Ids, executions[e].limit # Unlimited
      PROVE  Cardinality(AdmittedUpTo(e)') <= executions[e].limit
  <2>1. AdmittedUpTo(e)' = AdmittedUpTo(e)
    BY <1>1, <1>2 DEF AdmittedUpTo, InFlight
  <2> QED BY <1>4, <2>1 DEF IInv, AdmittedWithinPinnedLimit
<1>5. ASSUME call[c].limit # Unlimited
      PROVE  Cardinality({d \in 1..n : /\ executions'[d].profile = executions'[n].profile
                                       /\ executions'[d].limit # Unlimited
                                       /\ executions'[d].retries = 0
                                       /\ InFlight(d)'}) <= call[c].limit
  <2> DEFINE admitted == {d \in 1..n : /\ executions'[d].profile = executions'[n].profile
                                       /\ executions'[d].limit # Unlimited
                                       /\ executions'[d].retries = 0
                                       /\ InFlight(d)'}
  <2>1. admitted \subseteq Counted(p) \cup {n}
    BY <1>1, <1>2, <1>3 DEF Counted, Counts, InFlight
  <2>2. /\ Cardinality(Counted(p)) < call[c].limit /\ call[c].limit \in Nat
        /\ IsFiniteSet(Counted(p)) /\ Cardinality(Counted(p)) \in Nat
    BY <1>1, <1>5, FiniteIds, AdmissionAssumption DEF CallerInv, HoldsCap, Counted, Call
  <2>3. /\ IsFiniteSet(Counted(p) \cup {n}) /\ Cardinality(Counted(p) \cup {n}) \in Nat
        /\ Cardinality(Counted(p) \cup {n}) <= Cardinality(Counted(p)) + 1
    BY <2>2, AddOne
  <2> HIDE DEF admitted
  <2>4. Cardinality(admitted) \in Nat /\ Cardinality(admitted) <= Cardinality(Counted(p) \cup {n})
    BY <2>1, <2>3, FS_Subset, FS_CardinalityType
  <2>5. Cardinality(admitted) <= call[c].limit
    BY <2>2, <2>3, <2>4
  <2> QED BY <2>5 DEF admitted
<1> QED BY <1>2, <1>3, <1>4, <1>5 DEF AdmittedWithinPinnedLimit, AdmittedUpTo

\* A tick pays for its execution from its budget, and no other scheduler ticks.
LEMMA InsertedTick ==
  ASSUME IInv, NEW c \in Callers, Inserted(c), call[c].at = "insert",
         \A b \in Callers \ {c} : call'[b] = call[b],
         call'[c].tick => call[c].tick /\ call'[c].budget = call[c].budget - 1
  PROVE  TickInv'
<1> DEFINE n == Len(executions) + 1
<1>1. /\ TypeOK /\ IsTick(c) /\ call[c] \in Call
  BY DEF IInv, TypeOK, CallerInv
<1>2. /\ Ids' = Ids \cup {n} /\ executions'[n] = NewRow(c)
      /\ \A e \in Ids : executions'[e] = executions[e]
  BY InsertedRows
<1>3. NewRow(c).automated = call[c].tick
  BY DEF NewRow
<1>4. IsFiniteSet(AutoCounted) /\ Cardinality(AutoCounted) \in Nat /\ ModuleCap \in Nat
  BY <1>1, FiniteIds, AdmissionAssumption DEF AutoCounted
<1> SUFFICES ASSUME OneScheduler
             PROVE  /\ Cardinality(AutoCounted') <= ModuleCap
                    /\ \A b \in Callers : call'[b].tick =>
                          Cardinality(AutoCounted') + call'[b].budget <= ModuleCap
  BY DEF TickInv
<1>5. /\ Cardinality(AutoCounted) <= ModuleCap
      /\ \A b \in Callers : call[b].tick =>
            Cardinality(AutoCounted) + call[b].budget <= ModuleCap
  BY DEF IInv, TickInv
<1>6. CASE call[c].tick
  <2>1. call[c].budget \in Nat /\ call[c].budget > 0
    BY <1>1, <1>6 DEF IsTick, Call
  <2>2. AutoCounted' \subseteq AutoCounted \cup {n}
    BY <1>2 DEF AutoCounted, Automated, Counts, InFlight
  <2>3. /\ IsFiniteSet(AutoCounted \cup {n}) /\ Cardinality(AutoCounted \cup {n}) \in Nat
        /\ Cardinality(AutoCounted \cup {n}) <= Cardinality(AutoCounted) + 1
    BY <1>4, AddOne
  <2>4. /\ Cardinality(AutoCounted') \in Nat
        /\ Cardinality(AutoCounted') <= Cardinality(AutoCounted \cup {n})
    BY <2>2, <2>3, FS_Subset, FS_CardinalityType
  <2>5. Cardinality(AutoCounted') + call[c].budget <= ModuleCap + 1
    BY <1>4, <1>5, <1>6, <2>1, <2>3, <2>4
  <2>6. \A b \in Callers \ {c} : ~call'[b].tick
    BY <1>1, <1>6 DEF OneScheduler, IInv, CallerInv, IsTick
  <2> QED BY <1>4, <2>1, <2>4, <2>5, <2>6
<1>7. CASE ~call[c].tick
  <2>1. AutoCounted' = AutoCounted
    BY <1>1, <1>2, <1>3, <1>7 DEF AutoCounted, Automated, Counts, InFlight, Call
  <2> QED BY <1>5, <1>7, <2>1
<1> QED BY <1>6, <1>7

LEMMA InsertStep ==
  ASSUME IInv, NEW c \in Callers, Insert(c)
  PROVE  IInv'
<1>1. /\ TypeOK /\ CallerInv(c) /\ call[c] \in Call /\ call[c].at = "insert"
      /\ Unlock(c) /\ UNCHANGED <<profile, edits>>
  BY DEF IInv, TypeOK, Insert
<1>2. CASE executions' = executions
  <2>1. Reply(c, "error", Holder(call[c].key)) /\ Return(c)
    <3>1. executions # Append(executions, NewRow(c))
      BY <1>1 DEF TypeOK
    <3> QED BY <1>2, <3>1 DEF Insert
  <2>2. Free(call[c].key)
    BY <1>1 DEF CallerInv, HoldsKey, Transaction
  <2> QED BY <1>1, <1>2, <2>1, <2>2, RefusalIsTrue, EndStep
<1>3. CASE executions' # executions
  <2> DEFINE budget == call[c].budget - 1
             pinned == call[c].profile
             chunk == [Idle EXCEPT !.at = "chunk", !.tick = TRUE, !.profile = pinned,
                                   !.budget = budget]
  <2>1. /\ Inserted(c) /\ Silent
        /\ IF call[c].tick THEN call' = [call EXCEPT ![c] = chunk] ELSE Return(c)
    BY <1>3 DEF Insert, Inserted
  <2>2. /\ call' \in [Callers -> Call] /\ \A b \in Callers \ {c} : call'[b] = call[b]
        /\ call'[c].at \notin Creating /\ CallerInv(c)'
        /\ call'[c].tick => call[c].tick /\ call'[c].budget = call[c].budget - 1
    <3>1. CASE call[c].tick
      <4>1. budget \in Nat /\ pinned \in Profiles \cup {NoProfile} /\ c \in Schedulers
        BY <1>1, <3>1 DEF CallerInv, IsTick, Call
      <4> HIDE DEF budget, pinned
      <4>2. /\ chunk \in Call /\ chunk.at = "chunk" /\ chunk.budget = budget
            /\ chunk.key = NoKey
        <5>1. Idle \in Call /\ Idle.key = NoKey
          BY IdleTyped DEF Idle
        <5> QED BY <4>1, <5>1 DEF Call, Steps
      <4> HIDE DEF chunk
      <4>3. /\ call' \in [Callers -> Call] /\ call'[c] = chunk
            /\ \A b \in Callers \ {c} : call'[b] = call[b]
        BY <1>1, <2>1, <3>1, <4>2, Moved
      <4>4. CallerInv(c)'
        BY <4>1, <4>2, <4>3 DEF CallerInv, KnowsExecution, KnowsProfile, HoldsKey, HoldsCap,
                                IsTick, Transaction, TickSteps
      <4> QED BY <3>1, <4>2, <4>3, <4>4 DEF Creating, budget
    <3>2. CASE ~call[c].tick
      BY <1>1, <2>1, <3>2, Returned
    <3> QED BY <3>1, <3>2
  <2>3. ASSUME NEW b \in Callers PROVE CallerInv(b)'
    BY <1>1, <2>1, <2>2, <2>3, Unlocked, InsertedOthers
  <2>4. /\ executions' \in Seq(Row) /\ Len(executions') = Len(executions) + 1
        /\ Len(executions') <= MaxExecutions
    BY <1>1, <2>1, InsertedRows
  <2>5. TypeOK' /\ ReplyInv'
    BY <1>1, <2>1, <2>2, <2>4, Unlocked, SilentIsTrue DEF TypeOK, ReplyType
  <2>6. KeyInv'
    <3> DEFINE n == Len(executions) + 1
    <3>1. /\ Ids' = Ids \cup {n} /\ executions'[n] = NewRow(c)
          /\ \A e \in Ids : executions'[e] = executions[e]
      BY <1>1, <2>1, InsertedRows
    <3>2. NewRow(c).key = call[c].key /\ Free(call[c].key)
      BY <1>1 DEF NewRow, CallerInv, HoldsKey, Transaction
    <3> QED BY <3>1, <3>2 DEF KeyInv, Free, IInv
  <2>7. RoomInv'
    <3>1. Creators' = Creators \ {c} /\ c \in Creators
      BY <1>1, <2>2 DEF Creators, Creating
    <3>2. Cardinality(Creators') = Cardinality(Creators) - 1 /\ Cardinality(Creators) \in Nat
      BY <3>1, FiniteCreators, FS_RemoveElement
    <3> QED BY <1>1, <2>4, <3>2, AdmissionAssumption DEF IInv, RoomInv, TypeOK
  <2>8. AdmittedWithinPinnedLimit' /\ TickInv'
    BY <1>1, <2>1, <2>2, InsertedWithin, InsertedTick
  <2> QED BY <2>3, <2>5, <2>6, <2>7, <2>8 DEF IInv
<1> QED BY <1>2, <1>3

----------------------------------------------------------------------------
(* Theorems                                                                 *)

LEMMA InitHolds == Init => IInv
<1> SUFFICES ASSUME Init PROVE IInv
  OBVIOUS
<1>1. executions = <<>> /\ Ids = {} /\ Len(executions) = 0
  BY DEF Init, Ids
<1>2. \A c \in Callers : call[c] = Idle
  BY DEF Init
<1>3. TypeOK
  <2>1. profile \in [Profiles -> ProfileRow]
    <3>1. AbsentProfile \in ProfileRow
      BY AdmissionAssumption DEF AbsentProfile, ProfileRow, Unlimited
    <3> QED BY <3>1 DEF Init
  <2>2. reply \in ReplyType
    BY AdmissionAssumption DEF Init, NoReply, ReplyType, Verdict, Selections
  <2> QED BY <1>1, <2>1, <2>2, IdleTyped, AdmissionAssumption DEF Init, TypeOK, ReplyType
<1>4. ASSUME NEW c \in Callers PROVE CallerInv(c)
  BY <1>2 DEF CallerInv, KnowsExecution, KnowsProfile, HoldsKey, HoldsCap, IsTick, Idle,
              Transaction
<1>5. KeyInv /\ AdmittedWithinPinnedLimit
  BY <1>1 DEF KeyInv, AdmittedWithinPinnedLimit
<1>6. RoomInv
  <2>1. Creators = {}
    BY <1>2 DEF Creators, Creating, Idle
  <2> QED BY <1>1, <2>1, FS_EmptySet, AdmissionAssumption DEF RoomInv
<1>7. ReplyInv
  BY DEF Init, ReplyInv, StartedAsAnswered, NoReply
<1>8. TickInv
  <2>1. AutoCounted = {}
    BY <1>1 DEF AutoCounted
  <2>2. \A c \in Callers : ~call[c].tick
    BY <1>2 DEF Idle
  <2> QED BY <2>1, <2>2, FS_EmptySet, AdmissionAssumption DEF TickInv
<1> QED BY <1>3, <1>4, <1>5, <1>6, <1>7, <1>8 DEF IInv

LEMMA NextHolds == IInv /\ [Next]_vars => IInv'
<1> SUFFICES ASSUME IInv, [Next]_vars PROVE IInv'
  OBVIOUS
<1>1. CASE Elsewhere
  BY <1>1, ElsewhereHolds
<1>2. ASSUME NEW c \in Callers, Serve(c) PROVE IInv'
  BY <1>2, CreateStep, StartStep, TickBeginStep, LoseStep DEF Serve
<1>3. ASSUME NEW c \in Callers, Advance(c) PROVE IInv'
  BY <1>3, ReadStep, ValidateStep, ResolveStep, InsertStep, TickStep, StartJobStep, EnqueueStep
     DEF Advance
<1>4. ASSUME NEW c \in Callers, Wait(c) PROVE IInv'
  BY <1>4, EnterKeyStep, EnterCapStep DEF Wait
<1>5. CASE UNCHANGED vars
  <2>1. TypeOK' /\ ReplyInv' /\ RowsKept /\ UNCHANGED <<call, keyLock, capLock>>
    BY <1>5 DEF vars, IInv, TypeOK, ReplyInv, StartedAsAnswered, RowsKept, Ids, Counts,
                InFlight
  <2> QED BY <2>1, ElsewhereStep
<1> QED BY <1>1, <1>2, <1>3, <1>4, <1>5 DEF Next

\* The inductive invariant of admission: what a caller holds and knows at each of
\* its steps, and what that says of the rows and of the answers.
THEOREM AdmissionInvariant == Spec => []IInv
BY InitHolds, NextHolds, PTL DEF Spec

\* Every state of the admission code is well-typed.
THEOREM AdmissionTypes == Spec => []TypeOK
<1>1. IInv => TypeOK
  BY DEF IInv
<1> QED BY <1>1, AdmissionInvariant, PTL

\* A key is one execution, and what a request is told of it is true, however many
\* copies of the request are served at once (create_execution_internal).
THEOREM OneExecutionPerKey == Spec => []KeyIsOneExecution
<1>1. IInv => KeyIsOneExecution
  BY DEF IInv, KeyInv, ReplyInv, KeyIsOneExecution
<1> QED BY <1>1, AdmissionInvariant, PTL

\* No execution was admitted beyond the limit of the profile revision that it
\* pinned (create_execution_internal).
THEOREM WithinPinnedLimit == Spec => []AdmittedWithinPinnedLimit
<1>1. IInv => AdmittedWithinPinnedLimit
  BY DEF IInv
<1> QED BY <1>1, AdmissionInvariant, PTL

\* An accepted start named the options of the execution's job
\* (enqueue_job_with_options).
THEOREM StartsAreTrue == Spec => []StartedAsAnswered
<1>1. IInv => StartedAsAnswered
  BY DEF IInv, ReplyInv
<1> QED BY <1>1, AdmissionInvariant, PTL

\* The ticks of a single scheduler keep to the project's limit although they
\* count without a lock (schedule_project_executions).
THEOREM TicksKeepCap ==
  ASSUME OneScheduler
  PROVE  Spec => []TicksWithinModuleCap
<1>1. IInv => TicksWithinModuleCap
  <2> SUFFICES ASSUME IInv PROVE TicksWithinModuleCap
    OBVIOUS
  <2>1. AutoCounted = {e \in Ids : /\ Automated(e) /\ InFlight(e)
                                   /\ executions[e].retries = 0}
    BY DEF AutoCounted, Counts
  <2> QED BY <2>1 DEF TicksWithinModuleCap, IInv, TickInv
<1> QED BY <1>1, AdmissionInvariant, PTL
=============================================================================
