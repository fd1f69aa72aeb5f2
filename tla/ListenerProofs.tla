--------------------------- MODULE ListenerProofs ---------------------------
(* Theorems about ListenerNegotiation for every value of its constants. *)
EXTENDS ListenerNegotiation, FiniteSetTheorems, TLAPS

USE ListenerAssumption, IncomingAssumption

\* NextStage stays within handleOffer.
LEMMA NextStageType ==
    ASSUME NEW s \in Stages
    PROVE  NextStage[s] \in Stages \cup {"publish"}
<1>1. s \in {"parse", "credentials", "newConn", "gather", "inline",
             "identity", "answer", "trickle"}
    BY DEF Stages, NextStage
<1>2. QED
    BY <1>1 DEF Stages, NextStage

LEMMA UnregisteredType ==
    ASSUME TypeOK, NEW n \in Neg
    PROVE  Unregistered(n) \in [Key -> Neg \cup {NoNeg}]
BY DEF Unregistered, TypeOK

LEMMA TypeInit == Init => TypeOK
BY DEF Init, TypeOK, Calls, NoCode, Codes, Locations, OnceStates, ConnStates

LEMMA TypeStep == TypeOK /\ [Next]_vars => TypeOK'
<1> SUFFICES ASSUME TypeOK, [Next]_vars
             PROVE  TypeOK'
    OBVIOUS
<1> USE DEF shutdown, registry, ownership, offering, transport, history
<1>1. ASSUME NEW k \in Key, Admit(k)
      PROVE  TypeOK'
  <2>1. PICK n \in Neg :
            /\ owner' = [owner EXCEPT ![k] = n]
            /\ key' = [key EXCEPT ![n] = k]
            /\ sem' = sem \cup {n}
            /\ pc' = [pc EXCEPT ![n] = "parse"]
    BY <1>1 DEF Admit
  <2>2. "parse" \in Locations
    BY DEF Locations, Running, Unfinished, Handling, Stages, NextStage
  <2>3. QED
    BY <1>1, <2>1, <2>2 DEF Admit, TypeOK
<1>2. ASSUME NEW t \in Caller, NEW k \in Key, NEW sig \in Incoming,
             Route(t, k, sig)
      PROVE  TypeOK'
  <2>1. [at |-> "handle", neg |-> owner[k], sig |-> sig] \in Calls
    BY <1>2 DEF Route, TypeOK, Calls
  <2>2. QED
    BY <1>2, <2>1 DEF Route, TypeOK
<1>3. ASSUME NEW t \in Caller, CallStep(t)
      PROVE  TypeOK'
  <2> DEFINE n == call[t].neg
  <2>0. call[t] \in Calls /\ NoCall \in Calls
    BY DEF TypeOK, Calls
  <2>1. CASE HandleSignal(t)
    <3>1. CASE Return(t)
      BY <2>0, <2>1, <3>1 DEF HandleSignal, Return, TypeOK
    <3>2. CASE CallAt(t, Branch(call[t].sig)) /\ Branch(call[t].sig) # "refuse"
      <4>1. [at |-> Branch(call[t].sig), neg |-> n, sig |-> call[t].sig]
              \in Calls
        BY <2>0, <2>1, <3>2
           DEF HandleSignal, Branch, Calls, Signals, Candidates, NoCall
      <4>2. QED
        BY <2>1, <3>2, <4>1 DEF HandleSignal, CallAt, TypeOK
    <3>3. QED
      BY <2>1, <3>1, <3>2 DEF HandleSignal
  <2>2. CASE HandleError(t)
    <3>1. n \in Neg /\ call[t].sig = "error"
      BY <2>0, <2>2 DEF HandleError, Calls, NoCall
    <3>2. \A l \in {"connError", "closeOwner"} :
            [at |-> l, neg |-> n, sig |-> call[t].sig] \in Calls
      BY <3>1 DEF Calls
    <3>3. QED
      BY <2>2, <3>1, <3>2 DEF HandleError, CallAt, TypeOK
  <2>3. CASE OwnerClosed(t)
    BY <2>0, <2>3 DEF OwnerClosed, Return, TypeOK
  <2>4. CASE ConnError(t)
    <3>1. call[t].neg \in Neg
      BY <2>0, <2>4 DEF ConnError, Calls, NoCall
    <3>2. conn' \in [Neg -> ConnStates]
      BY <2>4, <3>1 DEF ConnError, TypeOK, ConnStates
    <3>3. call' \in [Caller -> Calls] /\ peerCanceled' \in [Neg -> BOOLEAN]
      BY <2>0, <2>4, <3>1 DEF ConnError, Return, TypeOK
    <3>4. QED
      BY <2>4, <3>2, <3>3 DEF ConnError, TypeOK
  <2>5. CASE HandleCandidate(t)
    <3>1. n \in Neg /\ call[t].sig \in Candidates
      BY <2>0, <2>5 DEF HandleCandidate, Calls, NoCall
    <3>2. [at |-> "connCandidate", neg |-> n, sig |-> call[t].sig] \in Calls
      BY <3>1 DEF Calls
    <3>3. call' \in [Caller -> Calls]
      BY <2>0, <2>5, <3>2 DEF HandleCandidate, Return, CallAt, TypeOK
    <3>4. Append(deferred[n], call[t].sig) \in Seq(Candidates)
      BY <3>1 DEF TypeOK
    <3>5. deferred' \in [Neg -> Seq(Candidates)]
      <4>1. \/ deferred' = deferred
            \/ deferred' = [deferred EXCEPT ![n] =
                              Append(deferred[n], call[t].sig)]
        BY <2>5 DEF HandleCandidate
      <4>2. deferred \in [Neg -> Seq(Candidates)]
        BY DEF TypeOK
      <4>3. QED
        BY <3>1, <3>4, <4>1, <4>2
    <3>6. QED
      BY <2>5, <3>1, <3>3, <3>5 DEF HandleCandidate, TypeOK
  <2>6. CASE ConnCandidate(t)
    BY <2>0, <2>6 DEF ConnCandidate, Return, TypeOK
  <2>7. QED
    BY <1>3, <2>1, <2>2, <2>3, <2>4, <2>5, <2>6 DEF CallStep
<1>4. ASSUME NEW n \in Neg, Negotiate(n)
      PROVE  TypeOK'
  <2> USE DEF At, Unwind
  <2>0. Locations = {"parse", "credentials", "newConn", "gather", "inline",
          "identity", "answer", "trickle", "publish", "replay", "closeConn",
          "await", "start", "channels", "deliver", "closeSelf", "report",
          "reply", "finish", "unregister", "release", "idle", "done"}
    BY DEF Locations, Running, Unfinished, Handling, Finalising, Stages,
           NextStage
  <2>1. CASE StagePass(n)
    <3>1. NextStage[pc[n]] \in Locations
      BY <2>1, NextStageType DEF StagePass, Locations, Running, Unfinished,
           Handling
    <3>2. QED
      BY <2>1, <3>1 DEF StagePass, TypeOK, ConnStates
  <2>2. CASE StageFail(n)
    BY <2>0, <2>2 DEF StageFail, TypeOK, Codes
  <2>3. CASE Publish(n)
    <3>1. CASE MayPublish(n)
      <4>1. /\ backlog' = [backlog EXCEPT ![n] = deferred[n]]
            /\ deferred' = [deferred EXCEPT ![n] = <<>>]
        BY <2>3, <3>1 DEF Publish, ToReplay
      <4>2. /\ backlog' \in [Neg -> Seq(Candidates)]
            /\ deferred' \in [Neg -> Seq(Candidates)]
        BY <4>1 DEF TypeOK
      <4>3. QED
        BY <2>0, <2>3, <3>1, <4>2 DEF Publish, TypeOK
    <3>2. CASE ~MayPublish(n)
      BY <2>0, <2>3, <3>2 DEF Publish, TypeOK
    <3>3. QED
      BY <3>1, <3>2
  <2>4. CASE Replay(n)
    BY <2>0, <2>4 DEF Replay, TypeOK
  <2>5. CASE Finalise(n) \/ CandidateReceived(n) \/ TransportsStarted(n)
             \/ ChannelsReady(n) \/ Accept(n)
    BY <2>0, <2>5 DEF Finalise, CandidateReceived, TransportsStarted,
         ChannelsReady, Accept, TypeOK
  <2>6. CASE FinaliseFail(n)
    BY <2>0, <2>6 DEF FinaliseFail, TypeOK, Codes, NoCode
  <2>7. CASE CloseConn(n) \/ CloseSelf(n)
    BY <2>0, <2>7 DEF CloseConn, CloseSelf, TypeOK, ConnStates
  <2>8. CASE Report(n) \/ Replied(n)
    BY <2>0, <2>8 DEF Report, Replied, TypeOK
  <2>9. CASE Finish(n)
    BY <2>0, <2>9 DEF Finish, AfterFinish, TypeOK, Codes, NoCode
  <2>10. CASE Unregister(n)
    BY <2>0, <2>10, UnregisteredType DEF Unregister, TypeOK
  <2>11. CASE Release(n)
    BY <2>0, <2>11 DEF Release, TypeOK
  <2>12. QED
    BY <1>4, <2>1, <2>2, <2>3, <2>4, <2>5, <2>6, <2>7, <2>8, <2>9, <2>10,
       <2>11 DEF Negotiate
<1>5. ASSUME NEW n \in Neg, Expire(n) \/ CancelContext(n)
      PROVE  TypeOK'
    BY <1>5 DEF Expire, CancelContext, TypeOK
<1>6. ASSUME NEW n \in Neg, OwnerCloseStep(n)
      PROVE  TypeOK'
  <2>0. CASE OwnerClose(n)
    BY <2>0 DEF OwnerClose, TypeOK, OnceStates
  <2>1. CASE OwnerClear(n)
    <3>1. deferred' \in [Neg -> Seq(Candidates)] /\ once' \in [Neg -> OnceStates]
      BY <2>1 DEF OwnerClear, AfterClear, TypeOK, OnceStates
    <3>2. QED
      BY <2>1, <3>1 DEF OwnerClear, TypeOK
  <2>2. CASE OwnerUnregister(n)
    BY <2>2, UnregisteredType DEF OwnerUnregister, TypeOK, OnceStates
  <2>3. QED
    BY <1>6, <2>0, <2>1, <2>2 DEF OwnerCloseStep
<1>7. ASSUME NEW n \in Neg, ConnFail(n) \/ ConnCloseStep(n)
      PROVE  TypeOK'
    BY <1>7 DEF ConnFail, ConnCloseStep, ConnClose, ConnOwnerClosed,
         ConnStopped, SetConn, TypeOK, ConnStates
<1>8. ASSUME NEW n \in Neg, TrickleStep(n)
      PROVE  TypeOK'
  <2>1. CASE TrickleSend(n)
    BY <2>1 DEF TrickleSend, TypeOK
  <2>2. CASE TrickleFailed(n)
    BY <2>2 DEF TrickleFailed, TypeOK, ConnStates
  <2>3. QED
    BY <1>8, <2>1, <2>2 DEF TrickleStep
<1>9. CASE SignalingDone \/ Close \/ CloseNext
  <2>1. CASE SignalingDone
    BY <2>1 DEF SignalingDone, TypeOK
  <2>2. CASE Close
    <3>1. toClose' \subseteq Neg
      BY <2>2 DEF Close, TypeOK
    <3>2. QED
      BY <2>2, <3>1 DEF Close, TypeOK
  <2>3. CASE CloseNext
    <3>1. lstAt' \in Neg \cup {NoNeg} /\ toClose' \subseteq Neg
      BY <2>3 DEF CloseNext, TypeOK
    <3>2. lst' \in {"open", "closing", "closed"}
      BY <2>3 DEF CloseNext, TypeOK
    <3>3. QED
      BY <2>3, <3>1, <3>2 DEF CloseNext, TypeOK
  <2>4. QED
    BY <1>9, <2>1, <2>2, <2>3
<1>10. CASE UNCHANGED vars
    BY <1>10 DEF vars, TypeOK
<1>11. QED
    BY <1>1, <1>2, <1>3, <1>4, <1>5, <1>6, <1>7, <1>8, <1>9, <1>10 DEF Next

\* Every variable keeps its type.
THEOREM TypeCorrect == Spec => []TypeOK
BY TypeInit, TypeStep, PTL DEF Spec

-----------------------------------------------------------------------------
(* The registry: who holds a key, and until when.                           *)

\* The map holds an owner under its own key only, and only one that has been
\* allocated.
OwnerHasKey ==
    \A k \in Key : owner[k] # NoNeg =>
        key[owner[k]] = k /\ pc[owner[k]] # "idle"

\* n.finished is set by finish and by nothing else.
FinishedAfterFinish ==
    \A n \in Neg :
        finished[n] <=> pc[n] \in {"unregister", "release", "done"}

\* Whoever is about to remove an owner has seen it both closed and finished.
UnregisterJustified ==
    \A n \in Neg :
        /\ once[n] = "unregister" => finished[n]
        /\ pc[n] = "unregister" => Closed(n)

RegistryInv ==
    /\ TypeOK
    /\ OwnerHasKey
    /\ FinishedAfterFinish
    /\ UnregisterJustified
    /\ KeyReserved
    /\ ClosedOwnerRemoved

LEMMA LocationFacts ==
    /\ Handling = {"parse", "credentials", "newConn", "gather", "inline",
          "identity", "answer", "trickle", "publish", "replay", "closeConn",
          "await", "start", "channels", "deliver"}
    /\ Unfinished = Handling \cup {"closeSelf", "report", "reply", "finish"}
    /\ Locations = Unfinished \cup
          {"unregister", "release", "idle", "done"}
BY DEF Locations, Running, Unfinished, Handling, Finalising, Stages, NextStage

LEMMA RegistryInit == Init => RegistryInv
BY TypeInit, LocationFacts
   DEF Init, RegistryInv, OwnerHasKey, FinishedAfterFinish,
       UnregisterJustified, KeyReserved, ClosedOwnerRemoved

\* A step of handleOffer, n.close or reportError stays within negotiate and
\* leaves the registry alone.
LEMMA NegotiatingStep ==
    ASSUME TypeOK, NEW n \in Neg, Negotiate(n),
           ~Finish(n), ~Unregister(n), ~Release(n)
    PROVE  /\ pc[n] \in Unfinished
           /\ \E l \in Unfinished : pc' = [pc EXCEPT ![n] = l]
           /\ UNCHANGED <<owner, sem, key, once, finished>>
<1> USE DEF At, Unwind, shutdown, registry, ownership
<1> USE LocationFacts
<1>1. CASE StagePass(n)
  <2>1. NextStage[pc[n]] \in Unfinished /\ pc[n] \in Unfinished
    BY <1>1, NextStageType DEF StagePass, Unfinished, Handling
  <2>2. QED
    BY <1>1, <2>1 DEF StagePass
<1>2. CASE StageFail(n)
  <2>1. pc[n] \in Unfinished
    BY <1>2 DEF StageFail, Unfinished, Handling
  <2>2. QED
    BY <1>2, <2>1 DEF StageFail
<1>3. CASE Publish(n) \/ Replay(n) \/ Finalise(n)
  <2>1. CASE Publish(n)
    BY <2>1 DEF Publish
  <2>2. CASE Replay(n)
    BY <2>2 DEF Replay, TypeOK
  <2>3. CASE Finalise(n)
    BY <2>3 DEF Finalise
  <2>4. QED
    BY <1>3, <2>1, <2>2, <2>3
<1>4. CASE CandidateReceived(n) \/ TransportsStarted(n) \/ ChannelsReady(n)
             \/ Accept(n)
  BY <1>4 DEF CandidateReceived, TransportsStarted, ChannelsReady, Accept
<1>5. CASE FinaliseFail(n)
  BY <1>5 DEF FinaliseFail, Finalising
<1>6. CASE CloseConn(n)
  BY <1>6 DEF CloseConn, TypeOK
<1>7. CASE CloseSelf(n) \/ Report(n) \/ Replied(n)
  BY <1>7 DEF CloseSelf, Report, Replied
<1>8. QED
  BY <1>1, <1>2, <1>3, <1>4, <1>5, <1>6, <1>7 DEF Negotiate

\* The variables the registry depends on, and the steps that change none.
registryView == <<owner, sem, key, pc, finished, once>>

Bystanders ==
    \/ \E t \in Caller, k \in Key, sig \in Incoming : Route(t, k, sig)
    \/ \E t \in Caller : CallStep(t)
    \/ \E n \in Neg :
        Expire(n) \/ CancelContext(n) \/ ConnFail(n) \/ ConnCloseStep(n)
        \/ TrickleStep(n)
    \/ SignalingDone \/ Close \/ CloseNext \/ UNCHANGED vars

LEMMA BystanderStep == Bystanders => UNCHANGED registryView
<1> USE DEF registryView, shutdown, registry, ownership, offering, transport
<1>1. ASSUME NEW t \in Caller, CallStep(t)
      PROVE  UNCHANGED registryView
  BY <1>1 DEF CallStep, HandleSignal, HandleError, OwnerClosed, ConnError,
       HandleCandidate, ConnCandidate
<1>2. ASSUME NEW n \in Neg, Expire(n) \/ CancelContext(n)
      PROVE  UNCHANGED registryView
  BY <1>2 DEF Expire, CancelContext
<1>3. ASSUME NEW n \in Neg, ConnFail(n) \/ ConnCloseStep(n) \/ TrickleStep(n)
      PROVE  UNCHANGED registryView
  BY <1>3 DEF ConnFail, ConnCloseStep, ConnClose, ConnOwnerClosed,
       ConnStopped, SetConn, TrickleStep, TrickleSend, TrickleFailed
<1>4. CASE SignalingDone \/ Close \/ CloseNext \/ UNCHANGED vars
  BY <1>4 DEF SignalingDone, Close, CloseNext, vars
<1>5. CASE \E t \in Caller, k \in Key, sig \in Incoming : Route(t, k, sig)
  BY <1>5 DEF Route
<1>6. QED
  BY <1>1, <1>2, <1>3, <1>4, <1>5 DEF Bystanders

LEMMA NextCases ==
    [Next]_vars =>
        \/ Bystanders
        \/ \E k \in Key : Admit(k)
        \/ \E n \in Neg : Negotiate(n) \/ OwnerCloseStep(n)
BY DEF Next, Bystanders

LEMMA RegistryStep == RegistryInv /\ [Next]_vars => RegistryInv'
<1> SUFFICES ASSUME RegistryInv, [Next]_vars
             PROVE  RegistryInv'
    OBVIOUS
<1>0. TypeOK /\ TypeOK'
    BY TypeStep DEF RegistryInv
<1> DEFINE Rest == /\ OwnerHasKey /\ FinishedAfterFinish
                   /\ UnregisterJustified /\ KeyReserved
                   /\ ClosedOwnerRemoved
<1> SUFFICES Rest'
    BY <1>0 DEF RegistryInv
<1> USE DEF RegistryInv, OwnerHasKey, FinishedAfterFinish,
        UnregisterJustified, KeyReserved, ClosedOwnerRemoved, Closed
<1>1. CASE Bystanders
    BY <1>1, BystanderStep DEF registryView
<1>2. ASSUME NEW k \in Key, Admit(k)
      PROVE  Rest'
  <2>1. PICK n \in Neg :
            /\ pc[n] = "idle"
            /\ owner' = [owner EXCEPT ![k] = n]
            /\ key' = [key EXCEPT ![n] = k]
            /\ pc' = [pc EXCEPT ![n] = "parse"]
    BY <1>2 DEF Admit
  <2>2. owner[k] = NoNeg /\ UNCHANGED <<once, finished>>
    BY <1>2 DEF Admit, ownership
  <2>3. QED
    BY <1>0, <2>1, <2>2, LocationFacts DEF TypeOK
<1>3. ASSUME NEW n \in Neg, Negotiate(n),
             ~Finish(n), ~Unregister(n), ~Release(n)
      PROVE  Rest'
  <2>1. PICK l \in Unfinished : pc' = [pc EXCEPT ![n] = l]
    BY <1>0, <1>3, NegotiatingStep
  <2>2. pc[n] \in Unfinished /\ UNCHANGED <<owner, key, once, finished>>
    BY <1>0, <1>3, NegotiatingStep
  <2>3. l # "idle" /\ l \notin {"unregister", "release", "done"}
    BY <2>1, LocationFacts
  <2>4. pc[n] # "idle" /\ pc[n] \notin {"unregister", "release", "done"}
    BY <2>2, LocationFacts
  <2>5. OwnerHasKey' /\ FinishedAfterFinish' /\ UnregisterJustified'
    BY <1>0, <2>1, <2>2, <2>3, <2>4 DEF TypeOK
  <2>6. KeyReserved' /\ ClosedOwnerRemoved'
    BY <1>0, <2>1, <2>2, <2>3, <2>4 DEF TypeOK
  <2>7. QED
    BY <2>5, <2>6
<1>4. ASSUME NEW n \in Neg, Finish(n)
      PROVE  Rest'
  <2>1. /\ UNCHANGED <<owner, key, once>>
        /\ pc[n] = "finish"
        /\ finished' = [finished EXCEPT ![n] = TRUE]
        /\ pc' = [pc EXCEPT ![n] = AfterFinish(n)]
    BY <1>4 DEF Finish, At, registry
  <2>2. QED
    BY <1>0, <2>1, LocationFacts DEF AfterFinish, TypeOK
<1>5. ASSUME NEW n \in Neg, Unregister(n)
      PROVE  Rest'
  <2>1. /\ UNCHANGED <<key, once, finished>>
        /\ pc[n] = "unregister"
        /\ owner' = Unregistered(n)
        /\ pc' = [pc EXCEPT ![n] = "release"]
    BY <1>5 DEF Unregister, At, ownership
  <2>2. QED
    BY <1>0, <2>1, LocationFacts DEF Unregistered, TypeOK
<1>6. ASSUME NEW n \in Neg, Release(n)
      PROVE  Rest'
  <2>1. /\ UNCHANGED <<owner, key, once, finished>>
        /\ pc[n] = "release"
        /\ pc' = [pc EXCEPT ![n] = "done"]
    BY <1>6 DEF Release, At, ownership
  <2>2. QED
    BY <1>0, <2>1, LocationFacts DEF TypeOK
<1>7. ASSUME NEW n \in Neg, OwnerClose(n)
      PROVE  Rest'
  <2>1. /\ UNCHANGED <<owner, key, pc, finished>>
        /\ once[n] = "open"
        /\ once' = [once EXCEPT ![n] = "closed"]
    BY <1>7 DEF OwnerClose, registry, offering
  <2>2. QED
    BY <1>0, <2>1, LocationFacts DEF TypeOK
<1>10. ASSUME NEW n \in Neg, OwnerClear(n)
      PROVE  Rest'
  <2>1. /\ UNCHANGED <<owner, key, pc, finished>>
        /\ once[n] = "closed"
        /\ once' = [once EXCEPT ![n] =
                      IF finished[n] THEN "unregister" ELSE "done"]
    BY <1>10 DEF OwnerClear, AfterClear, registry, offering
  <2>2. UnregisterJustified' /\ OwnerHasKey' /\ FinishedAfterFinish'
    BY <1>0, <2>1 DEF TypeOK
  <2>3. KeyReserved' /\ ClosedOwnerRemoved'
    BY <1>0, <2>1 DEF TypeOK
  <2>4. QED
    BY <2>2, <2>3
<1>8. ASSUME NEW n \in Neg, OwnerUnregister(n)
      PROVE  Rest'
  <2>1. /\ UNCHANGED <<key, pc, finished>>
        /\ once[n] = "unregister"
        /\ owner' = Unregistered(n)
        /\ once' = [once EXCEPT ![n] = "done"]
    BY <1>8 DEF OwnerUnregister, offering
  <2>2. QED
    BY <1>0, <2>1, LocationFacts DEF Unregistered, TypeOK
<1>9. QED
    BY <1>1, <1>2, <1>3, <1>4, <1>5, <1>6, <1>7, <1>8, <1>10,
       NextCases
       DEF OwnerCloseStep

THEOREM RegistryInvariant == Spec => []RegistryInv
BY RegistryInit, RegistryStep, PTL DEF Spec

\* A key is reserved for its owner until negotiate has finished, a delayed
\* failure reply included, and for as long as an accepted connection is open.
THEOREM KeyReservedAlways == Spec => []KeyReserved
<1>1. RegistryInv => KeyReserved
    BY DEF RegistryInv
<1>2. QED
    BY RegistryInvariant, <1>1, PTL

\* No closed owner is left in the map by the race of finish and close.
THEOREM ClosedOwnerRemovedAlways == Spec => []ClosedOwnerRemoved
<1>1. RegistryInv => ClosedOwnerRemoved
    BY DEF RegistryInv
<1>2. QED
    BY RegistryInvariant, <1>1, PTL

-----------------------------------------------------------------------------
(* Admission: the slots of sem are those of the running goroutines.         *)

SlotInv ==
    /\ TypeOK
    /\ sem = {n \in Neg : pc[n] \in Running}
    /\ Cardinality(sem) <= MaxNegotiations

LEMMA RunningFacts ==
    /\ Unfinished \subseteq Running
    /\ "parse" \in Running /\ "unregister" \in Running
    /\ "release" \in Running
    /\ "idle" \notin Running /\ "done" \notin Running
BY LocationFacts DEF Running

LEMMA SlotInit == Init => SlotInv
<1> SUFFICES ASSUME Init PROVE SlotInv
    OBVIOUS
<1>1. sem = {} /\ sem = {n \in Neg : pc[n] \in Running}
    BY RunningFacts DEF Init
<1>2. Cardinality(sem) <= MaxNegotiations
    BY <1>1, FS_EmptySet
<1>3. QED
    BY <1>1, <1>2, TypeInit DEF SlotInv

LEMMA SlotStep == SlotInv /\ [Next]_vars => SlotInv'
<1> SUFFICES ASSUME SlotInv, [Next]_vars
             PROVE  SlotInv'
    OBVIOUS
<1>0. TypeOK /\ TypeOK'
    BY TypeStep DEF SlotInv
<1>1. sem = {n \in Neg : pc[n] \in Running}
      /\ Cardinality(sem) <= MaxNegotiations
    BY DEF SlotInv
<1>2. IsFiniteSet(sem) /\ Cardinality(sem) \in Nat
    BY <1>0, FS_Subset, FS_CardinalityType DEF TypeOK
<1> SUFFICES /\ sem' = {n \in Neg : pc'[n] \in Running}
             /\ Cardinality(sem') <= MaxNegotiations
    BY <1>0 DEF SlotInv
<1>3. CASE Bystanders
    BY <1>1, <1>3, BystanderStep DEF registryView
<1>4. ASSUME NEW k \in Key, Admit(k)
      PROVE  /\ sem' = {n \in Neg : pc'[n] \in Running}
             /\ Cardinality(sem') <= MaxNegotiations
  <2>1. PICK n \in Neg :
            /\ pc[n] = "idle"
            /\ sem' = sem \cup {n}
            /\ pc' = [pc EXCEPT ![n] = "parse"]
    BY <1>4 DEF Admit
  <2>2. Cardinality(sem) < MaxNegotiations
    BY <1>4 DEF Admit, SlotFree
  <2>6. n \notin sem
    BY <1>1, <2>1, RunningFacts
  <2>3. Cardinality(sem') = Cardinality(sem) + 1
    BY <1>2, <2>1, <2>6, FS_AddElement
  <2>4. Cardinality(sem') <= MaxNegotiations
    BY <1>2, <2>2, <2>3
  <2>5. QED
    BY <1>0, <1>1, <2>1, <2>4, RunningFacts DEF TypeOK
<1>5. ASSUME NEW n \in Neg, Release(n)
      PROVE  /\ sem' = {m \in Neg : pc'[m] \in Running}
             /\ Cardinality(sem') <= MaxNegotiations
  <2>1. sem' = sem \ {n} /\ pc' = [pc EXCEPT ![n] = "done"]
    BY <1>5 DEF Release, At
  <2>2. Cardinality(sem') <= Cardinality(sem) /\ Cardinality(sem') \in Nat
    BY <1>2, <2>1, FS_Subset, FS_CardinalityType
  <2>3. QED
    BY <1>0, <1>1, <1>2, <2>1, <2>2, RunningFacts DEF TypeOK
<1>6. ASSUME NEW n \in Neg, Negotiate(n), ~Release(n)
      PROVE  sem' = sem /\ sem' = {m \in Neg : pc'[m] \in Running}
  <2>1. CASE Finish(n)
    BY <1>0, <1>1, <2>1, RunningFacts, LocationFacts
       DEF Finish, At, AfterFinish, registry, TypeOK
  <2>2. CASE Unregister(n)
    BY <1>0, <1>1, <2>2, RunningFacts DEF Unregister, At, TypeOK
  <2>3. CASE ~Finish(n) /\ ~Unregister(n)
    <3>1. /\ pc[n] \in Unfinished /\ sem' = sem
          /\ \E l \in Unfinished : pc' = [pc EXCEPT ![n] = l]
      BY <1>0, <1>6, <2>3, NegotiatingStep
    <3>2. QED
      BY <1>0, <1>1, <3>1, RunningFacts DEF TypeOK
  <2>4. QED
    BY <2>1, <2>2, <2>3
<1>7. ASSUME NEW n \in Neg, OwnerCloseStep(n)
      PROVE  sem' = sem /\ sem' = {m \in Neg : pc'[m] \in Running}
    BY <1>1, <1>7 DEF OwnerCloseStep, OwnerClose, OwnerClear,
         OwnerUnregister, registry, offering
<1>8. QED
    BY <1>1, <1>3, <1>4, <1>5, <1>6, <1>7, NextCases

\* At most MaxNegotiations goroutines negotiate, whatever the order in which
\* offers arrive, fail, are answered, canceled or accepted.
THEOREM AdmissionBounded == Spec => []AdmissionBound
<1>1. SlotInv => AdmissionBound
    BY DEF SlotInv, AdmissionBound
<1>2. Spec => []SlotInv
    BY SlotInit, SlotStep, PTL DEF Spec
<1>3. QED
    BY <1>1, <1>2, PTL

-----------------------------------------------------------------------------
(* Remote errors: one that NotifySignal answers with true ends the Conn,    *)
(* even when it races the publication.                                      *)

Early == {"idle", "parse", "credentials", "newConn"}

\* A Conn is there once newConn has passed, and published only after that.
EarlyWithoutConn ==
    \A n \in Neg : pc[n] \in Early => conn[n] = "none" /\ ~published[n]

FinalisingPublished ==
    \A n \in Neg :
        pc[n] \in {"replay"} \cup Finalising \/ accepted[n] => published[n]

\* handleSignal cancels a published Conn; an owner it closes instead can no
\* longer publish one, since remoteCanceled was set under the same lock.
CallersKnow ==
    \A t \in Caller :
        /\ call[t].at = "connError" => published[call[t].neg]
        /\ call[t].at = "closeOwner" =>
             remoteCanceled[call[t].neg] /\ ~published[call[t].neg]

CanceledStays ==
    \A n \in Neg :
        peerCanceled[n] => \/ remoteCanceled[n] /\ ~published[n]
                           \/ ConnDone(n)

PeerInv ==
    /\ TypeOK
    /\ EarlyWithoutConn
    /\ FinalisingPublished
    /\ CallersKnow
    /\ CanceledStays

LEMMA PeerInit == Init => PeerInv
BY TypeInit
   DEF Init, PeerInv, EarlyWithoutConn, FinalisingPublished, CallersKnow,
       CanceledStays, NoCall, Early, Finalising

LEMMA CallNeg ==
    ASSUME TypeOK, NEW t \in Caller, call[t].at # "idle"
    PROVE  call[t].neg \in Neg
BY DEF TypeOK, Calls, NoCall

LEMMA PeerStep == PeerInv /\ [Next]_vars => PeerInv'
<1> SUFFICES ASSUME PeerInv, [Next]_vars
             PROVE  PeerInv'
    OBVIOUS
<1>0. TypeOK /\ TypeOK'
    BY TypeStep DEF PeerInv
<1> DEFINE Rest == /\ EarlyWithoutConn /\ FinalisingPublished
                   /\ CallersKnow /\ CanceledStays
<1> SUFFICES Rest'
    BY <1>0 DEF PeerInv
<1> USE DEF PeerInv, EarlyWithoutConn, FinalisingPublished, CallersKnow,
        CanceledStays, ConnDone, Early, Finalising
<1> USE DEF shutdown, registry, ownership, offering, transport, history
<1>1. ASSUME NEW k \in Key, Admit(k)
      PROVE  Rest'
    BY <1>0, <1>1 DEF Admit, TypeOK
<1>2. ASSUME NEW t \in Caller, NEW k \in Key, NEW sig \in Incoming,
             Route(t, k, sig)
      PROVE  Rest'
    BY <1>0, <1>2 DEF Route, TypeOK
<1>3. ASSUME NEW t \in Caller, CallStep(t)
      PROVE  Rest'
  <2> USE DEF Return, CallAt, NoCall
  <2>1. CASE HandleSignal(t)
    <3>1. /\ \A u \in Caller \ {t} : call'[u] = call[u]
          /\ call'[t].at \in {"idle", "error", "candidate"}
          /\ UNCHANGED <<pc, conn, published, remoteCanceled, accepted,
                         peerCanceled>>
      BY <2>1 DEF HandleSignal, Branch, TypeOK
    <3>2. QED
      BY <1>0, <3>1 DEF TypeOK
  <2>2. CASE HandleError(t)
    BY <1>0, <2>2, CallNeg DEF HandleError, TypeOK
  <2>3. CASE OwnerClosed(t)
    BY <1>0, <2>3, CallNeg DEF OwnerClosed, TypeOK
  <2>4. CASE ConnError(t)
    <3>1. /\ \A u \in Caller \ {t} : call'[u] = call[u]
          /\ call'[t].at = "idle"
          /\ UNCHANGED <<pc, published, remoteCanceled, accepted>>
      BY <2>4 DEF ConnError, TypeOK
    <3>2. PICK n \in Neg : n = call[t].neg /\ published[n]
      BY <2>4, CallNeg DEF ConnError
    <3>3. \/ UNCHANGED <<conn, peerCanceled>>
          \/ /\ conn' = [conn EXCEPT ![n] = "canceled"]
             /\ peerCanceled' = [peerCanceled EXCEPT ![n] = TRUE]
      BY <2>4, <3>2 DEF ConnError
    <3>7. EarlyWithoutConn' /\ FinalisingPublished'
      BY <1>0, <3>1, <3>2, <3>3 DEF TypeOK
    <3>4. CanceledStays'
      <4>1. CASE UNCHANGED <<conn, peerCanceled>>
        BY <3>1, <4>1
      <4>2. CASE /\ conn' = [conn EXCEPT ![n] = "canceled"]
                 /\ peerCanceled' = [peerCanceled EXCEPT ![n] = TRUE]
        BY <3>1, <4>2 DEF TypeOK
      <4>3. QED
        BY <3>3, <4>1, <4>2
    <3>5. CallersKnow'
      BY <1>0, <3>1 DEF TypeOK
    <3>6. QED
      BY <3>4, <3>5, <3>7
  <2>5. CASE HandleCandidate(t)
    <3>1. /\ \A u \in Caller \ {t} : call'[u] = call[u]
          /\ call'[t].at \in {"idle", "connCandidate"}
          /\ UNCHANGED <<pc, conn, published, remoteCanceled, accepted,
                         peerCanceled>>
      BY <2>5 DEF HandleCandidate, TypeOK
    <3>2. QED
      BY <1>0, <3>1 DEF TypeOK
  <2>6. CASE ConnCandidate(t)
    BY <1>0, <2>6 DEF ConnCandidate, TypeOK
  <2>7. QED
    BY <1>3, <2>1, <2>2, <2>3, <2>4, <2>5, <2>6 DEF CallStep
<1>4. ASSUME NEW n \in Neg, Negotiate(n)
      PROVE  Rest'
  <2> USE DEF At, Unwind
  <2>1. CASE StagePass(n)
    <3>1. pc[n] \in {"parse", "credentials", "newConn", "gather", "inline",
                     "identity", "answer", "trickle"}
      BY <2>1 DEF StagePass, Stages, NextStage
    <3>2. /\ NextStage[pc[n]] \in Stages \cup {"publish"}
          /\ NextStage[pc[n]] \in Early => pc[n] \in {"parse", "credentials"}
      BY <3>1 DEF NextStage, Stages
    <3>3. NextStage[pc[n]] \notin {"replay"} \cup Finalising
      BY <3>2 DEF Stages, NextStage
    <3>4. /\ pc' = [pc EXCEPT ![n] = NextStage[pc[n]]]
          /\ conn' = [conn EXCEPT ![n] =
                        IF pc[n] = "newConn" THEN "open" ELSE conn[n]]
          /\ UNCHANGED <<published, remoteCanceled, accepted, peerCanceled,
                         call>>
      BY <2>1 DEF StagePass
    <3>5. EarlyWithoutConn'
      BY <1>0, <3>2, <3>4 DEF TypeOK
    <3>6. FinalisingPublished' /\ CallersKnow'
      BY <1>0, <3>3, <3>4 DEF TypeOK
    <3>7. CanceledStays'
      BY <1>0, <3>4 DEF TypeOK
    <3>8. QED
      BY <3>5, <3>6, <3>7
  <2>2. CASE StageFail(n)
    BY <1>0, <2>2 DEF StageFail, TypeOK
  <2>3. CASE Publish(n)
    <3>1. UNCHANGED <<conn, remoteCanceled, accepted, peerCanceled, call>>
      BY <2>3 DEF Publish
    <3>2. CASE MayPublish(n)
      <4>1. /\ published' = [published EXCEPT ![n] = TRUE]
            /\ pc' = [pc EXCEPT ![n] = "replay"]
            /\ ~remoteCanceled[n]
        BY <2>3, <3>2 DEF Publish, MayPublish
      <4>2. QED
        BY <1>0, <3>1, <4>1 DEF TypeOK
    <3>3. CASE ~MayPublish(n)
      BY <1>0, <2>3, <3>1, <3>3 DEF Publish, TypeOK
    <3>4. QED
      BY <3>2, <3>3
  <2>4. CASE Replay(n)
    BY <1>0, <2>4 DEF Replay, TypeOK
  <2>5. CASE Finalise(n) \/ CandidateReceived(n) \/ TransportsStarted(n)
             \/ ChannelsReady(n)
    <3>1. /\ pc[n] \in {"replay"} \cup Finalising
          /\ \E l \in Finalising : pc' = [pc EXCEPT ![n] = l]
          /\ UNCHANGED <<conn, published, remoteCanceled, accepted,
                         peerCanceled, call>>
      BY <2>5 DEF Finalise, CandidateReceived, TransportsStarted,
           ChannelsReady
    <3>2. QED
      BY <1>0, <3>1 DEF TypeOK
  <2>6. CASE Accept(n)
    BY <1>0, <2>6 DEF Accept, TypeOK
  <2>7. CASE FinaliseFail(n)
    <3>1. /\ \E l \in {"closeSelf", "closeConn"} : pc' = [pc EXCEPT ![n] = l]
          /\ UNCHANGED <<conn, published, remoteCanceled, accepted,
                         peerCanceled, call>>
      BY <2>7 DEF FinaliseFail
    <3>2. QED
      BY <1>0, <3>1 DEF TypeOK
  <2>8. CASE CloseConn(n)
    BY <1>0, <2>8 DEF CloseConn, TypeOK
  <2>9. CASE CloseSelf(n) \/ Report(n) \/ Replied(n)
    <3>1. /\ \E l \in {"report", "finish", "reply"} :
               pc' = [pc EXCEPT ![n] = l]
          /\ UNCHANGED <<conn, published, remoteCanceled, accepted,
                         peerCanceled, call>>
      BY <2>9 DEF CloseSelf, Report, Replied
    <3>2. QED
      BY <1>0, <3>1 DEF TypeOK
  <2>10. CASE Finish(n) \/ Unregister(n) \/ Release(n)
    <3>1. /\ \E l \in {"unregister", "release", "done"} :
               pc' = [pc EXCEPT ![n] = l]
          /\ UNCHANGED <<conn, published, remoteCanceled, accepted,
                         peerCanceled, call>>
      BY <2>10 DEF Finish, AfterFinish, Unregister, Release
    <3>2. QED
      BY <1>0, <3>1 DEF TypeOK
  <2>11. QED
    BY <1>4, <2>1, <2>2, <2>3, <2>4, <2>5, <2>6, <2>7, <2>8, <2>9, <2>10
       DEF Negotiate
<1>5. ASSUME NEW n \in Neg, Expire(n) \/ CancelContext(n)
                            \/ OwnerCloseStep(n)
      PROVE  Rest'
    BY <1>0, <1>5 DEF Expire, CancelContext, OwnerCloseStep, OwnerClose,
         OwnerClear, OwnerUnregister, TypeOK
<1>6. ASSUME NEW n \in Neg, ConnFail(n) \/ ConnCloseStep(n)
      PROVE  Rest'
    BY <1>0, <1>6 DEF ConnFail, ConnCloseStep, ConnClose, ConnOwnerClosed,
         ConnStopped, SetConn, TypeOK
<1>7. ASSUME NEW n \in Neg, TrickleStep(n)
      PROVE  Rest'
    BY <1>0, <1>7 DEF TrickleStep, TrickleSend, TrickleFailed, TypeOK
<1>8. CASE SignalingDone \/ Close \/ CloseNext \/ UNCHANGED vars
    BY <1>8 DEF SignalingDone, Close, CloseNext, vars
<1>9. QED
    BY <1>1, <1>2, <1>3, <1>4, <1>5, <1>6, <1>7, <1>8 DEF Next

\* Once NotifySignal has returned true for a remote error, no Conn of that
\* negotiation is in use.
THEOREM PeerErrorAlwaysEndsConn == Spec => []PeerErrorEndsConn
<1>1. PeerInv => PeerErrorEndsConn
    BY DEF PeerInv, FinalisingPublished, CanceledStays, PeerErrorEndsConn
<1>2. Spec => []PeerInv
    BY PeerInit, PeerStep, PTL DEF Spec
<1>3. QED
    BY <1>1, <1>2, PTL

-----------------------------------------------------------------------------
(* Candidates: one that NotifySignal has taken is not lost on its way to    *)
(* the Conn.                                                                *)

Has(s) == \E i \in 1..Len(s) : s[i] = "candidate"

\* A candidate taken by an open owner has reached its Conn, waits to be
\* deferred no longer, or is in the copy being replayed.
Kept ==
    \A n \in Neg :
        promised[n] /\ ~Closed(n) /\ ~ConnDone(n)
        => \/ candidate[n]
           \/ Has(deferred[n])
           \/ pc[n] = "replay" /\ Has(backlog[n])

CandidateInv == NothingStranded /\ Kept

LEMMA CandidateInit == Init => CandidateInv
<1> SUFFICES ASSUME Init PROVE CandidateInv
    OBVIOUS
<1>1. \A n \in Neg : deferred[n] = <<>> /\ ~promised[n]
    BY DEF Init
<1>2. 0 <= MaxPending /\ Len(<<>>) = 0
    OBVIOUS
<1>3. QED
    BY <1>1, <1>2 DEF CandidateInv, NothingStranded, Kept

\* The variables the candidates depend on.
candidateView ==
    <<deferred, backlog, published, once, conn, candidate, promised>>

LEMMA HasAppend ==
    ASSUME NEW s \in Seq(Candidates), NEW c \in Candidates
    PROVE  /\ Append(s, c) \in Seq(Candidates)
           /\ Len(Append(s, c)) = Len(s) + 1
           /\ Has(s) \/ c = "candidate" => Has(Append(s, c))
BY DEF Has

LEMMA HasTail ==
    ASSUME NEW s \in Seq(Candidates), s # <<>>, Has(s)
    PROVE  Head(s) = "candidate" \/ Has(Tail(s))
<1>1. PICK i \in 1..Len(s) : s[i] = "candidate"
    BY DEF Has
<1>2. CASE i = 1
    BY <1>1, <1>2
<1>3. CASE i # 1
  <2>1. i - 1 \in 1..Len(Tail(s)) /\ Tail(s)[i - 1] = s[i]
    BY <1>1, <1>3
  <2>2. QED
    BY <1>1, <2>1 DEF Has
<1>4. QED
    BY <1>2, <1>3

LEMMA CandidateStep ==
    TypeOK /\ PeerInv /\ CandidateInv /\ [Next]_vars => CandidateInv'
<1> SUFFICES ASSUME TypeOK, PeerInv, CandidateInv, [Next]_vars
             PROVE  CandidateInv'
    OBVIOUS
<1>0. TypeOK /\ TypeOK'
    BY TypeStep
<1> USE DEF CandidateInv, NothingStranded, Kept, Closed, ConnDone
<1> USE DEF shutdown, registry, ownership, offering, transport, history
<1>1. ASSUME NEW k \in Key, Admit(k)
      PROVE  CandidateInv'
    BY <1>0, <1>1 DEF Admit, TypeOK
<1>2. ASSUME NEW t \in Caller, NEW k \in Key, NEW sig \in Incoming,
             Route(t, k, sig)
      PROVE  CandidateInv'
    BY <1>2 DEF Route
<1>3. ASSUME NEW t \in Caller, CallStep(t)
      PROVE  CandidateInv'
  <2>1. CASE HandleSignal(t) \/ HandleError(t) \/ OwnerClosed(t)
    BY <2>1 DEF HandleSignal, HandleError, OwnerClosed
  <2>2. CASE ConnError(t)
    <3>1. PICK n \in Neg : n = call[t].neg
      BY <2>2, <1>0, CallNeg DEF ConnError
    <3>2. /\ UNCHANGED <<pc, deferred, backlog, published, once, candidate,
                         promised>>
          /\ conn' = conn \/ conn' = [conn EXCEPT ![n] = "canceled"]
      BY <2>2, <3>1 DEF ConnError
    <3>3. QED
      BY <1>0, <3>2 DEF TypeOK
  <2>3. CASE HandleCandidate(t)
    <3>0. call[t] \in Calls /\ call[t].at = "candidate"
      BY <2>3 DEF HandleCandidate, TypeOK
    <3>10. call[t].neg \in Neg /\ call[t].sig \in Candidates
      BY <3>0 DEF Calls, NoCall
    <3>1. PICK n \in Neg, c \in Candidates :
              n = call[t].neg /\ c = call[t].sig
      BY <3>10
    <3>2. UNCHANGED <<pc, backlog, published, once, conn, candidate>>
      BY <2>3 DEF HandleCandidate
    <3>3. CASE UNCHANGED <<deferred, promised>>
      BY <3>2, <3>3
    <3>4. CASE /\ ~Closed(n) /\ ~published[n]
               /\ Len(deferred[n]) < MaxPending
               /\ deferred' = [deferred EXCEPT ![n] = Append(deferred[n], c)]
               /\ promised' =
                    [promised EXCEPT ![n] = promised[n] \/ c = "candidate"]
      <4>0. deferred[n] \in Seq(Candidates) /\ Len(deferred[n]) \in Nat
        BY <1>0 DEF TypeOK
      <4>1. /\ Len(Append(deferred[n], c)) = Len(deferred[n]) + 1
            /\ Has(deferred[n]) \/ c = "candidate"
                 => Has(Append(deferred[n], c))
        BY <4>0, HasAppend
      <4>2. deferred'[n] = Append(deferred[n], c)
        BY <1>0, <3>4 DEF TypeOK
      <4>3. promised'[n] => promised[n] \/ c = "candidate"
        BY <1>0, <3>4 DEF TypeOK
      <4>4. \A m \in Neg \ {n} :
                deferred'[m] = deferred[m] /\ promised'[m] = promised[m]
        BY <1>0, <3>4 DEF TypeOK
      <4>5. NothingStranded'
        <5>1. Len(deferred'[n]) <= MaxPending
          BY <3>4, <4>0, <4>1, <4>2
        <5>2. ~published'[n] /\ once'[n] = "open"
          BY <3>2, <3>4
        <5>3. QED
          BY <3>2, <4>4, <5>1, <5>2
      <4>6. Kept'
        <5>1. ASSUME NEW m \in Neg, promised'[m], ~Closed(m)', ~ConnDone(m)'
              PROVE  \/ candidate'[m]
                     \/ Has(deferred'[m])
                     \/ pc'[m] = "replay" /\ Has(backlog'[m])
          <6>1. CASE m = n
            BY <3>2, <4>1, <4>2, <4>3, <5>1, <6>1
          <6>2. CASE m # n
            BY <3>2, <4>4, <5>1, <6>2
          <6>3. QED
            BY <6>1, <6>2
        <5>2. QED
          BY <5>1 DEF Has
      <4>7. QED
        BY <4>5, <4>6
    <3>5. QED
      BY <1>0, <2>3, <3>1, <3>3, <3>4
         DEF HandleCandidate, TakesCandidate, TypeOK
  <2>4. CASE ConnCandidate(t)
    <3>1. PICK n \in Neg : n = call[t].neg
      BY <2>4, <1>0, CallNeg DEF ConnCandidate
    <3>2. UNCHANGED <<pc, deferred, backlog, published, once, conn>>
      BY <2>4 DEF ConnCandidate
    <3>3. PICK ok \in BOOLEAN :
              /\ candidate' = [candidate EXCEPT ![n] = candidate[n] \/ ok]
              /\ promised' = [promised EXCEPT ![n] = promised[n] \/ ok]
      BY <2>4, <3>1 DEF ConnCandidate
    <3>4. QED
      BY <1>0, <3>2, <3>3 DEF TypeOK
  <2>5. QED
    BY <1>3, <2>1, <2>2, <2>3, <2>4 DEF CallStep
<1>4. ASSUME NEW n \in Neg, Negotiate(n)
      PROVE  CandidateInv'
  <2> USE DEF At, Unwind
  <2>1. CASE StagePass(n)
    <3>1. pc[n] \in {"parse", "credentials", "newConn", "gather", "inline",
                     "identity", "answer", "trickle"}
      BY <2>1 DEF StagePass, Stages, NextStage
    <3>2. /\ UNCHANGED <<deferred, backlog, published, once, promised>>
          /\ pc' = [pc EXCEPT ![n] = NextStage[pc[n]]]
          /\ conn' = [conn EXCEPT ![n] =
                        IF pc[n] = "newConn" THEN "open" ELSE conn[n]]
      BY <2>1 DEF StagePass
    <3>3. \A m \in Neg : candidate[m] => candidate'[m]
      BY <1>0, <2>1 DEF StagePass, TypeOK
    <3>4. pc[n] = "newConn" => conn[n] = "none"
      BY DEF PeerInv, EarlyWithoutConn, Early
    <3>5. \A m \in Neg : ConnDone(m) => ConnDone(m)'
      BY <1>0, <3>2, <3>4 DEF TypeOK
    <3>6. \A m \in Neg : pc[m] = "replay" => pc'[m] = "replay"
      BY <1>0, <3>1, <3>2 DEF TypeOK
    <3>7. QED
      BY <3>2, <3>3, <3>5, <3>6
  <2>2. CASE StageFail(n) \/ Accept(n) \/ FinaliseFail(n)
    <3>1. /\ UNCHANGED candidateView
          /\ pc[n] # "replay"
          /\ \A m \in Neg \ {n} : pc'[m] = pc[m]
      BY <1>0, <2>2 DEF StageFail, Accept, FinaliseFail, candidateView,
           Stages, NextStage, Finalising, TypeOK
    <3>2. QED
      BY <3>1 DEF candidateView
  <2>3. CASE Publish(n)
    <3>1. CASE MayPublish(n)
      <4>1. /\ pc' = [pc EXCEPT ![n] = "replay"]
            /\ published' = [published EXCEPT ![n] = TRUE]
            /\ backlog' = [backlog EXCEPT ![n] = deferred[n]]
            /\ deferred' = [deferred EXCEPT ![n] = <<>>]
            /\ pc[n] = "publish"
            /\ UNCHANGED <<once, conn, candidate, promised>>
        BY <2>3, <3>1 DEF Publish, ToReplay
      <4>2. deferred'[n] = <<>> /\ pc'[n] = "replay"
            /\ backlog'[n] = deferred[n]
        BY <1>0, <4>1 DEF TypeOK
      <4>3. \A m \in Neg \ {n} :
                /\ deferred'[m] = deferred[m] /\ pc'[m] = pc[m]
                /\ backlog'[m] = backlog[m] /\ published'[m] = published[m]
        BY <1>0, <4>1 DEF TypeOK
      <4>4. Len(<<>>) <= MaxPending
        OBVIOUS
      <4>5. NothingStranded'
        BY <4>1, <4>2, <4>3, <4>4
      <4>6. Kept'
        BY <4>1, <4>2, <4>3
      <4>7. QED
        BY <4>5, <4>6
    <3>2. CASE ~MayPublish(n)
      BY <1>0, <2>3, <3>2 DEF Publish, TypeOK
    <3>3. QED
      BY <3>1, <3>2
  <2>4. CASE Replay(n)
    <3>1. /\ pc[n] = "replay" /\ backlog[n] # <<>>
          /\ backlog' = [backlog EXCEPT ![n] = Tail(backlog[n])]
          /\ UNCHANGED <<pc, deferred, published, once, conn, promised>>
      BY <2>4 DEF Replay
    <3>2. candidate' =
            [candidate EXCEPT ![n] =
               candidate[n] \/ (/\ Head(backlog[n]) = "candidate"
                                /\ ~Closed(n) /\ ~ConnDone(n))]
      BY <2>4 DEF Replay
    <3>3. NothingStranded'
      BY <3>1
    <3>4. ASSUME NEW m \in Neg, promised'[m], ~Closed(m)', ~ConnDone(m)'
          PROVE  \/ candidate'[m]
                 \/ Has(deferred'[m])
                 \/ pc'[m] = "replay" /\ Has(backlog'[m])
      <4>1. CASE m = n
        <5>1. backlog[n] \in Seq(Candidates)
          BY <1>0 DEF TypeOK
        <5>2. \/ candidate[n] \/ Has(deferred[n]) \/ Has(backlog[n])
          BY <3>1, <3>4, <4>1
        <5>3. Has(backlog[n]) =>
                Head(backlog[n]) = "candidate" \/ Has(Tail(backlog[n]))
          BY <3>1, <5>1, HasTail
        <5>4. backlog'[n] = Tail(backlog[n])
          BY <1>0, <3>1 DEF TypeOK
        <5>5. candidate[n] \/ Head(backlog[n]) = "candidate" => candidate'[n]
          BY <1>0, <3>1, <3>2, <3>4, <4>1 DEF TypeOK
        <5>6. QED
          BY <3>1, <4>1, <5>2, <5>3, <5>4, <5>5
      <4>2. CASE m # n
        <5>1. backlog'[m] = backlog[m] /\ candidate'[m] = candidate[m]
          BY <1>0, <3>1, <3>2, <4>2 DEF TypeOK
        <5>2. QED
          BY <3>1, <3>4, <5>1
      <4>3. QED
        BY <4>1, <4>2
    <3>5. Kept'
      BY <3>4 DEF Has
    <3>6. QED
      BY <3>3, <3>5
  <2>5. CASE Finalise(n)
    <3>1. /\ UNCHANGED candidateView
          /\ backlog[n] = <<>>
          /\ \A m \in Neg \ {n} : pc'[m] = pc[m]
      BY <1>0, <2>5 DEF Finalise, candidateView, TypeOK
    <3>2. ~Has(backlog[n])
      BY <3>1 DEF Has
    <3>3. QED
      BY <3>1, <3>2 DEF candidateView
  <2>6. CASE CandidateReceived(n) \/ TransportsStarted(n) \/ ChannelsReady(n)
    <3>1. /\ UNCHANGED candidateView
          /\ pc[n] # "replay"
          /\ \A m \in Neg \ {n} : pc'[m] = pc[m]
      BY <1>0, <2>6 DEF CandidateReceived, TransportsStarted, ChannelsReady,
           candidateView, TypeOK
    <3>2. QED
      BY <3>1 DEF candidateView
  <2>7. CASE CloseConn(n)
    <3>1. /\ UNCHANGED <<deferred, backlog, published, once, candidate,
                         promised>>
          /\ pc[n] = "closeConn"
          /\ \A m \in Neg \ {n} : pc'[m] = pc[m] /\ conn'[m] = conn[m]
          /\ conn'[n] = conn[n] \/ conn'[n] = "closing"
      BY <1>0, <2>7 DEF CloseConn, TypeOK
    <3>2. QED
      BY <3>1
  <2>8. CASE CloseSelf(n) \/ Report(n) \/ Replied(n) \/ Unregister(n)
             \/ Release(n) \/ Finish(n)
    <3>1. /\ UNCHANGED candidateView
          /\ pc[n] # "replay"
          /\ \A m \in Neg \ {n} : pc'[m] = pc[m]
      BY <1>0, <2>8 DEF CloseSelf, Report, Replied, Unregister, Release,
           Finish, candidateView, TypeOK
    <3>2. QED
      BY <3>1 DEF candidateView
  <2>9. QED
    BY <1>4, <2>1, <2>2, <2>3, <2>4, <2>5, <2>6, <2>7, <2>8 DEF Negotiate
<1>5. ASSUME NEW n \in Neg, Expire(n) \/ CancelContext(n)
      PROVE  CandidateInv'
    BY <1>5 DEF Expire, CancelContext
<1>6. ASSUME NEW n \in Neg, OwnerCloseStep(n)
      PROVE  CandidateInv'
  <2>1. CASE OwnerClose(n)
    BY <1>0, <2>1 DEF OwnerClose, TypeOK
  <2>2. CASE OwnerClear(n)
    <3>1. /\ once[n] = "closed"
          /\ deferred' = [deferred EXCEPT ![n] = <<>>]
          /\ \E o \in {"unregister", "done"} :
                once' = [once EXCEPT ![n] = o]
          /\ UNCHANGED <<pc, backlog, published, conn, candidate, promised>>
      BY <2>2 DEF OwnerClear, AfterClear
    <3>2. deferred'[n] = <<>> /\ Len(<<>>) <= MaxPending
      BY <1>0, <3>1 DEF TypeOK
    <3>3. \A m \in Neg \ {n} : deferred'[m] = deferred[m]
                               /\ once'[m] = once[m]
      BY <1>0, <3>1 DEF TypeOK
    <3>4. once'[n] # "open"
      BY <1>0, <3>1 DEF TypeOK
    <3>5. QED
      BY <3>1, <3>2, <3>3, <3>4
  <2>3. CASE OwnerUnregister(n)
    BY <1>0, <2>3 DEF OwnerUnregister, TypeOK
  <2>4. QED
    BY <1>6, <2>1, <2>2, <2>3 DEF OwnerCloseStep
<1>7. ASSUME NEW n \in Neg, ConnFail(n) \/ ConnCloseStep(n)
                            \/ TrickleStep(n)
      PROVE  CandidateInv'
  <2>1. /\ UNCHANGED <<pc, deferred, backlog, published, once, candidate,
                       promised>>
        /\ conn' = conn \/ \E c \in {"closing", "stopping", "closed"} :
                              conn' = [conn EXCEPT ![n] = c]
    BY <1>0, <1>7 DEF ConnFail, ConnCloseStep, ConnClose, ConnOwnerClosed,
         ConnStopped, SetConn, TrickleStep, TrickleSend, TrickleFailed,
         TypeOK
  <2>2. QED
    BY <1>0, <2>1 DEF TypeOK
<1>8. CASE SignalingDone \/ Close \/ CloseNext \/ UNCHANGED vars
    BY <1>8 DEF SignalingDone, Close, CloseNext, vars
<1>9. QED
    BY <1>1, <1>2, <1>3, <1>4, <1>5, <1>6, <1>7, <1>8 DEF Next

LEMMA CandidateInvariant == Spec => [](PeerInv /\ CandidateInv)
<1>1. Init => PeerInv /\ CandidateInv
    BY PeerInit, CandidateInit
<1>2. PeerInv /\ CandidateInv /\ [Next]_vars => PeerInv' /\ CandidateInv'
    BY PeerStep, CandidateStep DEF PeerInv
<1>3. QED
    BY <1>1, <1>2, PTL DEF Spec

\* A candidate NotifySignal has taken is there when the negotiation waits for
\* the remote peer, in whatever order signals are delivered and the Conn is
\* published.
THEOREM CandidateAlwaysKept == Spec => []CandidateKept
<1>1. PeerInv /\ CandidateInv => CandidateKept
  <2> SUFFICES ASSUME PeerInv, CandidateInv,
                      NEW n \in Neg, promised[n], pc[n] \in Finalising,
                      ~Closed(n), ~ConnDone(n)
               PROVE  candidate[n]
    BY DEF CandidateKept
  <2>1. pc[n] # "replay" /\ published[n]
    BY DEF PeerInv, FinalisingPublished, Finalising
  <2>2. ~Has(deferred[n])
    BY <2>1 DEF CandidateInv, NothingStranded, Has
  <2>3. QED
    BY <2>1, <2>2 DEF CandidateInv, Kept
<1>2. QED
    BY CandidateInvariant, <1>1, PTL

\* Nothing is deferred for a goroutine that will not replay it, and never more
\* than MaxPending signals.
THEOREM NothingEverStranded == Spec => []NothingStranded
<1>1. CandidateInv => NothingStranded
    BY DEF CandidateInv
<1>2. QED
    BY CandidateInvariant, <1>1, PTL

-----------------------------------------------------------------------------
(* Release: the transports of a failed offer, and the owners of a Listener  *)
(* that has been closed.                                                    *)

Failed == {"closeSelf", "report", "reply", "finish", "unregister", "release",
           "done"}

\* A Conn that has been published was created before.
PublishedConn ==
    \A n \in Neg :
        /\ published[n] => conn[n] # "none"
        /\ pc[n] \in {"gather", "inline", "identity", "answer", "trickle",
                      "publish"} => conn[n] # "none"

LEMMA ReleaseInit == Init => PublishedConn /\ FailedConnReleased
BY DEF Init, PublishedConn, FailedConnReleased

LEMMA ReleaseStep ==
    /\ TypeOK /\ PeerInv
    /\ PublishedConn /\ FailedConnReleased
    /\ [Next]_vars
    => PublishedConn' /\ FailedConnReleased'
<1> DEFINE Rest == PublishedConn /\ FailedConnReleased
<1> SUFFICES ASSUME TypeOK, PeerInv, Rest, [Next]_vars
             PROVE  Rest'
    OBVIOUS
<1>0. TypeOK /\ TypeOK'
    BY TypeStep
<1> USE DEF PublishedConn, FailedConnReleased
<1> USE DEF shutdown, registry, ownership, offering, transport, history
<1>1. ASSUME NEW k \in Key, Admit(k)
      PROVE  Rest'
    BY <1>0, <1>1 DEF Admit, TypeOK
<1>2. ASSUME NEW t \in Caller, NEW k \in Key, NEW sig \in Incoming,
             Route(t, k, sig)
      PROVE  Rest'
    BY <1>2 DEF Route
<1>3. ASSUME NEW t \in Caller, CallStep(t)
      PROVE  Rest'
  <2>1. CASE ConnError(t)
    <3>1. PICK n \in Neg : n = call[t].neg /\ published[n]
      BY <2>1, <1>0, CallNeg DEF ConnError, PeerInv, CallersKnow
    <3>2. /\ UNCHANGED <<pc, published, accepted>>
          /\ \/ conn' = conn
             \/ /\ ~ConnDone(n)
                /\ conn' = [conn EXCEPT ![n] = "canceled"]
      BY <2>1, <3>1 DEF ConnError
    <3>3. ConnDone(n) \/ conn[n] = "open"
      BY <3>1 DEF ConnDone
    <3>4. CASE conn' = conn
      BY <3>2, <3>4
    <3>5. CASE conn[n] = "open" /\ conn' = [conn EXCEPT ![n] = "canceled"]
      <4>1. /\ conn'[n] = "canceled"
            /\ \A m \in Neg \ {n} : conn'[m] = conn[m]
        BY <1>0, <3>5 DEF TypeOK
      <4>2. QED
        BY <3>2, <3>5, <4>1
    <3>6. QED
      BY <3>2, <3>3, <3>4, <3>5
  <2>2. CASE ~ConnError(t)
    BY <1>3, <2>2 DEF CallStep, HandleSignal, HandleError, OwnerClosed,
         HandleCandidate, ConnCandidate
  <2>3. QED
    BY <2>1, <2>2
<1>4. ASSUME NEW n \in Neg, Negotiate(n)
      PROVE  Rest'
  <2> USE DEF At, Unwind
  <2>1. CASE StagePass(n)
    <3>1. pc[n] \in {"parse", "credentials", "newConn", "gather", "inline",
                     "identity", "answer", "trickle"}
      BY <2>1 DEF StagePass, Stages, NextStage
    <3>2. /\ UNCHANGED <<published, accepted>>
          /\ pc' = [pc EXCEPT ![n] = NextStage[pc[n]]]
          /\ conn' = [conn EXCEPT ![n] =
                        IF pc[n] = "newConn" THEN "open" ELSE conn[n]]
      BY <2>1 DEF StagePass
    <3>3. /\ NextStage[pc[n]] \notin Failed
          /\ NextStage[pc[n]] \in {"gather", "inline", "identity", "answer",
                                   "trickle", "publish"}
               => pc[n] \in {"newConn", "gather", "inline", "identity",
                             "answer", "trickle"}
      BY <3>1 DEF NextStage, Failed
    <3>4. /\ \A m \in Neg \ {n} : pc'[m] = pc[m] /\ conn'[m] = conn[m]
          /\ pc'[n] = NextStage[pc[n]]
          /\ pc[n] = "newConn" => conn'[n] = "open"
          /\ pc[n] # "newConn" => conn'[n] = conn[n]
      BY <1>0, <3>2 DEF TypeOK
    <3>5. PublishedConn'
      BY <3>2, <3>3, <3>4
    <3>6. FailedConnReleased'
      BY <3>2, <3>3, <3>4 DEF Failed
    <3>7. QED
      BY <3>5, <3>6
  <2>2. CASE StageFail(n) \/ FinaliseFail(n) \/ (Publish(n) /\ ~MayPublish(n))
    <3>1. /\ UNCHANGED <<conn, published, accepted>>
          /\ pc' = [pc EXCEPT ![n] = IF conn[n] = "none" THEN "closeSelf"
                                                        ELSE "closeConn"]
      BY <2>2 DEF StageFail, FinaliseFail, Publish
    <3>2. QED
      BY <1>0, <3>1 DEF TypeOK
  <2>3. CASE Publish(n) /\ MayPublish(n)
    <3>1. /\ UNCHANGED <<conn, accepted>>
          /\ pc[n] = "publish"
          /\ pc' = [pc EXCEPT ![n] = "replay"]
          /\ published' = [published EXCEPT ![n] = TRUE]
      BY <2>3 DEF Publish
    <3>2. QED
      BY <1>0, <3>1 DEF TypeOK
  <2>4. CASE Replay(n)
    BY <2>4 DEF Replay
  <2>5. CASE Finalise(n) \/ CandidateReceived(n) \/ TransportsStarted(n)
             \/ ChannelsReady(n)
    <3>1. /\ UNCHANGED <<conn, published, accepted>>
          /\ \E l \in {"await", "start", "channels", "deliver"} :
                pc' = [pc EXCEPT ![n] = l]
      BY <2>5 DEF Finalise, CandidateReceived, TransportsStarted,
           ChannelsReady
    <3>2. QED
      BY <1>0, <3>1 DEF TypeOK
  <2>6. CASE Accept(n)
    BY <1>0, <2>6 DEF Accept, TypeOK
  <2>7. CASE CloseConn(n)
    <3>1. /\ UNCHANGED <<published, accepted>>
          /\ pc[n] = "closeConn"
          /\ \/ conn' = [conn EXCEPT ![n] = "closing"] /\ pc' = pc
             \/ /\ conn' = conn /\ conn[n] = "closed"
                /\ pc' = [pc EXCEPT ![n] = "closeSelf"]
      BY <2>7 DEF CloseConn, ConnCloseReturns
    <3>2. CASE conn' = [conn EXCEPT ![n] = "closing"] /\ pc' = pc
      <4>1. /\ conn'[n] = "closing"
            /\ \A m \in Neg \ {n} : conn'[m] = conn[m]
        BY <1>0, <3>2 DEF TypeOK
      <4>2. QED
        BY <3>1, <3>2, <4>1
    <3>3. CASE /\ conn' = conn /\ conn[n] = "closed"
               /\ pc' = [pc EXCEPT ![n] = "closeSelf"]
      <4>1. /\ pc'[n] = "closeSelf"
            /\ \A m \in Neg \ {n} : pc'[m] = pc[m]
        BY <1>0, <3>3 DEF TypeOK
      <4>2. QED
        BY <3>1, <3>3, <4>1
    <3>4. QED
      BY <3>1, <3>2, <3>3
  <2>8. CASE CloseSelf(n) \/ Report(n) \/ Replied(n) \/ Unregister(n)
             \/ Release(n) \/ Finish(n)
    <3>1. /\ UNCHANGED <<conn, published, accepted>>
          /\ pc[n] \in Failed
          /\ \E l \in Failed : pc' = [pc EXCEPT ![n] = l]
      BY <2>8 DEF CloseSelf, Report, Replied, Unregister, Release, Finish,
           AfterFinish, Failed
    <3>2. QED
      BY <1>0, <3>1 DEF TypeOK, Failed
  <2>9. QED
    BY <1>4, <2>1, <2>2, <2>3, <2>4, <2>5, <2>6, <2>7, <2>8 DEF Negotiate
<1>5. ASSUME NEW n \in Neg, Expire(n) \/ CancelContext(n)
                            \/ OwnerCloseStep(n)
      PROVE  Rest'
    BY <1>5 DEF Expire, CancelContext, OwnerCloseStep, OwnerClose,
         OwnerClear, OwnerUnregister
<1>6. ASSUME NEW n \in Neg, ConnFail(n) \/ ConnCloseStep(n) \/ TrickleStep(n)
      PROVE  Rest'
  <2>1. /\ UNCHANGED <<pc, published, accepted>>
        /\ \/ conn' = conn
           \/ /\ conn[n] \notin {"none", "closed"}
              /\ \E c \in {"closing", "stopping", "closed"} :
                    conn' = [conn EXCEPT ![n] = c]
    BY <1>0, <1>6 DEF ConnFail, ConnCloseStep, ConnClose, ConnOwnerClosed,
         ConnStopped, SetConn, TrickleStep, TrickleSend, TrickleFailed,
         TypeOK
  <2>2. CASE conn' = conn
    BY <2>1, <2>2
  <2>3. ASSUME conn[n] \notin {"none", "closed"},
               NEW c \in {"closing", "stopping", "closed"},
               conn' = [conn EXCEPT ![n] = c]
        PROVE  Rest'
    <3>1. conn'[n] = c /\ \A m \in Neg \ {n} : conn'[m] = conn[m]
      BY <1>0, <2>3 DEF TypeOK
    <3>2. QED
      BY <2>1, <2>3, <3>1
  <2>4. QED
    BY <2>1, <2>2, <2>3
<1>7. CASE SignalingDone \/ Close \/ CloseNext \/ UNCHANGED vars
    BY <1>7 DEF SignalingDone, Close, CloseNext, vars
<1>8. QED
    BY <1>1, <1>2, <1>3, <1>4, <1>5, <1>6, <1>7 DEF Next

\* A failed offer has released its transports before negotiate replies and
\* gives up its slot, whoever closed the Conn.
THEOREM FailedConnAlwaysReleased == Spec => []FailedConnReleased
<1>1. Init => PeerInv /\ PublishedConn /\ FailedConnReleased
    BY PeerInit, ReleaseInit
<1>2. /\ PeerInv /\ PublishedConn /\ FailedConnReleased
      /\ [Next]_vars
      => PeerInv' /\ PublishedConn' /\ FailedConnReleased'
    BY PeerStep, ReleaseStep DEF PeerInv
<1>3. QED
    BY <1>1, <1>2, PTL DEF Spec

\* Close has copied every owner that is still open: whoever was admitted
\* before it holds its key.
Visited ==
    lst # "open" =>
        \A n \in Neg :
            pc[n] # "idle" => Closed(n) \/ n \in toClose \/ lstAt = n

NothingToVisit == lst = "closed" => toClose = {} /\ lstAt = NoNeg

LEMMA ShutdownStep ==
    TypeOK /\ RegistryInv /\ Visited /\ NothingToVisit /\ [Next]_vars
    => Visited' /\ NothingToVisit'
<1> DEFINE Rest == Visited /\ NothingToVisit
<1> SUFFICES ASSUME TypeOK, RegistryInv, Rest, [Next]_vars
             PROVE  Rest'
    OBVIOUS
<1>0. TypeOK /\ TypeOK'
    BY TypeStep
<1> USE DEF Visited, NothingToVisit, Closed
<1>1. CASE Bystanders /\ ~Close /\ ~CloseNext
  <2>1. UNCHANGED <<pc, once>>
    BY <1>1, BystanderStep DEF registryView
  <2>2. UNCHANGED <<lst, lstAt, toClose>>
    BY <1>1 DEF Bystanders, Route, CallStep, HandleSignal, HandleError,
         OwnerClosed, ConnError, HandleCandidate, ConnCandidate, Expire,
         CancelContext, ConnFail, ConnCloseStep, ConnClose, ConnOwnerClosed,
         ConnStopped, SetConn, TrickleStep, TrickleSend, TrickleFailed,
         SignalingDone, vars, shutdown
  <2>3. QED
    BY <2>1, <2>2
<1>2. CASE Close
  <2>1. /\ lst' = "closing"
        /\ toClose' = {owner[k] : k \in Key} \ {NoNeg}
        /\ UNCHANGED <<pc, once>>
    BY <1>2 DEF Close, ownership, offering
  <2>2. ASSUME NEW n \in Neg, pc[n] # "idle", ~Closed(n)
        PROVE  n \in toClose'
    <3>1. pc[n] # "unregister" /\ once[n] = "open"
      BY <2>2 DEF RegistryInv, UnregisterJustified
    <3>2. pc[n] \in Unfinished \/ pc[n] \in {"release", "done"}
      BY <1>0, <2>2, <3>1, LocationFacts DEF TypeOK
    <3>3. owner[key[n]] = n
      BY <3>1, <3>2 DEF RegistryInv, KeyReserved
    <3>4. key[n] \in Key /\ n # NoNeg
      BY <1>0 DEF TypeOK
    <3>5. QED
      BY <2>1, <3>3, <3>4
  <2>3. QED
    BY <2>1, <2>2
<1>3. CASE CloseNext
  <2>1. /\ lst = "closing"
        /\ lstAt # NoNeg => once[lstAt] = "done"
        /\ UNCHANGED <<pc, once>>
    BY <1>3 DEF CloseNext, ownership, offering
  <2>2. \/ \E n \in toClose : /\ lstAt' = n /\ toClose' = toClose \ {n}
                              /\ lst' = lst
        \/ toClose = {} /\ lstAt' = NoNeg /\ lst' = "closed"
           /\ toClose' = toClose
    BY <1>3 DEF CloseNext
  <2>3. \A n \in Neg : pc[n] # "idle" => Closed(n) \/ n \in toClose
    BY <2>1
  <2>4. QED
    BY <2>1, <2>2, <2>3
<1>4. ASSUME NEW k \in Key, Admit(k)
      PROVE  Rest'
    BY <1>4 DEF Admit, Notifies, shutdown
<1>5. ASSUME NEW n \in Neg, Negotiate(n)
      PROVE  Rest'
  <2>1. UNCHANGED <<lst, lstAt, toClose, once>>
    BY <1>5 DEF Negotiate, StagePass, StageFail, Publish, Replay, Finalise,
         CandidateReceived, TransportsStarted, ChannelsReady, Accept,
         FinaliseFail, CloseConn, CloseSelf, Report, Replied, Finish,
         Unregister, Release, shutdown, ownership
  <2>2. pc[n] # "idle" /\ \A m \in Neg \ {n} : pc'[m] = pc[m]
    <3>1. CASE Finish(n) \/ Unregister(n) \/ Release(n)
      BY <1>0, <3>1 DEF Finish, Unregister, Release, At, TypeOK
    <3>2. CASE ~Finish(n) /\ ~Unregister(n) /\ ~Release(n)
      <4>1. /\ pc[n] \in Unfinished
            /\ \E l \in Unfinished : pc' = [pc EXCEPT ![n] = l]
        BY <1>0, <1>5, <3>2, NegotiatingStep
      <4>2. pc[n] # "idle"
        BY <4>1, LocationFacts
      <4>3. \A m \in Neg \ {n} : pc'[m] = pc[m]
        BY <1>0, <4>1 DEF TypeOK
      <4>4. QED
        BY <4>2, <4>3
    <3>3. QED
      BY <3>1, <3>2
  <2>3. QED
    BY <2>1, <2>2
<1>6. ASSUME NEW n \in Neg, OwnerCloseStep(n)
      PROVE  Rest'
  <2>1. /\ UNCHANGED <<lst, lstAt, toClose, pc>>
        /\ \E o \in {"closed", "unregister", "done"} :
              once' = [once EXCEPT ![n] = o]
    BY <1>6 DEF OwnerCloseStep, OwnerClose, OwnerClear, AfterClear,
         OwnerUnregister, shutdown, offering
  <2>2. QED
    BY <1>0, <2>1 DEF TypeOK
<1>7. QED
    BY <1>1, <1>2, <1>3, <1>4, <1>5, <1>6, NextCases

\* Listener.Close returns only once every owner ever admitted is closed.
THEOREM ShutdownAlwaysComplete == Spec => []ShutdownComplete
<1>1. Init => RegistryInv /\ Visited /\ NothingToVisit
    BY RegistryInit DEF Init, Visited, NothingToVisit
<1>2. /\ RegistryInv /\ Visited /\ NothingToVisit
      /\ [Next]_vars
      => RegistryInv' /\ Visited' /\ NothingToVisit'
    BY RegistryStep, ShutdownStep DEF RegistryInv
<1>3. RegistryInv /\ Visited /\ NothingToVisit => ShutdownComplete
    BY DEF RegistryInv, TypeOK, Visited, NothingToVisit, ShutdownComplete
<1>4. QED
    BY <1>1, <1>2, <1>3, PTL DEF Spec

-----------------------------------------------------------------------------
(* The Listener implements OfferSession *)

\* What a negotiation that has not been accepted owes to n.close, which
\* negotiate has waited for before it reports the failure.
OutcomeInv ==
    \A n \in Neg :
        /\ accepted[n] => pc[n] \in {"finish", "unregister", "release", "done"}
        /\ \/ pc[n] \in {"report", "reply"}
           \/ ~accepted[n]
              /\ pc[n] \in {"finish", "unregister", "release", "done"}
           => once[n] = "done"

SessionInv == RegistryInv /\ SlotInv /\ OutcomeInv

LEMMA OutcomeInit == Init => OutcomeInv
BY DEF Init, OutcomeInv

\* The steps that neither move a negotiation nor close its owner.
LEMMA BystanderOutcome == Bystanders => UNCHANGED accepted
<1> USE DEF history
<1>1. ASSUME NEW t \in Caller, CallStep(t)
      PROVE  UNCHANGED accepted
  BY <1>1 DEF CallStep, HandleSignal, HandleError, OwnerClosed, ConnError,
       HandleCandidate, ConnCandidate
<1>2. ASSUME NEW n \in Neg, Expire(n) \/ CancelContext(n)
      PROVE  UNCHANGED accepted
  BY <1>2 DEF Expire, CancelContext
<1>3. ASSUME NEW n \in Neg, ConnFail(n) \/ ConnCloseStep(n) \/ TrickleStep(n)
      PROVE  UNCHANGED accepted
  BY <1>3 DEF ConnFail, ConnCloseStep, ConnClose, ConnOwnerClosed,
       ConnStopped, SetConn, TrickleStep, TrickleSend, TrickleFailed
<1>4. CASE SignalingDone \/ Close \/ CloseNext \/ UNCHANGED vars
  BY <1>4 DEF SignalingDone, Close, CloseNext, vars
<1>5. CASE \E t \in Caller, k \in Key, sig \in Incoming : Route(t, k, sig)
  BY <1>5 DEF Route
<1>6. QED
  BY <1>1, <1>2, <1>3, <1>4, <1>5 DEF Bystanders

\* A step of handleOffer that is neither Accept nor one of the tail of
\* negotiate.
Working == {"parse", "credentials", "newConn", "gather", "inline", "identity",
            "answer", "trickle", "publish", "replay", "closeConn", "await",
            "start", "channels", "deliver", "closeSelf"}

LEMMA WorkingStep ==
    ASSUME TypeOK, NEW n \in Neg, Negotiate(n), pc[n] \in Working,
           ~Accept(n), ~CloseSelf(n)
    PROVE  /\ \E l \in Working : pc' = [pc EXCEPT ![n] = l]
           /\ UNCHANGED <<owner, sem, key, once, finished, accepted>>
<1> USE DEF At, Unwind, shutdown, registry, ownership, history, Working
<1>1. CASE StagePass(n)
  <2>1. NextStage[pc[n]] \in Working
    BY <1>1, NextStageType DEF StagePass, Stages, NextStage
  <2>2. QED
    BY <1>1, <2>1 DEF StagePass
<1>2. CASE StageFail(n)
  BY <1>2 DEF StageFail
<1>3. CASE Publish(n)
  BY <1>3 DEF Publish
<1>4. CASE Replay(n)
  BY <1>4 DEF Replay, TypeOK
<1>5. CASE Finalise(n) \/ CandidateReceived(n) \/ TransportsStarted(n)
           \/ ChannelsReady(n)
  BY <1>5 DEF Finalise, CandidateReceived, TransportsStarted, ChannelsReady
<1>6. CASE FinaliseFail(n)
  BY <1>6 DEF FinaliseFail, Finalising
<1>7. CASE CloseConn(n)
  BY <1>7 DEF CloseConn, TypeOK
<1>8. CASE Report(n) \/ Replied(n) \/ Finish(n) \/ Unregister(n) \/ Release(n)
  BY <1>8 DEF Report, Replied, Finish, Unregister, Release
<1>9. QED
  BY <1>1, <1>2, <1>3, <1>4, <1>5, <1>6, <1>7, <1>8 DEF Negotiate

LEMMA NegotiateCases ==
    ASSUME TypeOK, NEW n \in Neg, Negotiate(n)
    PROVE  \/ pc[n] \in Working /\ ~Accept(n) /\ ~CloseSelf(n)
           \/ Accept(n) \/ CloseSelf(n) \/ Report(n) \/ Replied(n)
           \/ Finish(n) \/ Unregister(n) \/ Release(n)
BY DEF Negotiate, StagePass, StageFail, Publish, Replay, Finalise,
     CandidateReceived, TransportsStarted, ChannelsReady, FinaliseFail,
     CloseConn, Working, Finalising, Stages, NextStage

LEMMA OutcomeStep ==
    TypeOK /\ TypeOK' /\ OutcomeInv /\ [Next]_vars => OutcomeInv'
<1> SUFFICES ASSUME TypeOK, TypeOK', OutcomeInv, [Next]_vars
             PROVE  OutcomeInv'
    OBVIOUS
<1> USE DEF OutcomeInv
<1>1. CASE Bystanders
    BY <1>1, BystanderStep, BystanderOutcome DEF registryView
<1>2. ASSUME NEW k \in Key, Admit(k)
      PROVE  OutcomeInv'
  <2>1. PICK n \in Neg : pc[n] = "idle" /\ pc' = [pc EXCEPT ![n] = "parse"]
    BY <1>2 DEF Admit
  <2>2. UNCHANGED <<once, accepted>>
    BY <1>2 DEF Admit, ownership, history
  <2>3. QED
    BY <2>1, <2>2 DEF TypeOK
<1>3. ASSUME NEW n \in Neg, pc[n] \in Working, Negotiate(n),
             ~Accept(n), ~CloseSelf(n)
      PROVE  OutcomeInv'
  <2>1. PICK l \in Working : pc' = [pc EXCEPT ![n] = l]
    BY <1>3, WorkingStep
  <2>2. UNCHANGED <<once, accepted>>
    BY <1>3, WorkingStep
  <2>3. QED
    BY <1>3, <2>1, <2>2 DEF Working, TypeOK
<1>4. ASSUME NEW n \in Neg, Accept(n)
      PROVE  OutcomeInv'
    BY <1>4 DEF Accept, At, ownership, TypeOK
<1>5. ASSUME NEW n \in Neg,
             CloseSelf(n) \/ Report(n) \/ Replied(n)
      PROVE  OutcomeInv'
  <2>1. /\ pc[n] \in {"closeSelf", "report", "reply"}
        /\ pc[n] = "closeSelf" => once[n] = "done"
        /\ \E l \in {"report", "reply", "finish"} : pc' = [pc EXCEPT ![n] = l]
        /\ UNCHANGED <<once, accepted>>
    BY <1>5 DEF CloseSelf, Report, Replied, At, ownership, history
  <2>2. QED
    BY <2>1 DEF TypeOK
<1>6. ASSUME NEW n \in Neg, Finish(n) \/ Unregister(n) \/ Release(n)
      PROVE  OutcomeInv'
  <2>1. /\ pc[n] \in {"finish", "unregister", "release"}
        /\ \E l \in {"unregister", "release", "done"} :
             pc' = [pc EXCEPT ![n] = l]
        /\ UNCHANGED <<once, accepted>>
    BY <1>6 DEF Finish, AfterFinish, Unregister, Release, At, ownership,
         history
  <2>2. QED
    BY <2>1 DEF TypeOK
<1>7. ASSUME NEW n \in Neg, OwnerCloseStep(n)
      PROVE  OutcomeInv'
  <2>1. /\ UNCHANGED <<pc, accepted>>
        /\ once[n] # "done"
        /\ \E o \in OnceStates : once' = [once EXCEPT ![n] = o]
    BY <1>7 DEF OwnerCloseStep, OwnerClose, OwnerClear, OwnerUnregister,
         AfterClear, OnceStates, offering, history
  <2>2. QED
    BY <2>1 DEF TypeOK
<1>8. QED
    BY <1>1, <1>2, <1>3, <1>4, <1>5, <1>6, <1>7, NextCases, NegotiateCases

LEMMA SessionInvariant == Spec => []SessionInv
<1>1. TypeOK /\ [Next]_vars => TypeOK'
    BY TypeStep
<1>2. OutcomeInv /\ TypeOK /\ [Next]_vars => OutcomeInv'
    BY OutcomeStep, <1>1
<1>3. Spec => []OutcomeInv
    BY OutcomeInit, TypeCorrect, <1>2, PTL DEF Spec
<1>4. Spec => []SlotInv
    BY SlotInit, SlotStep, PTL DEF Spec
<1>5. QED
    BY <1>3, <1>4, RegistryInvariant, PTL DEF SessionInv

-----------------------------------------------------------------------------
(* The simulation *)

stageOf == [n \in Neg |-> StageOf(n)]

LEMMA StageFacts ==
    /\ Unfinished = {"parse", "credentials", "newConn", "gather", "inline",
          "identity", "answer", "trickle", "publish", "replay", "closeConn",
          "await", "start", "channels", "deliver", "closeSelf", "report",
          "reply", "finish"}
    /\ Working \subseteq Unfinished \ {"finish", "reply", "report"}
BY LocationFacts DEF Working

LEMMA SimulateInit == Init => Session!Init
<1> SUFFICES ASSUME Init PROVE Session!Init
    OBVIOUS
<1>1. stageOf = [n \in Neg |-> "new"]
    BY DEF Init, stageOf, StageOf
<1>2. QED
    BY <1>1 DEF Init, Session!Init, stageOf

\* Where the stage of one session changes, and the others keep theirs.
LEMMA StageUpdate ==
    ASSUME NEW n \in Neg, NEW v,
           \A m \in Neg \ {n} : pc'[m] = pc[m] /\ accepted'[m] = accepted[m],
           StageOf(n)' = v
    PROVE  stageOf' = [stageOf EXCEPT ![n] = v]
<1>1. \A m \in Neg \ {n} : StageOf(m)' = StageOf(m)
    BY DEF StageOf
<1>2. QED
    BY <1>1 DEF stageOf

LEMMA StageSame ==
    ASSUME NEW n \in Neg,
           \A m \in Neg \ {n} : pc'[m] = pc[m] /\ accepted'[m] = accepted[m],
           StageOf(n)' = StageOf(n)
    PROVE  stageOf' = stageOf
<1>1. \A m \in Neg : StageOf(m)' = StageOf(m)
    BY DEF StageOf
<1>2. QED
    BY <1>1 DEF stageOf

sessionVars == <<owner, sem, stageOf>>

LEMMA SimulateNext ==
    SessionInv /\ SessionInv' /\ [Next]_vars
        => Session!Next \/ UNCHANGED sessionVars
<1> SUFFICES ASSUME SessionInv, SessionInv', [Next]_vars
             PROVE  Session!Next \/ UNCHANGED sessionVars
    OBVIOUS
<1> USE DEF sessionVars
<1>0. TypeOK /\ TypeOK' /\ OutcomeInv /\ RegistryInv /\ SlotInv
    BY DEF SessionInv, SlotInv
<1>1. CASE Bystanders
  <2>1. UNCHANGED <<owner, sem, pc, accepted>>
    BY <1>1, BystanderStep, BystanderOutcome DEF registryView
  <2>2. QED
    BY <2>1 DEF stageOf, StageOf
<1>2. ASSUME NEW k \in Key, Admit(k)
      PROVE  Session!Next
  <2>1. PICK n \in Neg :
            /\ pc[n] = "idle"
            /\ owner' = [owner EXCEPT ![k] = n]
            /\ sem' = sem \cup {n}
            /\ pc' = [pc EXCEPT ![n] = "parse"]
    BY <1>2 DEF Admit
  <2>2. /\ owner[k] = NoNeg
        /\ Cardinality(sem) < MaxNegotiations
        /\ UNCHANGED accepted
        /\ ~accepted[n]
    BY <1>0, <1>2, <2>1 DEF Admit, SlotFree, history, OutcomeInv
  <2>3. stageOf[n] = "new"
    BY <2>1, <2>2 DEF stageOf, StageOf
  <2>4. stageOf' = [stageOf EXCEPT ![n] = "negotiating"]
    <3>1. StageOf(n)' = "negotiating"
      BY <1>0, <2>1, <2>2, StageFacts DEF StageOf, TypeOK
    <3>2. QED
      BY <1>0, <2>1, <2>2, <3>1, StageUpdate DEF TypeOK
  <2>5. stageOf[n] = StageOf(n)
    BY DEF stageOf
  <2>6. Session!Cardinality(sem) < MaxNegotiations
    BY <2>2 DEF Cardinality, Session!Cardinality
  <2>7. Session!Admit(n, k)
    BY <2>1, <2>2, <2>3, <2>4, <2>5, <2>6 DEF Session!Admit, stageOf
  <2>8. QED
    BY <2>7 DEF Session!Next
<1>3. ASSUME NEW n \in Neg, pc[n] \in Working, Negotiate(n),
             ~Accept(n), ~CloseSelf(n)
      PROVE  UNCHANGED sessionVars
  <2>1. PICK l \in Working : pc' = [pc EXCEPT ![n] = l]
    BY <1>0, <1>3, WorkingStep
  <2>2. UNCHANGED <<owner, sem, accepted>>
    BY <1>0, <1>3, WorkingStep
  <2>3. StageOf(n)' = StageOf(n)
    BY <1>0, <1>3, <2>1, <2>2, StageFacts DEF StageOf, TypeOK, Working
  <2>4. QED
    BY <1>0, <2>1, <2>2, <2>3, StageSame DEF TypeOK
<1>4. ASSUME NEW n \in Neg, Accept(n)
      PROVE  Session!Next
  <2>1. /\ pc[n] = "deliver" /\ ~accepted[n]
        /\ pc' = [pc EXCEPT ![n] = "finish"]
        /\ accepted' = [accepted EXCEPT ![n] = TRUE]
        /\ UNCHANGED <<owner, sem>>
    BY <1>0, <1>4 DEF Accept, At, registry, OutcomeInv, TypeOK
  <2>2. stageOf[n] = "negotiating"
    BY <2>1, StageFacts DEF stageOf, StageOf
  <2>3. stageOf' = [stageOf EXCEPT ![n] = "established"]
    <3>1. StageOf(n)' = "established"
      BY <1>0, <2>1 DEF StageOf, TypeOK
    <3>2. QED
      BY <1>0, <2>1, <3>1, StageUpdate DEF TypeOK
  <2>4. key[n] \in Key /\ owner[key[n]] = n
    BY <1>0, <2>1, StageFacts DEF RegistryInv, KeyReserved, TypeOK
  <2>5. Session!Establish(n)
    BY <2>1, <2>2, <2>3, <2>4 DEF Session!Establish, stageOf
  <2>6. QED
    BY <2>5 DEF Session!Next
<1>5. ASSUME NEW n \in Neg, CloseSelf(n)
      PROVE  UNCHANGED sessionVars
  <2>1. /\ pc[n] = "closeSelf" /\ pc' = [pc EXCEPT ![n] = "report"]
        /\ UNCHANGED <<owner, sem, accepted>>
    BY <1>5 DEF CloseSelf, At, registry, history
  <2>2. StageOf(n)' = StageOf(n)
    BY <1>0, <2>1, StageFacts DEF StageOf, TypeOK
  <2>3. QED
    BY <1>0, <2>1, <2>2, StageSame DEF TypeOK
<1>6. ASSUME NEW n \in Neg, Report(n) \/ Replied(n)
      PROVE  Session!Next
  <2>1. /\ UNCHANGED <<owner, sem, accepted>>
        /\ ~accepted[n]
        /\ \/ pc[n] = "report" /\ pc' = [pc EXCEPT ![n] = "reply"]
           \/ /\ pc[n] \in {"report", "reply"}
              /\ pc' = [pc EXCEPT ![n] = "finish"]
    BY <1>0, <1>6 DEF Report, Replied, At, registry, history, OutcomeInv
  <2>2. key[n] \in Key /\ owner[key[n]] = n
    BY <1>0, <2>1, StageFacts DEF RegistryInv, KeyReserved, TypeOK
  <2>3. CASE pc[n] = "report" /\ pc' = [pc EXCEPT ![n] = "reply"]
    <3>1. stageOf[n] = "negotiating" /\ StageOf(n)' = "replying"
      BY <1>0, <2>1, <2>3, StageFacts DEF stageOf, StageOf, TypeOK
    <3>2. stageOf' = [stageOf EXCEPT ![n] = "replying"]
      BY <1>0, <2>1, <2>3, <3>1, StageUpdate DEF TypeOK
    <3>3. Session!StartReply(n)
      BY <2>1, <2>2, <3>1, <3>2 DEF Session!StartReply, stageOf
    <3>4. QED
      BY <3>3 DEF Session!Next
  <2>4. CASE /\ pc[n] \in {"report", "reply"}
             /\ pc' = [pc EXCEPT ![n] = "finish"]
    <3>1. /\ stageOf[n] \in {"negotiating", "replying"}
          /\ StageOf(n)' = "failed"
      BY <1>0, <2>1, <2>4, StageFacts DEF stageOf, StageOf, TypeOK
    <3>2. stageOf' = [stageOf EXCEPT ![n] = "failed"]
      BY <1>0, <2>1, <2>4, <3>1, StageUpdate DEF TypeOK
    <3>3. Session!Fail(n)
      BY <2>1, <2>2, <3>1, <3>2 DEF Session!Fail, stageOf
    <3>4. QED
      BY <3>3 DEF Session!Next
  <2>5. QED
    BY <2>1, <2>3, <2>4
<1>7. ASSUME NEW n \in Neg, Finish(n)
      PROVE  UNCHANGED sessionVars
  <2>1. /\ pc[n] = "finish"
        /\ \E l \in {"unregister", "release"} : pc' = [pc EXCEPT ![n] = l]
        /\ UNCHANGED <<owner, sem, accepted>>
    BY <1>7 DEF Finish, AfterFinish, At, registry, history
  <2>2. StageOf(n)' = StageOf(n)
    BY <1>0, <2>1, StageFacts DEF StageOf, TypeOK
  <2>3. QED
    BY <1>0, <2>1, <2>2, StageSame DEF TypeOK
<1>8. ASSUME NEW n \in Neg, owner' = Unregistered(n), stageOf' = stageOf,
             UNCHANGED sem, stageOf[n] \in {"failed", "established"}
      PROVE  Session!Next \/ UNCHANGED sessionVars
  <2>1. CASE owner[key[n]] = n
    <3>1. Session!Forget(n, key[n]) /\ key[n] \in Key
      BY <1>0, <1>8, <2>1 DEF Unregistered, Session!Forget, stageOf, TypeOK
    <3>2. QED
      BY <3>1 DEF Session!Next
  <2>2. CASE owner[key[n]] # n
    BY <1>8, <2>2 DEF Unregistered
  <2>3. QED
    BY <2>1, <2>2
<1>9. ASSUME NEW n \in Neg, Unregister(n)
      PROVE  Session!Next \/ UNCHANGED sessionVars
  <2>1. /\ pc[n] = "unregister" /\ pc' = [pc EXCEPT ![n] = "release"]
        /\ owner' = Unregistered(n)
        /\ UNCHANGED <<sem, accepted>>
    BY <1>9 DEF Unregister, At, history
  <2>2. StageOf(n)' = StageOf(n) /\ stageOf[n] \in {"failed", "established"}
    BY <1>0, <2>1, StageFacts DEF stageOf, StageOf, TypeOK
  <2>3. stageOf' = stageOf
    BY <1>0, <2>1, <2>2, StageSame DEF TypeOK
  <2>4. QED
    BY <1>8, <2>1, <2>2, <2>3
<1>10. ASSUME NEW n \in Neg, Release(n)
       PROVE  Session!Next
  <2>1. /\ pc[n] = "release" /\ pc' = [pc EXCEPT ![n] = "done"]
        /\ sem' = sem \ {n}
        /\ UNCHANGED <<owner, accepted>>
    BY <1>10 DEF Release, At, history
  <2>2. StageOf(n)' = StageOf(n) /\ stageOf[n] \in {"failed", "established"}
    BY <1>0, <2>1, StageFacts DEF stageOf, StageOf, TypeOK
  <2>3. stageOf' = stageOf
    BY <1>0, <2>1, <2>2, StageSame DEF TypeOK
  <2>4. n \in sem
    BY <1>0, <2>1, RunningFacts DEF SlotInv
  <2>5. stageOf[n] = "failed" => \A k \in Key : owner[k] # n
    <3>1. stageOf[n] = "failed" => ~accepted[n]
      BY DEF stageOf, StageOf
    <3>2. ~accepted[n] => owner[key[n]] # n
      BY <1>0, <2>1 DEF OutcomeInv, RegistryInv, ClosedOwnerRemoved
    <3>3. \A k \in Key : owner[k] = n => key[n] = k
      BY <1>0, ListenerAssumption DEF RegistryInv, OwnerHasKey
    <3>4. QED
      BY <3>1, <3>2, <3>3
  <2>6. Session!ReleaseSlot(n)
    BY <2>1, <2>2, <2>3, <2>4, <2>5 DEF Session!ReleaseSlot, stageOf
  <2>7. QED
    BY <2>6 DEF Session!Next
<1>11. ASSUME NEW n \in Neg, OwnerClose(n) \/ OwnerClear(n)
       PROVE  UNCHANGED sessionVars
  <2>1. UNCHANGED <<owner, sem, pc, accepted>>
    BY <1>11 DEF OwnerClose, OwnerClear, registry, offering, history
  <2>2. QED
    BY <2>1 DEF stageOf, StageOf
<1>12. ASSUME NEW n \in Neg, OwnerUnregister(n)
       PROVE  Session!Next \/ UNCHANGED sessionVars
  <2>1. /\ once[n] = "unregister"
        /\ owner' = Unregistered(n)
        /\ UNCHANGED <<sem, pc, accepted>>
    BY <1>12 DEF OwnerUnregister, offering, history
  <2>2. pc[n] \in {"unregister", "release", "done"}
    BY <1>0, <2>1
       DEF RegistryInv, UnregisterJustified, FinishedAfterFinish
  <2>3. stageOf[n] \in {"failed", "established"}
    BY <2>2, StageFacts DEF stageOf, StageOf
  <2>4. stageOf' = stageOf
    BY <2>1 DEF stageOf, StageOf
  <2>5. QED
    BY <1>8, <2>1, <2>3, <2>4
<1>13. QED
    BY <1>0, <1>1, <1>2, <1>3, <1>4, <1>5, <1>6, <1>7, <1>9, <1>10, <1>11,
       <1>12, NextCases, NegotiateCases DEF OwnerCloseStep

\* Every behaviour of the Listener is one that OfferSession allows.
THEOREM ListenerImplementsSession == Spec => ImplementsSession
<1>1. SessionInv /\ SessionInv' /\ [Next]_vars => [Session!Next]_Session!vars
    BY SimulateNext DEF Session!vars, sessionVars, stageOf
<1>2. QED
    BY SimulateInit, SessionInvariant, <1>1, PTL
       DEF Spec, ImplementsSession, Session!Spec
-----------------------------------------------------------------------------
(* The negotiation as Handshake sees it.                                    *)

\* An answer is made once Signal is called with it.  A remote error is seen
\* when it is claimed under n.mu: from then on a Conn is not published, and
\* one that is published is canceled next.
Answering == {"answer", "trickle", "publish", "replay"} \cup Finalising
Unwinding == {"closeConn", "closeSelf", "report", "reply"}
LifeOf(n) ==
    IF pc[n] = "idle" THEN "idle"
    ELSE IF accepted[n] THEN IF ConnDone(n) THEN "over" ELSE "open"
    ELSE IF pc[n] \in Unwinding THEN "failing"
    ELSE IF pc[n] \in Answering
      THEN IF ConnDone(n) \/ (remoteCanceled[n] /\ ~published[n])
             THEN "failing" ELSE "answered"
    ELSE IF pc[n] \in Stages
      THEN IF remoteCanceled[n] THEN "canceled" ELSE "working"
    ELSE "over"

lifeOf == [n \in Neg |-> LifeOf(n)]
Life == INSTANCE NegotiationLife WITH life <- lifeOf

\* Nobody signals to a negotiation that has not been admitted.
Admitted ==
    /\ \A t \in Caller : call[t].at # "idle" => pc[call[t].neg] # "idle"
    /\ \A n \in Neg : remoteCanceled[n] => pc[n] # "idle"

\* A negotiation is closed for one of four reasons, and only the first is
\* possible for one whose Conn is accepted and open.
ClosedWhy ==
    \A n \in Neg : Closed(n) =>
        \/ lst # "open"
        \/ ConnDone(n)
        \/ remoteCanceled[n] /\ ~published[n]
        \/ ~accepted[n] /\ pc[n] \in Failed
ListenerVisits == lst = "open" => lstAt = NoNeg

\* The Conn is published after every stage has passed.
Unpublished ==
    \A n \in Neg : pc[n] \in Stages \cup {"publish"} => ~published[n]

LifeInv == Admitted /\ ClosedWhy /\ ListenerVisits /\ Unpublished

\* What the life of a negotiation and its closure depend on, as one step
\* leaves it for all but one of them.
Others(n) ==
    \A m \in Neg \ {n} :
        /\ pc'[m] = pc[m] /\ accepted'[m] = accepted[m]
        /\ conn'[m] = conn[m] /\ published'[m] = published[m]
        /\ remoteCanceled'[m] = remoteCanceled[m] /\ once'[m] = once[m]

\* The reasons to be closed are kept, or are those of a step of n.close.
Justified(n) ==
    Closed(n)' =>
        \/ lst' # "open"
        \/ ConnDone(n)'
        \/ remoteCanceled'[n] /\ ~published'[n]
        \/ ~accepted'[n] /\ pc'[n] \in Failed
LivesOn(n) ==
    /\ Others(n)
    /\ LifeOf(n)' = LifeOf(n) \/ LifeOf(n)' \in Life!After[LifeOf(n)]
    /\ Justified(n)
    /\ pc[n] # "idle" => pc'[n] # "idle"
    /\ remoteCanceled'[n] => pc'[n] # "idle"
    /\ pc'[n] \in Stages \cup {"publish"} => ~published'[n]

\* One negotiation goes on, or none is touched.
LifeStep == (\E n \in Neg : LivesOn(n)) \/ Neg = {}

LEMMA LifeStepRefines ==
    ASSUME LifeStep
    PROVE  [Life!Next]_lifeOf
<1>1. CASE Neg = {}
  BY <1>1 DEF lifeOf
<1>2. ASSUME NEW n \in Neg, LivesOn(n)
      PROVE  [Life!Next]_lifeOf
  <2>1. \A m \in Neg \ {n} : LifeOf(m)' = LifeOf(m)
    BY <1>2 DEF LivesOn, Others, LifeOf, ConnDone
  <2>2. CASE LifeOf(n)' = LifeOf(n)
    <3>1. \A m \in Neg : LifeOf(m)' = LifeOf(m)
      BY <2>1, <2>2
    <3>2. QED
      BY <3>1 DEF lifeOf
  <2>3. CASE LifeOf(n)' \in Life!After[LifeOf(n)]
    <3>1. lifeOf' = [lifeOf EXCEPT ![n] = LifeOf(n)']
      BY <2>1 DEF lifeOf
    <3>2. lifeOf[n] = LifeOf(n)
      BY DEF lifeOf
    <3>3. QED
      BY <2>3, <3>1, <3>2 DEF Life!Next, Life!Step
  <2>4. QED
    BY <1>2, <2>2, <2>3 DEF LivesOn
<1>3. QED
  BY <1>1, <1>2 DEF LifeStep
\* The invariants the lives rest on.
LifeContext ==
    /\ TypeOK /\ PeerInv /\ PublishedConn /\ RegistryInv /\ OutcomeInv
    /\ LifeInv

LEMMA AfterFacts ==
    /\ Life!After["idle"] = {"working"}
    /\ Life!After["working"] = {"canceled", "answered", "failing"}
    /\ Life!After["canceled"] = {"failing", "over"}
    /\ Life!After["answered"] = {"failing", "open"}
    /\ Life!After["failing"] = {"over"}
    /\ Life!After["open"] = {"over"}
  BY DEF Life!After

\* The places of negotiate, as LifeOf tells them apart.
LEMMA PlaceFacts ==
    /\ Stages = {"parse", "credentials", "newConn", "gather", "inline",
                 "identity", "answer", "trickle"}
    /\ Finalising = {"await", "start", "channels", "deliver"}
    /\ Locations = Stages \cup Answering \cup Unwinding
         \cup {"finish", "unregister", "release", "idle", "done"}
  BY DEF Stages, NextStage, Finalising, Locations, Running, Unfinished,
         Handling, Answering, Unwinding

\* A step that no negotiation notices.
LEMMA Unnoticed ==
    ASSUME LifeContext, lst' = lst \/ lst' # "open",
           UNCHANGED <<pc, accepted, conn, published, remoteCanceled, once>>
    PROVE  LifeStep
<1>1. ASSUME NEW n \in Neg
      PROVE  LivesOn(n)
  <2>1. Others(n) /\ LifeOf(n)' = LifeOf(n)
    BY DEF Others, LifeOf, ConnDone
  <2>2. Justified(n)
    BY DEF Justified, LifeContext, LifeInv, ClosedWhy, Closed, ConnDone
  <2>3. QED
    BY <2>1, <2>2 DEF LivesOn, LifeContext, LifeInv, Admitted, Unpublished
<1>2. QED
  BY <1>1 DEF LifeStep

\* An offer is admitted.
LEMMA LifeAdmit ==
    ASSUME LifeContext, NEW k \in Key, Admit(k)
    PROVE  LifeStep
<1>1. PICK n \in Neg : pc[n] = "idle" /\ pc' = [pc EXCEPT ![n] = "parse"]
  BY DEF Admit
<1>2. UNCHANGED <<accepted, conn, published, remoteCanceled, once, lst>>
  BY DEF Admit, shutdown, ownership, transport, history
<1>3. pc'[n] = "parse" /\ \A m \in Neg \ {n} : pc'[m] = pc[m]
  BY <1>1 DEF LifeContext, TypeOK
<1>4. ~remoteCanceled[n] /\ ~accepted[n]
  BY <1>1 DEF LifeContext, LifeInv, Admitted, OutcomeInv
<1>5. LifeOf(n) = "idle" /\ LifeOf(n)' = "working"
  BY <1>1, <1>2, <1>3, <1>4, PlaceFacts
     DEF LifeOf, Unwinding, Answering
<1>6. Others(n) /\ Justified(n)
  BY <1>1, <1>2, <1>3
     DEF Others, Justified, LifeContext, LifeInv, ClosedWhy, Closed, ConnDone,
         Failed
<1>7. QED
  BY <1>1, <1>2, <1>3, <1>4, <1>5, <1>6, AfterFacts
     DEF LivesOn, LifeStep, LifeContext, PeerInv, EarlyWithoutConn, Early

\* A signal is handled: an error is claimed, or cancels the Conn.
LEMMA LifeCall ==
    ASSUME LifeContext, NEW t \in Caller, CallStep(t)
    PROVE  LifeStep
<1> USE DEF shutdown, registry, ownership, offering, transport, history
<1>1. CASE HandleError(t)
  <2>1. PICK n \in Neg : n = call[t].neg /\ pc[n] # "idle"
    BY <1>1, CallNeg DEF HandleError, LifeContext, LifeInv, Admitted
  <2>2. /\ UNCHANGED <<pc, accepted, conn, published, once, lst>>
        /\ remoteCanceled' = [remoteCanceled EXCEPT ![n] = TRUE]
    BY <1>1, <2>1 DEF HandleError
  <2>3. /\ remoteCanceled'[n]
        /\ \A m \in Neg \ {n} : remoteCanceled'[m] = remoteCanceled[m]
    BY <2>1, <2>2 DEF LifeContext, TypeOK
  <2>4. \/ LifeOf(n)' = LifeOf(n)
        \/ LifeOf(n) = "working" /\ LifeOf(n)' = "canceled"
        \/ LifeOf(n) = "answered" /\ LifeOf(n)' = "failing"
    BY <2>1, <2>2, <2>3 DEF LifeOf, ConnDone
  <2>5. Others(n) /\ Justified(n)
    BY <2>1, <2>2, <2>3
       DEF Others, Justified, LifeContext, LifeInv, ClosedWhy, Closed,
           ConnDone
  <2>6. QED
    BY <2>1, <2>2, <2>4, <2>5, AfterFacts
       DEF LivesOn, LifeStep, LifeContext, LifeInv, Unpublished
<1>2. CASE ConnError(t)
  <2>1. PICK n \in Neg :
               n = call[t].neg /\ pc[n] # "idle" /\ published[n]
    BY <1>2, CallNeg
       DEF ConnError, LifeContext, LifeInv, Admitted, PeerInv, CallersKnow
  <2>2. UNCHANGED <<pc, accepted, remoteCanceled, published, once, lst>>
    BY <1>2 DEF ConnError
  <2>3. CASE conn' = conn
    BY <2>2, <2>3, Unnoticed
  <2>4. CASE conn' = [conn EXCEPT ![n] = "canceled"]
    <3>1. /\ conn'[n] = "canceled"
          /\ \A m \in Neg \ {n} : conn'[m] = conn[m]
      BY <2>1, <2>4 DEF LifeContext, TypeOK
    <3>2. \/ LifeOf(n)' = LifeOf(n)
          \/ LifeOf(n) = "open" /\ LifeOf(n)' = "over"
          \/ LifeOf(n) = "answered" /\ LifeOf(n)' = "failing"
      BY <2>1, <2>2, <3>1 DEF LifeOf, ConnDone
    <3>3. Others(n) /\ Justified(n)
      BY <2>1, <2>2, <3>1 DEF Others, Justified, ConnDone
    <3>4. QED
      BY <2>1, <2>2, <3>2, <3>3, AfterFacts
         DEF LivesOn, LifeStep, LifeContext, LifeInv, Unpublished
  <2>5. QED
    BY <1>2, <2>1, <2>3, <2>4 DEF ConnError
<1>3. CASE HandleSignal(t) \/ OwnerClosed(t) \/ HandleCandidate(t)
           \/ ConnCandidate(t)
  <2>1. UNCHANGED <<pc, accepted, conn, published, remoteCanceled, once, lst>>
    BY <1>3 DEF HandleSignal, OwnerClosed, HandleCandidate, ConnCandidate
  <2>2. QED
    BY <2>1, Unnoticed
<1>4. QED
  BY <1>1, <1>2, <1>3 DEF CallStep

\* The Conn is closed, by whoever closes it.
LEMMA LifeConn ==
    ASSUME LifeContext, NEW n \in Neg,
           ConnFail(n) \/ ConnCloseStep(n) \/ TrickleStep(n)
    PROVE  LifeStep
<1>1. /\ UNCHANGED <<pc, accepted, published, remoteCanceled, once, lst>>
      /\ \/ conn' = conn
         \/ /\ conn[n] # "none"
            /\ \E c \in {"closing", "stopping", "closed"} :
                  conn' = [conn EXCEPT ![n] = c]
  BY DEF ConnFail, ConnCloseStep, ConnClose, ConnOwnerClosed, ConnStopped,
         SetConn, TrickleStep, TrickleSend, TrickleFailed, LifeContext,
         TypeOK, shutdown, registry, ownership, offering, history
<1>2. CASE conn' = conn
  BY <1>1, <1>2, Unnoticed
<1>3. ASSUME NEW c \in {"closing", "stopping", "closed"}, conn[n] # "none",
             conn' = [conn EXCEPT ![n] = c]
      PROVE  LifeStep
  <2>1. conn'[n] = c /\ \A m \in Neg \ {n} : conn'[m] = conn[m]
    BY <1>3 DEF LifeContext, TypeOK
  <2>2. \/ LifeOf(n)' = LifeOf(n)
        \/ LifeOf(n) = "open" /\ LifeOf(n)' = "over"
        \/ LifeOf(n) = "answered" /\ LifeOf(n)' = "failing"
    BY <1>1, <1>3, <2>1 DEF LifeOf, ConnDone
  <2>3. Others(n) /\ Justified(n)
    BY <1>1, <1>3, <2>1 DEF Others, Justified, ConnDone
  <2>4. QED
    BY <1>1, <2>2, <2>3, AfterFacts
       DEF LivesOn, LifeStep, LifeContext, LifeInv, Admitted, Unpublished
<1>4. QED
  BY <1>1, <1>2, <1>3

\* n.close begins only for a reason, and goes on.
LEMMA LifeOwner ==
    ASSUME LifeContext, NEW n \in Neg, OwnerCloseStep(n)
    PROVE  LifeStep
<1>1. /\ UNCHANGED <<pc, accepted, conn, published, remoteCanceled, lst>>
      /\ \A m \in Neg \ {n} : once'[m] = once[m]
      /\ Closed(n) \/ CallsClose(n)
  BY DEF OwnerCloseStep, OwnerClose, OwnerClear, OwnerUnregister, Closed,
         LifeContext, TypeOK, shutdown, offering, transport, history
<1>2. \/ lst # "open"
      \/ ConnDone(n)
      \/ remoteCanceled[n] /\ ~published[n]
      \/ ~accepted[n] /\ pc[n] \in Failed
  <2>1. CASE Closed(n)
    BY <2>1 DEF LifeContext, LifeInv, ClosedWhy
  <2>2. CASE pc[n] = "closeSelf"
    BY <2>2 DEF LifeContext, OutcomeInv, Failed
  <2>3. CASE conn[n] = "closing"
    BY <2>3 DEF ConnDone
  <2>4. CASE lstAt = n
    BY <2>4 DEF LifeContext, LifeInv, ListenerVisits
  <2>5. CASE \E t \in Caller : call[t].at = "closeOwner" /\ call[t].neg = n
    BY <2>5 DEF LifeContext, PeerInv, CallersKnow
  <2>6. QED
    BY <1>1, <2>1, <2>2, <2>3, <2>4, <2>5 DEF CallsClose
<1>3. LifeOf(n)' = LifeOf(n) /\ Others(n) /\ Justified(n)
  BY <1>1, <1>2 DEF LifeOf, Others, Justified, ConnDone
<1>4. QED
  BY <1>1, <1>3
     DEF LivesOn, LifeStep, LifeContext, LifeInv, Admitted, Unpublished
\* negotiate goes on from one place to the next.
LEMMA LifeNegotiate ==
    ASSUME LifeContext, NEW n \in Neg, Negotiate(n)
    PROVE  LifeStep
<1> USE DEF At, Unwind, shutdown, registry, ownership, offering, transport,
            history
<1>0. /\ \A l : pc' = [pc EXCEPT ![n] = l] =>
             pc'[n] = l /\ \A m \in Neg \ {n} : pc'[m] = pc[m]
      /\ pc[n] \in Locations /\ conn[n] \in ConnStates
  BY DEF LifeContext, TypeOK
\* A step that only moves it.
<1>1. ASSUME NEW l \in Locations, l # "idle", pc[n] # "idle",
             pc' = [pc EXCEPT ![n] = l],
             UNCHANGED <<accepted, conn, published, remoteCanceled, once,
                         lst>>,
             pc[n] \in Failed => l \in Failed,
             l \notin Stages \cup {"publish"},
             LifeOf(n)' = LifeOf(n)
               \/ LifeOf(n)' \in Life!After[LifeOf(n)]
      PROVE  LifeStep
  <2>1. Others(n) /\ Justified(n)
    BY <1>0, <1>1
       DEF Others, Justified, LifeContext, LifeInv, ClosedWhy, Closed,
           ConnDone
  <2>2. QED
    BY <1>0, <1>1, <2>1 DEF LivesOn, LifeStep
<1>2. CASE StagePass(n)
  <2>1. /\ pc[n] \in Stages /\ pc[n] \notin Failed /\ ~accepted[n]
        /\ pc[n] = "newConn" => conn[n] = "none"
        /\ NextStage[pc[n]] \in (Stages \cup {"publish"}) \ {"parse"}
        /\ pc[n] \in {"answer", "trickle"}
             => NextStage[pc[n]] \in {"trickle", "publish"}
        /\ NextStage[pc[n]] = "trickle" => pc[n] = "answer"
        /\ NextStage[pc[n]] = "publish" => pc[n] \in {"answer", "trickle"}
    BY <1>2, PlaceFacts
       DEF StagePass, NextStage, Failed, LifeContext, OutcomeInv, PeerInv,
           EarlyWithoutConn, Early
  <2>2. /\ pc' = [pc EXCEPT ![n] = NextStage[pc[n]]]
        /\ UNCHANGED <<accepted, published, remoteCanceled, once, lst>>
        /\ conn' = [conn EXCEPT ![n] =
                      IF pc[n] = "newConn" THEN "open" ELSE conn[n]]
    BY <1>2 DEF StagePass
  <2>3. /\ pc'[n] = NextStage[pc[n]]
        /\ ConnDone(n)' <=> ConnDone(n)
        /\ \A m \in Neg \ {n} : pc'[m] = pc[m] /\ conn'[m] = conn[m]
    BY <1>0, <2>1, <2>2 DEF ConnDone, LifeContext, TypeOK
  <2>4. \/ LifeOf(n)' = LifeOf(n)
        \/ /\ LifeOf(n) = "working"
           /\ LifeOf(n)' \in {"answered", "failing"}
        \/ /\ LifeOf(n) = "canceled"
           /\ LifeOf(n)' \in {"answered", "failing"}
           /\ ~published[n] => LifeOf(n)' = "failing"
    <3>1. CASE pc[n] \in {"answer", "trickle"}
      BY <2>1, <2>2, <2>3, <3>1, PlaceFacts
         DEF LifeOf, Answering, Unwinding
    <3>2. CASE pc[n] = "identity"
      BY <2>1, <2>2, <2>3, <3>2, PlaceFacts
         DEF LifeOf, Answering, Unwinding, NextStage
    <3>3. CASE pc[n] \notin {"answer", "trickle", "identity"}
      <4>1. pc'[n] \in Stages \ {"answer", "trickle"}
        BY <2>1, <2>3, <3>3, PlaceFacts DEF NextStage
      <4>2. QED
        BY <2>1, <2>2, <2>3, <3>3, <4>1, PlaceFacts
           DEF LifeOf, Answering, Unwinding
    <3>4. QED
      BY <3>1, <3>2, <3>3
  <2>5. ~published[n]
    BY <2>1 DEF LifeContext, LifeInv, Unpublished
  <2>6. Others(n) /\ Justified(n)
    BY <2>1, <2>2, <2>3
       DEF Others, Justified, LifeContext, LifeInv, ClosedWhy, Closed
  <2>7. pc'[n] # "idle" /\ ~published'[n]
    BY <2>1, <2>2, <2>3, <2>5, PlaceFacts
  <2>8. QED
    BY <2>4, <2>5, <2>6, <2>7, AfterFacts DEF LivesOn, LifeStep
<1>3. CASE StageFail(n) \/ FinaliseFail(n) \/ (Publish(n) /\ ~MayPublish(n))
  <2>1. /\ pc[n] \in Stages \cup {"publish"} \cup Finalising
        /\ UNCHANGED <<accepted, conn, published, remoteCanceled, once, lst>>
        /\ pc' = [pc EXCEPT ![n] = IF conn[n] = "none" THEN "closeSelf"
                                                       ELSE "closeConn"]
    BY <1>3 DEF StageFail, FinaliseFail, Publish
  <2>2. pc[n] \notin Failed /\ ~accepted[n] /\ pc[n] # "idle"
    BY <2>1, PlaceFacts DEF Failed, LifeContext, OutcomeInv
  <2>3. pc'[n] \in {"closeSelf", "closeConn"}
    BY <1>0, <2>1
  <2>4. /\ LifeOf(n)' = "failing"
        /\ LifeOf(n) \in {"working", "canceled", "answered", "failing"}
    BY <2>1, <2>2, <2>3, PlaceFacts DEF LifeOf, Unwinding, Answering
  <2>5. PICK l \in {"closeSelf", "closeConn"} : pc' = [pc EXCEPT ![n] = l]
    BY <2>1
  <2>6. l \in Locations \ (Stages \cup {"publish", "idle"})
    BY PlaceFacts DEF Unwinding
  <2>7. QED
    BY <1>1, <2>1, <2>2, <2>4, <2>5, <2>6, AfterFacts
<1>4. CASE Publish(n) /\ MayPublish(n)
  <2>1. /\ pc[n] = "publish" /\ pc' = [pc EXCEPT ![n] = "replay"]
        /\ UNCHANGED <<accepted, conn, remoteCanceled, once, lst>>
        /\ published' = [published EXCEPT ![n] = TRUE]
        /\ ~Closed(n) /\ ~remoteCanceled[n]
    BY <1>4 DEF Publish, MayPublish
  <2>2. /\ pc'[n] = "replay" /\ ~accepted[n]
        /\ \A m \in Neg \ {n} : /\ pc'[m] = pc[m]
                                /\ published'[m] = published[m]
    BY <1>0, <2>1 DEF LifeContext, OutcomeInv, TypeOK
  <2>3. LifeOf(n)' = LifeOf(n)
    BY <2>1, <2>2, PlaceFacts DEF LifeOf, Unwinding, Answering, ConnDone
  <2>4. Others(n) /\ Justified(n)
    BY <2>1, <2>2 DEF Others, Justified, Closed
  <2>5. QED
    BY <2>1, <2>2, <2>3, <2>4, PlaceFacts DEF LivesOn, LifeStep
<1>5. CASE Replay(n)
  BY <1>5, Unnoticed DEF Replay
<1>6. CASE Finalise(n) \/ CandidateReceived(n) \/ TransportsStarted(n)
           \/ ChannelsReady(n)
  <2>1. /\ pc[n] \in {"replay"} \cup Finalising
        /\ UNCHANGED <<accepted, conn, published, remoteCanceled, once, lst>>
        /\ \E l \in Finalising : pc' = [pc EXCEPT ![n] = l]
    BY <1>6
       DEF Finalise, CandidateReceived, TransportsStarted, ChannelsReady,
           Finalising
  <2>2. PICK l \in Finalising : pc' = [pc EXCEPT ![n] = l]
    BY <2>1
  <2>3. pc[n] \notin Failed /\ ~accepted[n] /\ pc[n] # "idle" /\ pc'[n] = l
    BY <1>0, <2>1, <2>2, PlaceFacts DEF Failed, LifeContext, OutcomeInv
  <2>4. LifeOf(n)' = LifeOf(n)
    BY <2>1, <2>2, <2>3, PlaceFacts
       DEF LifeOf, Unwinding, Answering, ConnDone
  <2>5. QED
    BY <1>1, <2>1, <2>2, <2>3, <2>4, PlaceFacts DEF Answering
<1>7. CASE Accept(n)
  <2>1. /\ pc[n] = "deliver" /\ pc' = [pc EXCEPT ![n] = "finish"]
        /\ UNCHANGED <<conn, published, remoteCanceled, once, lst>>
        /\ accepted' = [accepted EXCEPT ![n] = TRUE]
    BY <1>7 DEF Accept
  <2>2. /\ pc'[n] = "finish" /\ accepted'[n] /\ ~accepted[n] /\ published[n]
        /\ \A m \in Neg \ {n} : pc'[m] = pc[m] /\ accepted'[m] = accepted[m]
    <3>1. ~accepted[n]
      BY <2>1 DEF LifeContext, OutcomeInv
    <3>2. published[n]
      BY <2>1, PlaceFacts DEF LifeContext, PeerInv, FinalisingPublished
    <3>3. accepted'[n] /\ \A m \in Neg \ {n} : accepted'[m] = accepted[m]
      BY <2>1 DEF LifeContext, TypeOK
    <3>4. QED
      BY <1>0, <2>1, <3>1, <3>2, <3>3
  <2>3. \/ LifeOf(n) = "answered" /\ LifeOf(n)' = "open"
        \/ LifeOf(n) = "failing" /\ LifeOf(n)' = "over"
    BY <2>1, <2>2, PlaceFacts DEF LifeOf, Unwinding, Answering, ConnDone
  <2>4. Others(n) /\ Justified(n)
    BY <2>1, <2>2
       DEF Others, Justified, LifeContext, LifeInv, ClosedWhy, Closed,
           ConnDone, Failed
  <2>5. QED
    BY <2>1, <2>2, <2>3, <2>4, AfterFacts, PlaceFacts
       DEF LivesOn, LifeStep
<1>8. CASE CloseConn(n)
  <2>1. /\ UNCHANGED <<accepted, published, remoteCanceled, once, lst>>
        /\ pc[n] = "closeConn" /\ ~accepted[n]
        /\ \/ conn' = [conn EXCEPT ![n] = "closing"] /\ pc' = pc
           \/ conn' = conn /\ pc' = [pc EXCEPT ![n] = "closeSelf"]
    BY <1>8 DEF CloseConn, LifeContext, OutcomeInv
  <2>2. CASE conn' = [conn EXCEPT ![n] = "closing"] /\ pc' = pc
    <3>1. /\ conn'[n] = "closing"
          /\ \A m \in Neg \ {n} : conn'[m] = conn[m]
      BY <2>2 DEF LifeContext, TypeOK
    <3>2. LifeOf(n)' = LifeOf(n) /\ Others(n) /\ Justified(n)
      BY <2>1, <2>2, <3>1
         DEF LifeOf, Unwinding, Others, Justified, ConnDone
    <3>3. QED
      BY <2>1, <2>2, <3>2, PlaceFacts DEF LivesOn, LifeStep
  <2>3. CASE conn' = conn /\ pc' = [pc EXCEPT ![n] = "closeSelf"]
    <3>1. LifeOf(n)' = LifeOf(n)
      BY <1>0, <2>1, <2>3 DEF LifeOf, Unwinding
    <3>2. QED
      BY <1>1, <2>1, <2>3, <3>1, PlaceFacts DEF Unwinding, Failed
  <2>4. QED
    BY <2>1, <2>2, <2>3
<1>9. CASE CloseSelf(n) \/ Report(n) \/ Replied(n)
  <2>1. /\ UNCHANGED <<accepted, conn, published, remoteCanceled, once, lst>>
        /\ pc[n] \in {"closeSelf", "report", "reply"} /\ ~accepted[n]
        /\ \E l \in {"report", "reply", "finish"} :
              pc' = [pc EXCEPT ![n] = l]
    BY <1>9 DEF CloseSelf, Report, Replied, LifeContext, OutcomeInv
  <2>2. PICK l \in {"report", "reply", "finish"} :
               pc' = [pc EXCEPT ![n] = l]
    BY <2>1
  <2>3. LifeOf(n) = "failing" /\ LifeOf(n)' \in {"failing", "over"}
    BY <1>0, <2>1, <2>2, PlaceFacts DEF LifeOf, Unwinding, Answering
  <2>4. QED
    BY <1>1, <2>1, <2>2, <2>3, AfterFacts, PlaceFacts DEF Unwinding, Failed
<1>10. CASE Finish(n) \/ Unregister(n) \/ Release(n)
  <2>1. /\ UNCHANGED <<accepted, conn, published, remoteCanceled, once, lst>>
        /\ pc[n] \in {"finish", "unregister", "release"}
        /\ \E l \in {"unregister", "release", "done"} :
              pc' = [pc EXCEPT ![n] = l]
    BY <1>10 DEF Finish, AfterFinish, Unregister, Release
  <2>2. PICK l \in {"unregister", "release", "done"} :
               pc' = [pc EXCEPT ![n] = l]
    BY <2>1
  <2>3. LifeOf(n)' = LifeOf(n)
    BY <1>0, <2>1, <2>2, PlaceFacts
       DEF LifeOf, Unwinding, Answering, ConnDone
  <2>4. QED
    BY <1>1, <2>1, <2>2, <2>3, PlaceFacts DEF Failed
<1>11. QED
  BY <1>2, <1>3, <1>4, <1>5, <1>6, <1>7, <1>8, <1>9, <1>10 DEF Negotiate

LEMMA LifeNext ==
    ASSUME LifeContext, [Next]_vars
    PROVE  LifeStep
<1> USE DEF shutdown, registry, ownership, offering, transport, history
<1>1. ASSUME NEW t \in Caller, NEW k \in Key, NEW sig \in Incoming,
             Route(t, k, sig)
      PROVE  LifeStep
  BY <1>1, Unnoticed DEF Route
<1>2. ASSUME NEW n \in Neg, Expire(n) \/ CancelContext(n)
      PROVE  LifeStep
  BY <1>2, Unnoticed DEF Expire, CancelContext
<1>3. CASE SignalingDone \/ Close \/ CloseNext \/ UNCHANGED vars
  <2>1. /\ lst' = lst \/ lst' # "open"
        /\ UNCHANGED <<pc, accepted, conn, published, remoteCanceled, once>>
    BY <1>3 DEF SignalingDone, Close, CloseNext, vars
  <2>2. QED
    BY <2>1, Unnoticed
<1>4. QED
  BY <1>1, <1>2, <1>3, LifeAdmit, LifeCall, LifeConn, LifeOwner,
     LifeNegotiate DEF Next

\* Only Close and CloseNext touch the progress of Listener.Close.
LEMMA VisitsStep ==
    ASSUME [Next]_vars, lst' = "open"
    PROVE  lst = "open" /\ lstAt' = lstAt
<1> USE DEF shutdown
<1>1. ASSUME NEW t \in Caller, CallStep(t)
      PROVE  UNCHANGED shutdown
  BY <1>1 DEF CallStep, HandleSignal, HandleError, OwnerClosed, ConnError,
       HandleCandidate, ConnCandidate
<1>2. ASSUME NEW n \in Neg, Negotiate(n)
      PROVE  UNCHANGED shutdown
  BY <1>2 DEF Negotiate, StagePass, StageFail, Publish, Replay, Finalise,
       CandidateReceived, TransportsStarted, ChannelsReady, Accept,
       FinaliseFail, CloseConn, CloseSelf, Report, Replied, Finish,
       Unregister, Release
<1>3. ASSUME NEW n \in Neg,
             Expire(n) \/ CancelContext(n) \/ OwnerCloseStep(n)
      PROVE  UNCHANGED shutdown
  BY <1>3 DEF Expire, CancelContext, OwnerCloseStep, OwnerClose, OwnerClear,
       OwnerUnregister
<1>4. ASSUME NEW n \in Neg, ConnFail(n) \/ ConnCloseStep(n) \/ TrickleStep(n)
      PROVE  UNCHANGED shutdown
  BY <1>4 DEF ConnFail, ConnCloseStep, ConnClose, ConnOwnerClosed,
       ConnStopped, SetConn, TrickleStep, TrickleSend, TrickleFailed
<1>5. CASE \/ \E k \in Key : Admit(k)
           \/ \E t \in Caller, k \in Key, sig \in Incoming : Route(t, k, sig)
           \/ UNCHANGED vars
  BY <1>5 DEF Admit, Route, vars
<1>6. CASE SignalingDone \/ Close \/ CloseNext
  BY <1>6 DEF SignalingDone, Close, CloseNext
<1>7. QED
  BY <1>1, <1>2, <1>3, <1>4, <1>5, <1>6 DEF Next

\* A call concerns a negotiation from the registry, or the one it did.
LEMMA CallsStep ==
    ASSUME LifeContext, [Next]_vars,
           \A n \in Neg : pc[n] # "idle" => pc'[n] # "idle"
    PROVE  \A t \in Caller : call'[t].at # "idle" => pc'[call'[t].neg] # "idle"
<1> USE DEF LifeContext, LifeInv, Admitted
<1>1. CASE call' = call
  BY <1>1, CallNeg
<1>2. ASSUME NEW u \in Caller, NEW c,
             call' = [call EXCEPT ![u] = c],
             c.at # "idle" => c.neg \in Neg /\ pc[c.neg] # "idle"
      PROVE  \A t \in Caller :
                 call'[t].at # "idle" => pc'[call'[t].neg] # "idle"
  BY <1>2, CallNeg DEF TypeOK
<1>3. ASSUME NEW t \in Caller, NEW k \in Key, NEW sig \in Incoming,
             Route(t, k, sig)
      PROVE  \E u \in Caller : \E c :
                 /\ call' = [call EXCEPT ![u] = c]
                 /\ c.at # "idle" => c.neg \in Neg /\ pc[c.neg] # "idle"
  <2>1. owner[k] \in Neg /\ pc[owner[k]] # "idle"
    BY <1>3 DEF Route, RegistryInv, OwnerHasKey, TypeOK
  <2> DEFINE c == [at |-> "handle", neg |-> owner[k], sig |-> sig]
  <2>2. call' = [call EXCEPT ![t] = c]
    BY <1>3 DEF Route
  <2>3. c.neg \in Neg /\ pc[c.neg] # "idle"
    BY <2>1
  <2> HIDE DEF c
  <2>4. QED
    BY <2>2, <2>3
<1>4. ASSUME NEW t \in Caller, CallStep(t)
      PROVE  \E u \in Caller : \E c :
                 /\ call' = [call EXCEPT ![u] = c]
                 /\ c.at # "idle" => c.neg \in Neg /\ pc[c.neg] # "idle"
  <2>1. call[t].at # "idle"
    BY <1>4 DEF CallStep, HandleSignal, HandleError, OwnerClosed, ConnError,
         HandleCandidate, ConnCandidate
  <2>2. call[t].neg \in Neg /\ pc[call[t].neg] # "idle"
    BY <2>1, CallNeg
  <2>3. \/ call' = [call EXCEPT ![t] = NoCall]
        \/ \E l : call' = [call EXCEPT ![t] =
                            [at |-> l, neg |-> call[t].neg,
                             sig |-> call[t].sig]]
    BY <1>4 DEF CallStep, HandleSignal, HandleError, OwnerClosed, ConnError,
         HandleCandidate, ConnCandidate, Return, CallAt
  <2>4. QED
    BY <2>2, <2>3 DEF NoCall
<1>5. \/ call' = call
      \/ \E t \in Caller, k \in Key, sig \in Incoming : Route(t, k, sig)
      \/ \E t \in Caller : CallStep(t)
  <2>1. ASSUME NEW n \in Neg, Negotiate(n)
        PROVE  call' = call
    BY <2>1 DEF Negotiate, StagePass, StageFail, Publish, Replay, Finalise,
         CandidateReceived, TransportsStarted, ChannelsReady, Accept,
         FinaliseFail, CloseConn, CloseSelf, Report, Replied, Finish,
         Unregister, Release
  <2>2. ASSUME NEW n \in Neg,
               Expire(n) \/ CancelContext(n) \/ OwnerCloseStep(n)
        PROVE  call' = call
    BY <2>2 DEF Expire, CancelContext, OwnerCloseStep, OwnerClose,
         OwnerClear, OwnerUnregister
  <2>3. ASSUME NEW n \in Neg,
               ConnFail(n) \/ ConnCloseStep(n) \/ TrickleStep(n)
        PROVE  call' = call
    BY <2>3 DEF ConnFail, ConnCloseStep, ConnClose, ConnOwnerClosed,
         ConnStopped, SetConn, TrickleStep, TrickleSend, TrickleFailed
  <2>4. CASE \/ \E k \in Key : Admit(k)
             \/ SignalingDone \/ Close \/ CloseNext \/ UNCHANGED vars
    BY <2>4 DEF Admit, SignalingDone, Close, CloseNext, vars
  <2>5. QED
    BY <2>1, <2>2, <2>3, <2>4 DEF Next
<1>6. QED
  BY <1>1, <1>2, <1>3, <1>4, <1>5

LEMMA LifePreserved ==
    ASSUME LifeContext, [Next]_vars
    PROVE  LifeInv'
<1>1. \A n \in Neg :
          /\ pc[n] # "idle" => pc'[n] # "idle"
          /\ remoteCanceled'[n] => pc'[n] # "idle"
          /\ pc'[n] \in Stages \cup {"publish"} => ~published'[n]
          /\ Justified(n)
  <2>1. ASSUME NEW n \in Neg, LivesOn(n), NEW m \in Neg
        PROVE  /\ pc[m] # "idle" => pc'[m] # "idle"
               /\ remoteCanceled'[m] => pc'[m] # "idle"
               /\ pc'[m] \in Stages \cup {"publish"} => ~published'[m]
               /\ Justified(m)
    <3>1. CASE m = n
      BY <2>1, <3>1 DEF LivesOn
    <3>2. CASE m # n
      <4>1. lst' = "open" => lst = "open"
        BY VisitsStep
      <4>2. QED
        BY <2>1, <3>2, <4>1
           DEF LivesOn, Others, LifeContext, LifeInv, Admitted, Unpublished,
               ClosedWhy, Closed, ConnDone, Justified
    <3>3. QED
      BY <3>1, <3>2
  <2>2. QED
    BY <2>1, LifeNext DEF LifeStep
<1>2. Admitted'
  BY <1>1, CallsStep DEF Admitted
<1>3. ClosedWhy'
  BY <1>1 DEF ClosedWhy, Justified
<1>4. ListenerVisits'
  BY VisitsStep DEF LifeContext, LifeInv, ListenerVisits
<1>5. QED
  BY <1>1, <1>2, <1>3, <1>4 DEF LifeInv, Unpublished

LEMMA LifeInvariant == Spec => []LifeContext
<1>1. Init => LifeInv
  BY PlaceFacts
     DEF Init, LifeInv, Admitted, ClosedWhy, ListenerVisits, Unpublished,
         Closed, NoCall
<1>2. Spec => [](PeerInv /\ PublishedConn)
  <2>1. Init => PeerInv /\ PublishedConn /\ FailedConnReleased
    BY PeerInit, ReleaseInit
  <2>2. /\ PeerInv /\ PublishedConn /\ FailedConnReleased /\ [Next]_vars
        => PeerInv' /\ PublishedConn' /\ FailedConnReleased'
    BY PeerStep, ReleaseStep DEF PeerInv
  <2>3. QED
    BY <2>1, <2>2, PTL DEF Spec
<1>3. LifeInv /\ TypeOK /\ PeerInv /\ PublishedConn /\ RegistryInv
        /\ OutcomeInv /\ [Next]_vars
      => LifeInv'
  BY LifePreserved DEF LifeContext
<1>4. SessionInv => RegistryInv /\ OutcomeInv
  BY DEF SessionInv
<1>5. QED
  BY <1>1, <1>2, <1>3, <1>4, SessionInvariant, TypeCorrect, PTL
     DEF Spec, LifeContext

\* Seen from the other side of the Signaling the Listener is a set of
\* negotiations that answer once, are accepted only if nothing has ended them
\* before, and end for good: the one life Handshake gives to a negotiation.
THEOREM ListenerRefinesLife == Spec => Life!Spec
<1>1. Init => Life!Init
  BY DEF Init, Life!Init, lifeOf, LifeOf
<1>2. LifeContext /\ [Next]_vars => [Life!Next]_lifeOf
  BY LifeNext, LifeStepRefines
<1>3. QED
  BY <1>1, <1>2, LifeInvariant, PTL DEF Spec, Life!Spec

LivingHaveKey ==
    \A n \in Neg :
        LifeOf(n) \notin {"idle", "over"} => owner[key[n]] = n \/ lst # "open"

\* A negotiation whose life is not over holds its key, unless the Listener has
\* been closed: a signal of its peer is handed to it and to nobody else, and a
\* second offer under the same key is refused.
THEOREM LivingAlwaysHaveKey == Spec => []LivingHaveKey
<1>1. LifeContext => LivingHaveKey
  <2> SUFFICES ASSUME LifeContext, NEW n \in Neg,
                      LifeOf(n) \notin {"idle", "over"}, lst = "open"
               PROVE  owner[key[n]] = n
    BY DEF LivingHaveKey
  <2> USE DEF LifeContext, RegistryInv, KeyReserved
  <2>1. CASE pc[n] \in Unfinished
    BY <2>1
  <2>2. CASE accepted[n] /\ ~ConnDone(n)
    <3>1. published[n]
      BY <2>2 DEF PeerInv, FinalisingPublished
    <3>2. once[n] = "open"
      BY <2>2, <3>1 DEF LifeInv, ClosedWhy, Closed
    <3>3. pc[n] \in {"finish", "release", "done"}
      BY <2>2, <3>2 DEF OutcomeInv, UnregisterJustified, Closed
    <3>4. QED
      BY <3>2, <3>3, LocationFacts
  <2>3. CASE ~accepted[n] /\ pc[n] \notin Unfinished
    BY <2>3, PlaceFacts, LocationFacts DEF LifeOf, Answering, Unwinding
  <2>4. QED
    BY <2>1, <2>2, <2>3 DEF LifeOf
<1>2. QED
  BY <1>1, LifeInvariant, PTL
=============================================================================
