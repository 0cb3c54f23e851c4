--------------------------- MODULE SyncServerProofs ---------------------------
(***************************************************************************)
(* Proofs about SyncServer: for any operations, requests, devices and bounds *)
(* every operation takes effect once, answers are true, no device is left    *)
(* behind its cursor, and the endpoint implements the log of SyncLog.        *)
(***************************************************************************)
EXTENDS SyncServer, TLAPS

(* The claims table and the applied table name the same operations.          *)
ClaimsAreApplied == \A o \in OpId : o \in claims <=> applied[o] # 0

(* No revision anywhere is ahead of the counter. *)
NothingAhead ==
    /\ \A o \in OpId : applied[o] <= rev
    /\ \A x \in Row : rowRev[x] <= rev
    /\ \A d \in Device : seen[d] <= rev /\ cursor[d] <= rev

(* A request at work on a revision has something to commit and an attempt    *)
(* left.                                                                     *)
Working ==
    \A r \in Request :
        /\ pc[r] \in {"read", "commit", "raced"} => batch[r] # {}
        /\ pc[r] \in {"read", "commit"} => tries[r] < MAX_TRIES

IInv == /\ TypeOK /\ ClaimsAreApplied /\ NothingAhead /\ Working
        /\ ExactlyOnce /\ AnswerIsTrue /\ NothingBehindCursor

(* The empty server satisfies the invariant. *)
LEMMA InitInv == Init => IInv
  <1>1. ASSUME Init PROVE TypeOK
    BY <1>1, ServerAssumption, SMT DEF Init, TypeOK, Places
  <1>2. ASSUME Init PROVE ClaimsAreApplied /\ NothingAhead /\ Working
    BY <1>2, SMT DEF Init, ClaimsAreApplied, NothingAhead, Working
  <1>3. ASSUME Init PROVE ExactlyOnce /\ AnswerIsTrue /\ NothingBehindCursor
    BY <1>3, SMT DEF Init, ExactlyOnce, AnswerIsTrue, NothingBehindCursor
  <1>4. QED
    BY <1>1, <1>2, <1>3 DEF IInv

(* The operations a request has left are understood operations of its own.   *)
LEMMA LeftAreValid ==
    ASSUME NEW r \in Request
    PROVE  /\ leftFields(r) \subseteq OpId \ Invalid
           /\ leftOthers(r) \subseteq OpId \ Invalid
           /\ leftFields(r) = {} /\ leftOthers(r) = {} => OpsOf[r] \ Invalid \subseteq ack[r]
  BY ServerAssumption DEF leftFields, leftOthers

(* A request that changes neither the store nor a device, nor any other      *)
(* request, preserves the invariant when what it says and holds is right.    *)
LEMMA RequestStep ==
    ASSUME IInv, TypeOK', NEW r \in Request, UNCHANGED <<store, device>>,
           \A q \in Request \ {r} :
               /\ pc'[q] = pc[q] /\ ack'[q] = ack[q]
               /\ batch'[q] = batch[q] /\ tries'[q] = tries[q],
           \A o \in ack'[r] : applied[o] # 0,
           pc'[r] = "done" => OpsOf[r] \ Invalid \subseteq ack'[r],
           pc'[r] \in {"read", "commit", "raced"} => batch'[r] # {},
           pc'[r] \in {"read", "commit"} => tries'[r] < MAX_TRIES
    PROVE  IInv'
  <1>1. ClaimsAreApplied' /\ NothingAhead' /\ ExactlyOnce' /\ NothingBehindCursor'
    BY DEF IInv, ClaimsAreApplied, NothingAhead, ExactlyOnce, NothingBehindCursor, store, device
  <1>2. applied' = applied
    BY DEF store
  <1>3. Working'
    BY DEF IInv, Working
  <1>4. AnswerIsTrue'
    BY <1>2 DEF IInv, AnswerIsTrue
  <1>5. QED
    BY <1>1, <1>3, <1>4 DEF IInv

(* Commit: the only step that changes the store. *)
LEMMA CommitInv ==
    ASSUME IInv, NEW r \in Request, Commit(r)
    PROVE  IInv'
  <1> USE DEF Commit, IInv
  <1>1. /\ rev' = rev + 1 /\ rev \in Nat
        /\ \A o \in OpId : applied'[o] = IF o \in batch[r] THEN rev + 1 ELSE applied[o]
        /\ \A x \in Row : rowRev'[x] = rev + 1 \/ rowRev'[x] = rowRev[x]
    BY SMT DEF overtaken, TypeOK
  <1>2. \A o \in batch[r] : o \in OpId /\ applied[o] = 0
    BY DEF claimed, ClaimsAreApplied, TypeOK
  <1>3. TypeOK'
    BY SMT DEF TypeOK, overtaken, goTo, acknowledge, device, Places
  <1>4. ClaimsAreApplied'
    BY <1>1, SMT DEF ClaimsAreApplied, TypeOK
  <1>5. NothingAhead'
    BY <1>1, SMT DEF NothingAhead, TypeOK, device
  <1>6. Working'
    BY SMT DEF Working, TypeOK, goTo
  <1>7. ExactlyOnce'
    <2> SUFFICES ASSUME NEW o \in OpId
                 PROVE  effects'[o] = IF applied'[o] = 0 THEN 0 ELSE 1
      BY DEF ExactlyOnce
    <2>1. effects'[o] = effects[o] + IF o \in batch[r] THEN 1 ELSE 0
      OBVIOUS
    <2>2. effects[o] = IF applied[o] = 0 THEN 0 ELSE 1
      BY DEF ExactlyOnce
    <2>3. QED
      BY <1>1, <1>2, <2>1, <2>2, SMT
  <1>8. AnswerIsTrue'
    <2> SUFFICES ASSUME NEW q \in Request
                 PROVE  /\ \A o \in ack'[q] : applied'[o] # 0
                        /\ pc'[q] = "done" => OpsOf[q] \ Invalid \subseteq ack'[q]
      BY DEF AnswerIsTrue
    <2>1. \A o \in OpId : o \in batch[r] \/ applied[o] # 0 => applied'[o] # 0
      BY <1>1, SMT
    <2>2. CASE q = r
      <3>1. ack'[q] = ack[q] \cup batch[r] /\ pc'[q] = "next"
        BY <2>2 DEF goTo, acknowledge, TypeOK
      <3>2. QED
        BY <2>1, <2>2, <3>1 DEF AnswerIsTrue, TypeOK
    <2>3. CASE q # r
      <3>1. ack'[q] = ack[q] /\ pc'[q] = pc[q]
        BY <2>3 DEF goTo, acknowledge, TypeOK
      <3>2. QED
        BY <2>1, <3>1 DEF AnswerIsTrue, TypeOK
    <2>4. QED
      BY <2>2, <2>3
  <1>9. NothingBehindCursor'
    <2>1. \A d \in Device : cursor'[d] <= rev /\ mirror'[d] = mirror[d] /\ cursor'[d] = cursor[d]
      BY DEF device, NothingAhead
    <2>2. \A x \in Row, d \in Device : rowRev'[x] <= cursor'[d] => rowRev'[x] = rowRev[x]
      BY <1>1, <2>1, SMT DEF TypeOK
    <2>3. QED
      BY <2>1, <2>2 DEF NothingBehindCursor
  <1>10. QED
    BY <1>3, <1>4, <1>5, <1>6, <1>7, <1>8, <1>9

(* PollRev: a device reads the revision. *)
LEMMA PollRevInv ==
    ASSUME IInv, NEW d \in Device, PollRev(d)
    PROVE  IInv'
  <1> USE DEF PollRev, IInv
  <1>1. TypeOK'
    BY SMT DEF TypeOK, store, request
  <1>2. NothingAhead'
    BY SMT DEF NothingAhead, TypeOK, store
  <1>3. ClaimsAreApplied' /\ Working' /\ ExactlyOnce' /\ AnswerIsTrue' /\ NothingBehindCursor'
    BY DEF ClaimsAreApplied, Working, ExactlyOnce, AnswerIsTrue, NothingBehindCursor, store, request
  <1>4. QED
    BY <1>1, <1>2, <1>3

(* PollRows: whatever was committed since the device read the revision, it   *)
(* receives every row it lacks up to its new cursor.                         *)
LEMMA PollRowsInv ==
    ASSUME IInv, NEW d \in Device, PollRows(d)
    PROVE  IInv'
  <1> DEFINE reached == {seen[d], cursor[d]} \cup {rowRev[x] : x \in {y \in Row : delta(d, y)}}
  <1> USE DEF IInv
  <1>1. PICK c \in reached : (\A e \in reached : e <= c) /\ cursor' = [cursor EXCEPT ![d] = c]
    BY DEF PollRows
  <1>2. c \in Nat /\ c <= rev /\ seen[d] <= c /\ cursor[d] <= c
    BY <1>1, SMT DEF TypeOK, NothingAhead, delta
  <1>3. mirror' = [mirror EXCEPT ![d] = [x \in Row |-> IF delta(d, x) THEN rowRev[x] ELSE @[x]]]
    BY DEF PollRows
  <1>4. /\ UNCHANGED <<store, request, seen>>
        /\ polling' = [polling EXCEPT ![d] = FALSE]
    BY DEF PollRows
  <1> HIDE DEF reached
  <1>5. TypeOK'
    BY <1>1, <1>2, <1>3, <1>4, SMT DEF TypeOK, store, request
  <1>6. NothingAhead'
    BY <1>1, <1>2, <1>4, SMT DEF NothingAhead, TypeOK, store
  <1>7. ClaimsAreApplied' /\ Working' /\ ExactlyOnce' /\ AnswerIsTrue'
    BY <1>4 DEF ClaimsAreApplied, Working, ExactlyOnce, AnswerIsTrue, store, request
  <1>8. NothingBehindCursor'
    <2> SUFFICES ASSUME NEW e \in Device, NEW x \in Row, rowRev[x] <= cursor'[e]
                 PROVE  mirror'[e][x] = rowRev[x]
      BY <1>4 DEF NothingBehindCursor, store
    <2>1. CASE e # d
      BY <1>1, <1>3, <2>1 DEF NothingBehindCursor, TypeOK
    <2>2. CASE e = d
      <3>1. mirror'[e][x] = IF delta(d, x) THEN rowRev[x] ELSE mirror[d][x]
        BY <1>3, <2>2 DEF TypeOK
      <3>2. ~delta(d, x) => rowRev[x] <= cursor[d]
        BY SMT DEF delta, TypeOK
      <3>3. QED
        BY <3>1, <3>2 DEF NothingBehindCursor
    <2>3. QED
      BY <2>1, <2>2
  <1>9. QED
    BY <1>5, <1>6, <1>7, <1>8

(* The steps of a request. *)
LEMMA HandleInv ==
    ASSUME IInv, NEW r \in Request, Handle(r) \/ Die(r)
    PROVE  IInv'
  <1> DEFINE others == \A q \in Request \ {r} :
                           /\ pc'[q] = pc[q] /\ ack'[q] = ack[q]
                           /\ batch'[q] = batch[q] /\ tries'[q] = tries[q]
  <1>0. TypeOK /\ AnswerIsTrue /\ Working
    BY DEF IInv
  <1>1. CASE Arrive(r)
    <2>1. others /\ pc'[r] = "next" /\ ack'[r] = appliedOpIds(OpsOf[r])
      BY <1>0, <1>1 DEF Arrive, goTo, TypeOK
    <2>2. appliedOpIds(OpsOf[r]) \in SUBSET OpId /\ \A o \in appliedOpIds(OpsOf[r]) : applied[o] # 0
      BY ServerAssumption DEF appliedOpIds
    <2>3. TypeOK'
      BY <1>0, <1>1, <2>2 DEF Arrive, goTo, TypeOK, Places, store, device
    <2>4. QED
      BY <1>1, <2>1, <2>2, <2>3, RequestStep DEF Arrive
  <1>2. CASE NextField(r)
    <2>1. PICK o \in leftFields(r) :
              IF applied[o] # 0
              THEN /\ acknowledge(r, {o})
                   /\ UNCHANGED <<pc, batch, tries>>
              ELSE /\ batch' = [batch EXCEPT ![r] = {o}]
                   /\ tries' = [tries EXCEPT ![r] = 0]
                   /\ goTo(r, "read")
                   /\ ack' = ack
      BY <1>2 DEF NextField
    <2>2. o \in OpId \ Invalid
      BY LeftAreValid
    <2>3. pc[r] = "next" /\ UNCHANGED <<store, expected, deaths, device>>
      BY <1>2 DEF NextField
    <2>4. CASE applied[o] # 0
      <3>1. others /\ pc'[r] = "next" /\ ack'[r] = ack[r] \cup {o}
        BY <1>0, <2>1, <2>3, <2>4 DEF acknowledge, TypeOK
      <3>2. TypeOK'
        BY <1>0, <2>1, <2>2, <2>3, <2>4, SMTT(30) DEF acknowledge, TypeOK, store, device
      <3>3. QED
        BY <1>0, <2>3, <2>4, <3>1, <3>2, RequestStep DEF AnswerIsTrue
    <2>5. CASE applied[o] = 0
      <3>1. others /\ pc'[r] = "read" /\ ack'[r] = ack[r] /\ batch'[r] = {o} /\ tries'[r] = 0
        BY <1>0, <2>1, <2>5 DEF goTo, TypeOK
      <3>2. TypeOK'
        <4>1. {o} \in SUBSET (OpId \ Invalid) /\ 0 \in 0..MAX_TRIES /\ "read" \in Places
          BY <2>2, ServerAssumption, SMT DEF Places
        <4>2. batch' \in [Request -> SUBSET (OpId \ Invalid)]
          BY <1>0, <2>1, <2>5, <4>1 DEF TypeOK
        <4>3. tries' \in [Request -> 0..MAX_TRIES] /\ pc' \in [Request -> Places]
          BY <1>0, <2>1, <2>5, <4>1, Zenon DEF TypeOK, goTo
        <4>4. QED
          BY <1>0, <2>1, <2>3, <2>5, <4>2, <4>3 DEF TypeOK, store, device
      <3>3. 0 < MAX_TRIES
        BY ServerAssumption, SMT
      <3>4. pc'[r] # "done" /\ batch'[r] # {} /\ tries'[r] < MAX_TRIES
        BY <3>1, <3>3
      <3>5. \A q \in ack'[r] : applied[q] # 0
        BY <1>0, <3>1 DEF AnswerIsTrue
      <3>6. QED
        BY <2>3, <3>1, <3>2, <3>4, <3>5, RequestStep
    <2>6. QED
      BY <2>4, <2>5
  <1>3. CASE NextOthers(r)
    <2>1. others /\ pc'[r] = "read" /\ ack'[r] = ack[r] /\ batch'[r] = leftOthers(r) /\ tries'[r] = 0
      BY <1>0, <1>3 DEF NextOthers, goTo, TypeOK
    <2>2. TypeOK'
      BY <1>0, <1>3, LeftAreValid, ServerAssumption, SMT DEF NextOthers, goTo, TypeOK, Places, store, device
    <2>3. 0 < MAX_TRIES
      BY ServerAssumption, SMT
    <2>4. QED
      BY <1>0, <1>3, <2>1, <2>2, <2>3, RequestStep DEF AnswerIsTrue, NextOthers
  <1>4. CASE Respond(r)
    <2>1. others /\ pc'[r] = "done" /\ ack'[r] = ack[r]
      BY <1>0, <1>4 DEF Respond, goTo, TypeOK
    <2>2. TypeOK'
      BY <1>0, <1>4 DEF Respond, goTo, TypeOK, Places, store, device
    <2>3. OpsOf[r] \ Invalid \subseteq ack[r]
      BY <1>4, LeftAreValid DEF Respond
    <2>4. QED
      BY <1>0, <1>4, <2>1, <2>2, <2>3, RequestStep DEF AnswerIsTrue, Respond
  <1>5. CASE ReadRev(r)
    <2>1. /\ others /\ pc[r] = "read" /\ pc'[r] = "commit"
          /\ ack'[r] = ack[r] /\ batch'[r] = batch[r] /\ tries'[r] = tries[r]
      BY <1>0, <1>5 DEF ReadRev, goTo, TypeOK
    <2>2. TypeOK'
      BY <1>0, <1>5 DEF ReadRev, goTo, TypeOK, Places, store, device
    <2>3. QED
      BY <1>0, <1>5, <2>1, <2>2, RequestStep DEF AnswerIsTrue, Working, ReadRev
  <1>6. CASE Commit(r)
    BY <1>6, CommitInv
  <1>7. CASE Retry(r)
    <2>1. /\ others /\ pc[r] = "commit" /\ pc'[r] = IF attemptsLeft(r) THEN "read" ELSE "failed"
          /\ ack'[r] = ack[r] /\ batch'[r] = batch[r] /\ tries'[r] = tries[r] + 1
      BY <1>0, <1>7, SMT DEF Retry, goTo, TypeOK
    <2>2. tries[r] \in Nat /\ tries[r] < MAX_TRIES
      BY <1>0, <2>1, SMT DEF Working, TypeOK
    <2>3. TypeOK'
      BY <1>0, <1>7, <2>2, ServerAssumption, SMT DEF Retry, goTo, TypeOK, Places, store, device
    <2>4. pc'[r] = "read" => tries'[r] < MAX_TRIES
      BY <2>1, SMT DEF attemptsLeft
    <2>5. QED
      BY <1>0, <1>7, <2>1, <2>3, <2>4, RequestStep DEF AnswerIsTrue, Working, Retry
  <1>8. CASE Conflict(r)
    <2>1. /\ others /\ pc[r] = "commit" /\ pc'[r] = "raced"
          /\ ack'[r] = ack[r] /\ batch'[r] = batch[r]
      BY <1>0, <1>8 DEF Conflict, goTo, TypeOK
    <2>2. TypeOK'
      BY <1>0, <1>8 DEF Conflict, goTo, TypeOK, Places, store, device
    <2>3. QED
      BY <1>0, <1>8, <2>1, <2>2, RequestStep DEF AnswerIsTrue, Working, Conflict
  <1>9. CASE Raced(r)
    <2>1. raced(r) \in SUBSET OpId /\ \A o \in raced(r) : applied[o] # 0
      BY <1>0 DEF raced, appliedOpIds, TypeOK
    <2>2. others /\ pc'[r] \in {"next", "failed"} /\ ack'[r] = ack[r] \cup raced(r)
      BY <1>0, <1>9 DEF Raced, goTo, acknowledge, TypeOK
    <2>3. TypeOK'
      BY <1>0, <1>9, <2>1 DEF Raced, goTo, acknowledge, TypeOK, Places, store, device
    <2>4. QED
      BY <1>0, <1>9, <2>1, <2>2, <2>3, RequestStep DEF AnswerIsTrue, Raced
  <1>10. CASE Die(r)
    <2>1. others /\ pc'[r] = "failed" /\ ack'[r] = ack[r]
      BY <1>0, <1>10 DEF Die, goTo, TypeOK
    <2>2. TypeOK'
      BY <1>0, <1>10, SMT DEF Die, goTo, TypeOK, Places, store, device
    <2>3. QED
      BY <1>0, <1>10, <2>1, <2>2, RequestStep DEF AnswerIsTrue, Die
  <1>11. QED
    BY <1>1, <1>2, <1>3, <1>4, <1>5, <1>6, <1>7, <1>8, <1>9, <1>10 DEF Handle

(* Every step preserves the invariant. *)
LEMMA NextInv == IInv /\ [Next]_vars => IInv'
  <1> SUFFICES ASSUME IInv, [Next]_vars PROVE IInv'
    OBVIOUS
  <1>1. CASE UNCHANGED vars
    <2>1. TypeOK' /\ Working' /\ NothingAhead' /\ ClaimsAreApplied'
      BY <1>1 DEF IInv, TypeOK, Working, NothingAhead, ClaimsAreApplied, vars, store, request, device
    <2>2. ExactlyOnce' /\ AnswerIsTrue' /\ NothingBehindCursor'
      BY <1>1 DEF IInv, ExactlyOnce, AnswerIsTrue, NothingBehindCursor, vars, store, request, device
    <2>3. QED
      BY <2>1, <2>2 DEF IInv
  <1>2. ASSUME NEW r \in Request, Handle(r) \/ Die(r) PROVE IInv'
    BY <1>2, HandleInv
  <1>3. ASSUME NEW d \in Device, Poll(d) PROVE IInv'
    BY <1>3, PollRevInv, PollRowsInv DEF Poll
  <1>4. QED
    BY <1>1, <1>2, <1>3 DEF Next

(* The invariant holds in every reachable state. *)
LEMMA Invariant == Spec => []IInv
  BY InitInv, NextInv, PTL DEF Spec

(* The variables keep their types; only understood operations are committed, *)
(* in at most MAX_TRIES attempts.                                            *)
THEOREM ServerTypes == Spec => []TypeOK
  BY Invariant, PTL DEF IInv

(* handleOps: an operation's effect takes place at most once, exactly when   *)
(* applied_ops has it, whatever requests repeat it and wherever they die.    *)
THEOREM ServerExactlyOnce == Spec => []ExactlyOnce
  BY Invariant, PTL DEF IInv

(* handleOps: what is acknowledged is applied, and a request that ends well  *)
(* acknowledges every operation it understood.                               *)
THEOREM ServerAnswers == Spec => []AnswerIsTrue
  BY Invariant, PTL DEF IInv

(* handleSync: a device has the current version of every row whose revision  *)
(* its cursor has reached, however its polls and the commits interleave.     *)
THEOREM ServerDeltas == Spec => []NothingBehindCursor
  BY Invariant, PTL DEF IInv

(* The empty server is the empty log. *)
LEMMA LogStarts == Init => Log!LogInit
  BY DEF Init, Log!LogInit

(* A commit extends the log with its batch; every other step leaves it.      *)
LEMMA LogSteps ==
    IInv /\ [Next]_vars => [\E ops \in SUBSET OpId : Log!Extend(ops)]_(Log!logVars)
  <1> SUFFICES ASSUME IInv, [Next]_vars
               PROVE  (\E ops \in SUBSET OpId : Log!Extend(ops)) \/ UNCHANGED Log!logVars
    OBVIOUS
  <1>1. ASSUME NEW r \in Request, Commit(r) PROVE \E ops \in SUBSET OpId : Log!Extend(ops)
    <2>1. batch[r] \in SUBSET OpId /\ batch[r] # {} /\ \A o \in batch[r] : applied[o] = 0
      BY <1>1 DEF IInv, Working, TypeOK, Commit, claimed, ClaimsAreApplied
    <2>2. expected[r] = rev
      BY <1>1 DEF Commit, overtaken
    <2>3. Log!Extend(batch[r])
      BY <1>1, <2>1, <2>2 DEF Log!Extend, Commit
    <2>4. QED
      BY <2>1, <2>3
  <1>2. ASSUME UNCHANGED store PROVE UNCHANGED Log!logVars
    BY <1>2 DEF store, Log!logVars
  <1>3. ASSUME NEW r \in Request, (Handle(r) /\ ~Commit(r)) \/ Die(r) PROVE UNCHANGED store
    BY <1>3 DEF Handle, Arrive, NextField, NextOthers, Respond, ReadRev, Retry, Conflict, Raced, Die, store
  <1>4. ASSUME NEW d \in Device, Poll(d) PROVE UNCHANGED store
    BY <1>4 DEF Poll, PollRev, PollRows, store
  <1>5. UNCHANGED vars => UNCHANGED store
    BY DEF vars
  <1>6. QED
    BY <1>1, <1>2, <1>3, <1>4, <1>5 DEF Next

(* commitAtNextRevision's transactions, run by concurrent requests, implement *)
(* the log: each applies new operations once, at the next revision.           *)
THEOREM ServerIsOneLog == Spec => IsOneLog
  BY Invariant, LogStarts, LogSteps, PTL DEF Spec, IsOneLog, Log!LogSpec
===============================================================================
