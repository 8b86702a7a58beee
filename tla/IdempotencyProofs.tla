------------------------- MODULE IdempotencyProofs -------------------------
(***************************************************************************)
(* Safety of the idempotency protocol for every set of requests, keys and  *)
(* claims.  The properties are not inductive by themselves: that a commit  *)
(* publishes only completed records depends on where the request stands in *)
(* its claims, which is what the parts of IInv say.                        *)
(*                                                                         *)
(* RInv says more, of the step of ExactlyOnce that a request is about to   *)
(* be: which of its claims are new and where its answer comes from.  From  *)
(* it follows that the protocol implements that indivisible service.       *)
(***************************************************************************)
EXTENDS Idempotency, SequenceTheorems, TLAPS

Claiming == {"select", "insert", "reselect"}

\* The claims of r, outermost first, that are reserved and not yet completed.
OpenClaims(r) ==
  IF pc[r] = "execute" THEN level[r]
  ELSE IF pc[r] \in Claiming THEN level[r] - 1 ELSE 0

StartsOutermost == \A r \in Request : pc[r] = "idle" => level[r] = 1

ReservedIsNew == \A k \in Key : pending[k] # None => record[k] = None

OpenIsReserved ==
  \A r \in Request : \A i \in 1 .. OpenClaims(r) :
    /\ Owns(r, Claims[r][i].key)
    /\ pending[Claims[r][i].key].hash = Claims[r][i].hash

ReservedIsOpenOrStaged ==
  \A r \in Request, k \in Key :
    Owns(r, k) => /\ Active(r)
                  /\ \/ pc[r] = "rollback"
                     \/ k \in staged[r]
                     \/ \E i \in 1 .. OpenClaims(r) : Claims[r][i].key = k

StagedIsComplete ==
  \A r \in Request : \A k \in staged[r] :
    Owns(r, k) /\ pending[k].status = Completed /\ pending[k].resource # None

AnswerIsRecorded ==
  \A r \in Request :
    pc[r] \in {"commit", "done"} =>
      LET c == Claims[r][1]
      IN /\ Visible(r, c.key) # None
         /\ Visible(r, c.key).hash = c.hash
         /\ Visible(r, c.key).resource = result[r]

IInv ==
  /\ TypeOK
  /\ StartsOutermost
  /\ ReservedIsNew
  /\ OpenIsReserved
  /\ ReservedIsOpenOrStaged
  /\ StagedIsComplete
  /\ AnswerIsRecorded
  /\ NoHalfComplete
-----------------------------------------------------------------------------
\* Every claim of a request names a key and a hash.
LEMMA ClaimType ==
  ASSUME NEW r \in Request, NEW i \in 1 .. Len(Claims[r])
  PROVE  Claims[r][i].key \in Key /\ Claims[r][i].hash \in Hash
<1>1. Claims[r] \in Seq([key : Key, hash : Hash])
  BY ClaimsAssumption
<1>2. Claims[r][i] \in [key : Key, hash : Hash]
  BY <1>1, ElementOfSeq
<1> QED
  BY <1>2

\* The claim being served is one of them.
LEMMA CurrentClaim ==
  ASSUME TypeOK, NEW r \in Request
  PROVE  /\ level[r] \in 1 .. Len(Claims[r]) /\ Len(Claims[r]) \in Nat
         /\ Claim(r) = Claims[r][level[r]]
         /\ Claim(r).key \in Key /\ Claim(r).hash \in Hash
         /\ Claims[r][1].key \in Key /\ Claims[r][1].hash \in Hash
<1>1. level[r] \in Nat \ {0} /\ level[r] <= Len(Claims[r])
  BY DEF TypeOK
<1>2. Len(Claims[r]) \in Nat /\ Len(Claims[r]) > 0
  BY ClaimsAssumption
<1>3. level[r] \in 1 .. Len(Claims[r]) /\ 1 \in 1 .. Len(Claims[r])
  BY <1>1, <1>2
<1> QED
  BY <1>2, <1>3, ClaimType DEF Claim

\* A row is not None, and its fields have their types.
LEMMA RowType ==
  ASSUME NEW row \in Row
  PROVE  /\ row # None /\ row.by \in Request /\ row.hash \in Hash
         /\ row.status \in {Reserved, Completed}
         /\ row.resource \in Request \cup {None}
BY NoneAssumption DEF Row, Reserved, Completed

\* What a request sees of a key is a row or nothing.
LEMMA VisibleType ==
  ASSUME TypeOK, NEW r \in Request, NEW k \in Key
  PROVE  Visible(r, k) \in Row \cup {None}
BY DEF TypeOK, Visible

\* Initially nothing is claimed.
LEMMA InitIInv == Init => IInv
<1> SUFFICES ASSUME Init PROVE IInv
  OBVIOUS
<1>1. TypeOK
  BY ClaimsAssumption DEF Init, TypeOK, Terminal
<1>2. \A r \in Request : OpenClaims(r) = 0 /\ pc[r] \notin {"commit", "done"}
  BY DEF Init, OpenClaims, Claiming
<1>3. StartsOutermost /\ ReservedIsNew /\ StagedIsComplete /\ NoHalfComplete
  BY DEF Init, StartsOutermost, ReservedIsNew, StagedIsComplete, NoHalfComplete
<1>4. OpenIsReserved
  BY <1>2 DEF OpenIsReserved
<1>5. ReservedIsOpenOrStaged
  BY DEF Init, ReservedIsOpenOrStaged, Owns
<1>6. AnswerIsRecorded
  BY <1>2 DEF AnswerIsRecorded
<1> QED
  BY <1>1, <1>3, <1>4, <1>5, <1>6 DEF IInv

\* Steps that only move r to another statement.
LEMMA MoveIInv ==
  ASSUME IInv, NEW r \in Request, NEW label,
         Goto(r, label),
         \/ pc[r] = "idle" /\ label = "select"
         \/ pc[r] = "select" /\ label = "insert"
         \/ pc[r] = "insert" /\ label = "reselect"
         \/ Active(r) /\ label = "rollback",
         lock' \in [Key -> Request \cup {None}],
         UNCHANGED <<level, record, pending, result, staged, applied>>
  PROVE  IInv'
<1> USE DEF IInv
<1>1. /\ pc \in [Request -> {"idle", "select", "insert", "reselect", "execute",
                              "commit", "rollback"} \cup Terminal]
      /\ pc' = [pc EXCEPT ![r] = label]
  BY DEF TypeOK, Goto
<1>2. TypeOK'
  BY <1>1 DEF TypeOK
<1>3. \A s \in Request : \/ OpenClaims(s)' = OpenClaims(s)
                         \/ s = r /\ label = "rollback" /\ OpenClaims(s)' = 0
  <2>1. pc[r] = "idle" => level[r] = 1
    BY DEF StartsOutermost
  <2> QED
    BY <1>1, <2>1 DEF OpenClaims, Claiming, Active
<1>4. \A s \in Request, k \in Key :
        Owns(s, k)' = Owns(s, k) /\ Visible(s, k)' = Visible(s, k)
  BY DEF Owns, Visible
<1>5. StartsOutermost' /\ ReservedIsNew' /\ NoHalfComplete'
  BY <1>1 DEF StartsOutermost, ReservedIsNew, NoHalfComplete
<1>6. OpenIsReserved'
  BY <1>3, <1>4 DEF OpenIsReserved, Owns
<1>7. ReservedIsOpenOrStaged'
  <2> SUFFICES ASSUME NEW s \in Request, NEW k \in Key, Owns(s, k)
               PROVE  /\ Active(s)'
                      /\ \/ pc'[s] = "rollback"
                         \/ k \in staged[s]
                         \/ \E i \in 1 .. OpenClaims(s)' : Claims[s][i].key = k
    BY <1>4 DEF ReservedIsOpenOrStaged
  <2>1. Active(s) /\ (\/ pc[s] = "rollback" \/ k \in staged[s]
                      \/ \E i \in 1 .. OpenClaims(s) : Claims[s][i].key = k)
    BY DEF ReservedIsOpenOrStaged
  <2>2. Active(s)'
    BY <1>1, <2>1 DEF Active, Terminal
  <2> QED
    BY <1>1, <1>3, <2>1, <2>2
<1>8. StagedIsComplete'
  BY <1>4 DEF StagedIsComplete, Owns
<1>9. AnswerIsRecorded'
  <2> SUFFICES ASSUME NEW s \in Request, pc'[s] \in {"commit", "done"}
               PROVE  pc[s] \in {"commit", "done"}
    BY <1>4 DEF AnswerIsRecorded, Visible, Owns
  <2> QED
    BY <1>1
<1> QED
  BY <1>2, <1>5, <1>6, <1>7, <1>8, <1>9

\* What r returns to: its open claims are those outside the current one.
LEMMA ReturnOpens ==
  ASSUME IInv, NEW r \in Request, Return(r), Active(r)
  PROVE  /\ \A s \in Request \ {r} : pc'[s] = pc[s] /\ OpenClaims(s)' = OpenClaims(s)
         /\ pc'[r] = IF level[r] = 1 THEN "commit" ELSE "execute"
         /\ OpenClaims(r)' = level[r] - 1
         /\ level' \in [Request -> Nat \ {0}]
         /\ \A s \in Request : level'[s] <= Len(Claims[s])
         /\ pc' \in [Request -> {"idle", "select", "insert", "reselect", "execute",
                                 "commit", "rollback"} \cup Terminal]
         /\ StartsOutermost'
<1>1. /\ pc \in [Request -> {"idle", "select", "insert", "reselect", "execute",
                             "commit", "rollback"} \cup Terminal]
      /\ level \in [Request -> Nat \ {0}]
      /\ \A s \in Request : level[s] <= Len(Claims[s])
  BY DEF IInv, TypeOK
<1>2. \A s \in Request : Len(Claims[s]) \in Nat
  BY CurrentClaim DEF IInv
<1>3. CASE level[r] = 1
  BY <1>1, <1>3 DEF Return, Goto, OpenClaims, Claiming, StartsOutermost, IInv
<1>4. CASE level[r] # 1
  <2>1. pc' = [pc EXCEPT ![r] = "execute"] /\ level' = [level EXCEPT ![r] = @ - 1]
    BY <1>4 DEF Return, Goto
  <2>2. level[r] - 1 \in Nat \ {0} /\ level[r] - 1 <= Len(Claims[r])
    BY <1>1, <1>2, <1>4
  <2> QED
    BY <1>1, <1>2, <1>4, <2>1, <2>2 DEF OpenClaims, Claiming, StartsOutermost, IInv
<1> QED
  BY <1>3, <1>4

\* The parts of IInv that a step keeps when no row and no staged effect is
\* touched and the open claims stay the same.
LEMMA SameRows ==
  ASSUME IInv, NEW r \in Request,
         UNCHANGED <<record, pending, staged, applied>>,
         \A s \in Request : OpenClaims(s)' = OpenClaims(s),
         \A s \in Request \ {r} : pc'[s] = pc[s],
         pc[r] \in Claiming, pc'[r] \in {"execute", "commit"}
  PROVE  /\ ReservedIsNew' /\ OpenIsReserved' /\ ReservedIsOpenOrStaged'
         /\ StagedIsComplete' /\ NoHalfComplete'
<1>1. \A s \in Request, k \in Key : Owns(s, k)' = Owns(s, k)
  BY DEF Owns
<1>2. ReservedIsNew' /\ NoHalfComplete'
  BY DEF IInv, ReservedIsNew, NoHalfComplete
<1>3. OpenIsReserved'
  BY DEF IInv, OpenIsReserved, Owns
<1>4. StagedIsComplete'
  BY <1>1 DEF IInv, StagedIsComplete, Owns
<1>5. ReservedIsOpenOrStaged'
  <2> SUFFICES ASSUME NEW s \in Request, NEW k \in Key, Owns(s, k)
               PROVE  /\ Active(s)'
                      /\ \/ pc'[s] = "rollback"
                         \/ k \in staged[s]
                         \/ \E i \in 1 .. OpenClaims(s)' : Claims[s][i].key = k
    BY <1>1 DEF ReservedIsOpenOrStaged
  <2>1. /\ Active(s)
        /\ \/ pc[s] = "rollback"
           \/ k \in staged[s]
           \/ \E i \in 1 .. OpenClaims(s) : Claims[s][i].key = k
    BY DEF IInv, ReservedIsOpenOrStaged
  <2>2. Active(s)'
    BY <2>1 DEF Active, Terminal
  <2> QED
    BY <2>1, <2>2 DEF Claiming
<1> QED
  BY <1>2, <1>3, <1>4, <1>5

\* Finding a row replays it or refuses the request; no row changes.
LEMMA FoundIInv ==
  ASSUME IInv, NEW r \in Request, pc[r] \in {"select", "reselect"}, Found(r)
  PROVE  IInv'
<1> DEFINE c == Claim(r)
           row == Visible(r, c.key)
<1>1. /\ level[r] \in 1 .. Len(Claims[r]) /\ Len(Claims[r]) \in Nat
      /\ c = Claims[r][level[r]] /\ c.key \in Key
  BY CurrentClaim DEF IInv
<1>2. row \in Row
  BY <1>1, VisibleType DEF Found, IInv
<1>3. lock' \in [Key -> Request \cup {None}]
  BY <1>1 DEF Found, IInv, TypeOK
<1>4. UNCHANGED <<record, pending, staged, applied>>
  BY DEF Found
<1>5. CASE ~Matches(row, c.hash)
  <2>1. Goto(r, "rollback") /\ UNCHANGED <<level, result>>
    BY <1>5 DEF Found
  <2> QED
    BY <1>3, <1>4, <2>1, MoveIInv DEF Active, Terminal
<1>6. CASE Matches(row, c.hash)
  <2>1. Return(r) /\ result' = [result EXCEPT ![r] = row.resource]
    BY <1>6 DEF Found
  <2>2. Active(r) /\ pc[r] \in Claiming /\ OpenClaims(r) = level[r] - 1
    BY DEF Active, Terminal, OpenClaims, Claiming
  <2>3. TypeOK'
    <3>1. result' \in [Request -> Request \cup {None}]
      BY <1>2, <2>1, RowType DEF IInv, TypeOK
    <3> QED
      BY <1>3, <1>4, <2>1, <2>2, <3>1, ReturnOpens DEF IInv, TypeOK
  <2>4. /\ ReservedIsNew' /\ OpenIsReserved' /\ ReservedIsOpenOrStaged'
        /\ StagedIsComplete' /\ NoHalfComplete' /\ StartsOutermost'
    BY <1>4, <2>1, <2>2, ReturnOpens, SameRows
  <2>5. AnswerIsRecorded'
    <3> SUFFICES ASSUME NEW s \in Request, pc'[s] \in {"commit", "done"}
                 PROVE  LET d == Claims[s][1]
                        IN /\ Visible(s, d.key) # None
                           /\ Visible(s, d.key).hash = d.hash
                           /\ Visible(s, d.key).resource = result'[s]
      BY <1>4 DEF AnswerIsRecorded, Visible, Owns
    <3>1. CASE s = r
      <4>1. level[r] = 1
        BY <2>1, <2>2, <3>1, ReturnOpens
      <4>2. c = Claims[s][1] /\ row = Visible(s, c.key)
        BY <1>1, <3>1, <4>1
      <4>3. result'[s] = row.resource
        BY <2>1, <3>1 DEF IInv, TypeOK
      <4> QED
        BY <1>2, <1>6, <4>2, <4>3, RowType DEF Matches
    <3>2. CASE s # r
      BY <2>1, <2>2, <3>2, ReturnOpens DEF IInv, AnswerIsRecorded
    <3> QED
      BY <3>1, <3>2
  <2> QED
    BY <2>3, <2>4, <2>5 DEF IInv
<1> QED
  BY <1>5, <1>6

\* The insertion of a claim opens it.
LEMMA InsertIInv ==
  ASSUME IInv, NEW r \in Request, Insert(r)
  PROVE  IInv'
<1> DEFINE k == Claim(r).key
           new == [by |-> r, hash |-> Claim(r).hash, status |-> Reserved,
                   resource |-> None]
<1>1. /\ level[r] \in 1 .. Len(Claims[r]) /\ Len(Claims[r]) \in Nat
      /\ Claim(r) = Claims[r][level[r]] /\ k \in Key /\ Claim(r).hash \in Hash
  BY CurrentClaim DEF IInv
<1>2. /\ pc[r] = "insert" /\ pending[k] = None
      /\ UNCHANGED <<record, lock, result, staged, applied>>
  BY DEF Insert
<1>3. CASE Conflicts(k)
  <2>1. Goto(r, "reselect") /\ UNCHANGED <<level, pending>>
    BY <1>3 DEF Insert
  <2> QED
    BY <1>2, <2>1, MoveIInv DEF IInv, TypeOK
<1>4. CASE ~Conflicts(k)
  <2>1. /\ pending' = [pending EXCEPT ![k] = new]
        /\ \/ /\ level[r] < Len(Claims[r]) /\ Goto(r, "select")
              /\ level' = [level EXCEPT ![r] = @ + 1]
           \/ Goto(r, "execute") /\ UNCHANGED level
    BY <1>4 DEF Insert
  <2>2. new \in Row /\ new # None /\ new.by = r /\ new.hash = Claim(r).hash
    <3>1. new \in Row
      BY <1>1 DEF Row
    <3> QED
      BY <3>1, RowType
  <2>3. TypeOK'
    <3>1. pc' \in [Request -> {"idle", "select", "insert", "reselect", "execute",
                               "commit", "rollback"} \cup Terminal]
      BY <2>1 DEF IInv, TypeOK, Goto
    <3>2. level' \in [Request -> Nat \ {0}]
      BY <1>1, <2>1 DEF IInv, TypeOK
    <3>3. \A s \in Request : level'[s] <= Len(Claims[s])
      BY <1>1, <2>1 DEF IInv, TypeOK
    <3>4. pending' \in [Key -> Row \cup {None}]
      BY <2>1, <2>2 DEF IInv, TypeOK
    <3> QED
      BY <1>2, <3>1, <3>2, <3>3, <3>4 DEF IInv, TypeOK
  <2>4. /\ \A s \in Request \ {r} : pc'[s] = pc[s] /\ OpenClaims(s)' = OpenClaims(s)
        /\ pc'[r] \in {"select", "execute"}
        /\ OpenClaims(r) = level[r] - 1 /\ OpenClaims(r)' = level[r]
    <3>1. pc \in [Request -> {"idle", "select", "insert", "reselect", "execute",
                             "commit", "rollback"} \cup Terminal]
          /\ level \in [Request -> Nat \ {0}]
      BY DEF IInv, TypeOK
    <3> QED
      BY <1>1, <1>2, <2>1, <3>1 DEF Goto, OpenClaims, Claiming
  <2>5. /\ \A j \in Key : pending'[j] = IF j = k THEN new ELSE pending[j]
        /\ \A s \in Request, j \in Key :
             Owns(s, j)' = (Owns(s, j) \/ (s = r /\ j = k))
    <3>1. \A j \in Key : pending'[j] = IF j = k THEN new ELSE pending[j]
      BY <2>1 DEF IInv, TypeOK
    <3> QED
      BY <1>2, <2>2, <3>1 DEF Owns
  <2>6. StartsOutermost'
    BY <1>2, <2>1, <2>4 DEF IInv, StartsOutermost, TypeOK
  <2>7. ReservedIsNew'
    BY <1>2, <1>4, <2>5 DEF IInv, ReservedIsNew, Conflicts
  <2>8. OpenIsReserved'
    <3> SUFFICES ASSUME NEW s \in Request, NEW i \in 1 .. OpenClaims(s)'
                 PROVE  /\ Owns(s, Claims[s][i].key)'
                        /\ pending'[Claims[s][i].key].hash = Claims[s][i].hash
      BY DEF OpenIsReserved
    <3>1. i \in 1 .. Len(Claims[s])
      BY <1>1, <2>3, <2>4, CurrentClaim DEF OpenClaims, Claiming, TypeOK, IInv
    <3>2. Claims[s][i].key \in Key
      BY <3>1, ClaimType
    <3>3. CASE i \in 1 .. OpenClaims(s)
      <4>1. /\ Owns(s, Claims[s][i].key)
            /\ pending[Claims[s][i].key].hash = Claims[s][i].hash
        BY <3>3 DEF IInv, OpenIsReserved
      <4>2. Claims[s][i].key # k
        BY <1>2, <4>1 DEF Owns
      <4> QED
        BY <2>5, <3>2, <4>1, <4>2
    <3>4. CASE s = r /\ i = level[r]
      BY <1>1, <2>2, <2>5, <3>4
    <3> QED
      BY <1>1, <2>4, <3>3, <3>4
  <2>9. ReservedIsOpenOrStaged'
    <3> SUFFICES ASSUME NEW s \in Request, NEW j \in Key, Owns(s, j)'
                 PROVE  /\ Active(s)'
                        /\ \/ pc'[s] = "rollback"
                           \/ j \in staged[s]
                           \/ \E i \in 1 .. OpenClaims(s)' : Claims[s][i].key = j
      BY <1>2 DEF ReservedIsOpenOrStaged
    <3>1. CASE s = r /\ j = k
      <4>1. level[r] \in 1 .. OpenClaims(s)' /\ Claims[s][level[r]].key = j
        BY <1>1, <2>4, <3>1
      <4>2. Active(s)'
        BY <2>4, <3>1 DEF Active, Terminal
      <4> QED
        BY <4>1, <4>2
    <3>2. CASE Owns(s, j)
      <4>1. /\ Active(s)
            /\ \/ pc[s] = "rollback"
               \/ j \in staged[s]
               \/ \E i \in 1 .. OpenClaims(s) : Claims[s][i].key = j
        BY <3>2 DEF IInv, ReservedIsOpenOrStaged
      <4>2. CASE s = r
        BY <1>1, <1>2, <2>4, <4>1, <4>2 DEF Active, Terminal
      <4>3. CASE s # r
        BY <2>4, <4>1, <4>3 DEF Active
      <4> QED
        BY <4>2, <4>3
    <3> QED
      BY <2>5, <3>1, <3>2
  <2>10. StagedIsComplete'
    <3> SUFFICES ASSUME NEW s \in Request, NEW j \in staged[s]
                 PROVE  /\ Owns(s, j)' /\ pending'[j].status = Completed
                        /\ pending'[j].resource # None
      BY <1>2 DEF StagedIsComplete
    <3>1. /\ j \in Key /\ Owns(s, j)
          /\ pending[j].status = Completed /\ pending[j].resource # None
      BY DEF IInv, StagedIsComplete, TypeOK
    <3>2. j # k
      BY <1>2, <3>1 DEF Owns
    <3> QED
      BY <2>5, <3>1, <3>2
  <2>11. AnswerIsRecorded'
    <3> SUFFICES ASSUME NEW s \in Request, pc'[s] \in {"commit", "done"}
                 PROVE  LET d == Claims[s][1]
                        IN /\ Visible(s, d.key)' # None
                           /\ Visible(s, d.key)'.hash = d.hash
                           /\ Visible(s, d.key)'.resource = result[s]
      BY <1>2 DEF AnswerIsRecorded
    <3>1. s # r /\ pc[s] \in {"commit", "done"} /\ Claims[s][1].key \in Key
      BY <2>4, CurrentClaim DEF IInv
    <3>2. Visible(s, Claims[s][1].key)' = Visible(s, Claims[s][1].key)
      BY <1>2, <2>5, <3>1 DEF Visible, Owns
    <3> QED
      BY <3>1, <3>2 DEF IInv, AnswerIsRecorded
  <2>12. NoHalfComplete'
    BY <1>2 DEF IInv, NoHalfComplete
  <2> QED
    BY <2>3, <2>6, <2>7, <2>8, <2>9, <2>10, <2>11, <2>12 DEF IInv
<1> QED
  BY <1>3, <1>4

\* Executing a claim completes and stages it.
LEMMA ExecuteIInv ==
  ASSUME IInv, NEW r \in Request, Execute(r)
  PROVE  IInv'
<1> DEFINE k == Claim(r).key
           res == ResultOf(r)
<1>1. /\ level[r] \in 1 .. Len(Claims[r]) /\ Len(Claims[r]) \in Nat
      /\ Claim(r) = Claims[r][level[r]] /\ k \in Key
  BY CurrentClaim DEF IInv
<1>2. /\ pc[r] = "execute" /\ Return(r)
      /\ pending' = [pending EXCEPT ![k].status = Completed, ![k].resource = res]
      /\ staged' = [staged EXCEPT ![r] = @ \cup {k}]
      /\ result' = [result EXCEPT ![r] = res]
      /\ UNCHANGED <<record, lock, applied>>
  BY DEF Execute
<1>3. res \in Request /\ res # None
  BY NoneAssumption DEF ResultOf, IInv, TypeOK
<1>4. Owns(r, k) /\ pending[k].hash = Claim(r).hash /\ pending[k] \in Row
  <2>1. level[r] \in 1 .. OpenClaims(r)
    <3>1. pc[r] = "execute" /\ level[r] \in 1 .. Len(Claims[r]) /\ Len(Claims[r]) \in Nat
      BY <1>1, <1>2
    <3>2. OpenClaims(r) = level[r]
      BY <3>1 DEF OpenClaims
    <3> QED
      BY <3>1, <3>2
  <2>2. /\ Owns(r, Claims[r][level[r]].key)
        /\ pending[Claims[r][level[r]].key].hash = Claims[r][level[r]].hash
    BY <2>1 DEF IInv, OpenIsReserved
  <2>3. Owns(r, k) /\ pending[k].hash = Claim(r).hash
    BY <1>1, <2>2
  <2>4. pending[k] \in Row \cup {None} /\ pending[k] # None
    BY <1>1, <2>3 DEF IInv, TypeOK, Owns
  <2> QED
    BY <2>3, <2>4
<1>5. /\ pending'[k] \in Row /\ pending'[k] # None
      /\ pending'[k].by = pending[k].by /\ pending'[k].hash = pending[k].hash
      /\ pending'[k].status = Completed /\ pending'[k].resource = res
      /\ \A j \in Key \ {k} : pending'[j] = pending[j]
  <2>1. /\ pending'[k] = [pending[k] EXCEPT !.status = Completed, !.resource = res]
        /\ \A j \in Key \ {k} : pending'[j] = pending[j]
    BY <1>1, <1>2 DEF IInv, TypeOK
  <2>2. pending'[k] = [by |-> pending[k].by, hash |-> pending[k].hash,
                       status |-> Completed, resource |-> res]
    BY <1>4, <2>1 DEF Row
  <2>3. pending[k].by \in Request /\ pending[k].hash \in Hash
    BY <1>4, RowType
  <2>4. pending'[k] \in Row
    BY <1>3, <2>2, <2>3 DEF Row
  <2> QED
    BY <2>1, <2>2, <2>4, RowType
<1>6. \A s \in Request, j \in Key : Owns(s, j)' = Owns(s, j)
  BY <1>4, <1>5 DEF Owns
<1>7. Active(r) /\ OpenClaims(r) = level[r] /\ OpenClaims(r)' = level[r] - 1
  BY <1>2, ReturnOpens DEF Active, Terminal, OpenClaims
<1>8. TypeOK'
  <2>1. pending' \in [Key -> Row \cup {None}]
    BY <1>2, <1>5 DEF IInv, TypeOK
  <2>2. staged' \in [Request -> SUBSET Key] /\ result' \in [Request -> Request \cup {None}]
    BY <1>1, <1>2, <1>3 DEF IInv, TypeOK
  <2> QED
    BY <1>2, <1>7, <2>1, <2>2, ReturnOpens DEF IInv, TypeOK
<1>9. ReservedIsNew'
  BY <1>2, <1>4, <1>5 DEF IInv, ReservedIsNew, Owns
<1>10. OpenIsReserved'
  <2> SUFFICES ASSUME NEW s \in Request, NEW i \in 1 .. OpenClaims(s)'
               PROVE  /\ Owns(s, Claims[s][i].key)'
                      /\ pending'[Claims[s][i].key].hash = Claims[s][i].hash
    BY DEF OpenIsReserved
  <2>1. i \in 1 .. OpenClaims(s)
    <3>1. CASE s = r
      <4>1. i \in 1 .. level[r] - 1
        BY <1>7, <3>1
      <4> QED
        BY <1>1, <1>7, <3>1, <4>1
    <3>2. CASE s # r
      <4>1. OpenClaims(s)' = OpenClaims(s)
        BY <1>2, <1>7, <3>2, ReturnOpens
      <4> QED
        BY <4>1
    <3> QED
      BY <3>1, <3>2
  <2>2. i \in 1 .. Len(Claims[s])
    BY <1>8, CurrentClaim DEF OpenClaims, Claiming, TypeOK, IInv
  <2>3. Claims[s][i].key \in Key
    BY <2>2, ClaimType
  <2> QED
    BY <1>5, <1>6, <2>1, <2>3 DEF IInv, OpenIsReserved
<1>11. ReservedIsOpenOrStaged'
  <2> SUFFICES ASSUME NEW s \in Request, NEW j \in Key, Owns(s, j)
               PROVE  /\ Active(s)'
                      /\ \/ pc'[s] = "rollback"
                         \/ j \in staged'[s]
                         \/ \E i \in 1 .. OpenClaims(s)' : Claims[s][i].key = j
    BY <1>6 DEF ReservedIsOpenOrStaged
  <2>1. /\ Active(s)
        /\ \/ pc[s] = "rollback"
           \/ j \in staged[s]
           \/ \E i \in 1 .. OpenClaims(s) : Claims[s][i].key = j
    BY DEF IInv, ReservedIsOpenOrStaged
  <2>2. CASE s # r
    <3>1. staged'[s] = staged[s]
      BY <1>2, <2>2 DEF IInv, TypeOK
    <3> QED
      BY <1>2, <1>7, <2>1, <2>2, <3>1, ReturnOpens DEF Active
  <2>3. CASE s = r
    <3>1. Active(s)'
      BY <1>2, <1>7, <2>3, ReturnOpens DEF Active, Terminal
    <3>2. staged'[s] = staged[s] \cup {k}
      BY <1>2, <2>3 DEF IInv, TypeOK
    <3>3. j \in staged[s] \/ \E i \in 1 .. level[r] : Claims[s][i].key = j
      BY <1>2, <1>7, <2>1, <2>3
    <3>4. j \in staged[s] \/ j = k \/ \E i \in 1 .. level[r] - 1 : Claims[s][i].key = j
      BY <1>1, <2>3, <3>3
    <3> QED
      BY <1>7, <2>3, <3>1, <3>2, <3>4
  <2> QED
    BY <2>2, <2>3
<1>12. StagedIsComplete'
  <2> SUFFICES ASSUME NEW s \in Request, NEW j \in staged'[s]
               PROVE  /\ Owns(s, j)' /\ pending'[j].status = Completed
                      /\ pending'[j].resource # None
    BY DEF StagedIsComplete
  <2>1. j \in staged[s] \/ (s = r /\ j = k)
    BY <1>2 DEF IInv, TypeOK
  <2>2. CASE j = k
    <3>1. Owns(s, k)
      BY <1>4, <2>1, <2>2 DEF IInv, StagedIsComplete
    <3> QED
      BY <1>1, <1>3, <1>5, <1>6, <2>2, <3>1
  <2>3. CASE j # k
    <3>1. j \in Key /\ Owns(s, j) /\ pending[j].status = Completed
          /\ pending[j].resource # None
      BY <2>1, <2>3 DEF IInv, StagedIsComplete, TypeOK
    <3> QED
      BY <1>5, <1>6, <2>3, <3>1
  <2> QED
    BY <2>2, <2>3
<1>13. AnswerIsRecorded'
  <2> SUFFICES ASSUME NEW s \in Request, pc'[s] \in {"commit", "done"}
               PROVE  LET d == Claims[s][1]
                      IN /\ Visible(s, d.key)' # None
                         /\ Visible(s, d.key)'.hash = d.hash
                         /\ Visible(s, d.key)'.resource = result'[s]
    BY DEF AnswerIsRecorded
  <2>1. Claims[s][1].key \in Key
    BY CurrentClaim DEF IInv
  <2>2. CASE s = r
    <3>1. level[r] = 1 /\ k = Claims[s][1].key /\ Claim(r).hash = Claims[s][1].hash
      BY <1>1, <1>2, <1>7, <2>2, ReturnOpens
    <3>2. Visible(s, Claims[s][1].key)' = pending'[Claims[s][1].key]
      BY <1>4, <1>6, <2>1, <2>2, <3>1 DEF Visible
    <3>3. result'[s] = res
      BY <1>2, <2>2 DEF IInv, TypeOK
    <3> QED
      BY <1>4, <1>5, <3>1, <3>2, <3>3
  <2>3. CASE s # r
    <3>1. pc[s] \in {"commit", "done"} /\ result'[s] = result[s]
      BY <1>2, <1>7, <2>3, ReturnOpens DEF IInv, TypeOK
    <3>2. Visible(s, Claims[s][1].key)' = Visible(s, Claims[s][1].key)
      <4>1. Owns(s, Claims[s][1].key)' = Owns(s, Claims[s][1].key) /\ record' = record
        BY <1>2, <1>6, <2>1
      <4>2. Owns(s, Claims[s][1].key) =>
              pending'[Claims[s][1].key] = pending[Claims[s][1].key]
        <5>1. ~Owns(s, k)
          BY <1>4, <2>3 DEF Owns
        <5> QED
          BY <1>5, <2>1, <5>1
      <4> QED
        BY <4>1, <4>2 DEF Visible
    <3> QED
      BY <3>1, <3>2 DEF IInv, AnswerIsRecorded
  <2> QED
    BY <2>2, <2>3
<1>14. NoHalfComplete' /\ StartsOutermost'
  BY <1>2, <1>7, ReturnOpens DEF IInv, NoHalfComplete
<1> QED
  BY <1>8, <1>9, <1>10, <1>11, <1>12, <1>13, <1>14 DEF IInv

\* What a transaction leaves behind when it ends: nothing that r owned is
\* pending, and what the others own is untouched.
LEMMA EndOwns ==
  ASSUME IInv, NEW r \in Request, NEW label \in Terminal, Active(r),
         Goto(r, label), UNCHANGED level,
         pending' = [k \in Key |-> IF Owns(r, k) THEN None ELSE pending[k]],
         lock' = [k \in Key |-> IF lock[k] = r THEN None ELSE lock[k]],
         staged' = [staged EXCEPT ![r] = {}]
  PROVE  /\ \A s \in Request, k \in Key : Owns(s, k)' = (s # r /\ Owns(s, k))
         /\ \A s \in Request \ {r}, k \in Key : Owns(s, k) => pending'[k] = pending[k]
         /\ \A s \in Request \ {r} : pc'[s] = pc[s] /\ staged'[s] = staged[s]
         /\ pc'[r] = label /\ staged'[r] = {}
         /\ pc' \in [Request -> {"idle", "select", "insert", "reselect", "execute",
                                 "commit", "rollback"} \cup Terminal]
         /\ pending' \in [Key -> Row \cup {None}]
         /\ lock' \in [Key -> Request \cup {None}]
         /\ staged' \in [Request -> SUBSET Key]
         /\ StartsOutermost' /\ OpenIsReserved' /\ ReservedIsOpenOrStaged'
         /\ StagedIsComplete'
<1>1. /\ pc \in [Request -> {"idle", "select", "insert", "reselect", "execute",
                             "commit", "rollback"} \cup Terminal]
      /\ pending \in [Key -> Row \cup {None}] /\ lock \in [Key -> Request \cup {None}]
      /\ staged \in [Request -> SUBSET Key]
  BY DEF IInv, TypeOK
<1>2. \A s \in Request, k \in Key : Owns(s, k)' = (s # r /\ Owns(s, k))
  BY <1>1 DEF Owns
<1>3. \A s \in Request \ {r}, k \in Key : Owns(s, k) => pending'[k] = pending[k]
  BY <1>1 DEF Owns
<1>4. /\ \A s \in Request \ {r} : pc'[s] = pc[s] /\ staged'[s] = staged[s]
      /\ pc'[r] = label /\ staged'[r] = {} /\ label \notin {"idle", "execute"} \cup Claiming
      /\ pc' \in [Request -> {"idle", "select", "insert", "reselect", "execute",
                              "commit", "rollback"} \cup Terminal]
  BY <1>1 DEF Goto, Terminal, Claiming
<1>5. /\ \A s \in Request \ {r} : OpenClaims(s)' = OpenClaims(s)
      /\ OpenClaims(r)' = 0
  BY <1>4 DEF OpenClaims, Claiming
<1>6. StartsOutermost'
  BY <1>4 DEF IInv, StartsOutermost
<1>7. OpenIsReserved'
  <2> SUFFICES ASSUME NEW s \in Request, NEW i \in 1 .. OpenClaims(s)'
               PROVE  /\ Owns(s, Claims[s][i].key)'
                      /\ pending'[Claims[s][i].key].hash = Claims[s][i].hash
    BY DEF OpenIsReserved
  <2>1. s # r /\ i \in 1 .. OpenClaims(s)
    BY <1>5
  <2>2. i \in 1 .. Len(Claims[s])
    BY <2>1, CurrentClaim DEF OpenClaims, Claiming, IInv
  <2>3. Claims[s][i].key \in Key
    BY <2>2, ClaimType
  <2>4. Owns(s, Claims[s][i].key) /\ pending[Claims[s][i].key].hash = Claims[s][i].hash
    BY <2>1 DEF IInv, OpenIsReserved
  <2>5. Owns(s, Claims[s][i].key)' /\ pending'[Claims[s][i].key] = pending[Claims[s][i].key]
    BY <1>2, <1>3, <2>1, <2>3, <2>4
  <2> QED
    BY <2>4, <2>5
<1>8. ReservedIsOpenOrStaged'
  <2> SUFFICES ASSUME NEW s \in Request, NEW k \in Key, s # r, Owns(s, k)
               PROVE  /\ Active(s)'
                      /\ \/ pc'[s] = "rollback"
                         \/ k \in staged'[s]
                         \/ \E i \in 1 .. OpenClaims(s)' : Claims[s][i].key = k
    BY <1>2 DEF ReservedIsOpenOrStaged
  <2>1. /\ Active(s)
        /\ \/ pc[s] = "rollback"
           \/ k \in staged[s]
           \/ \E i \in 1 .. OpenClaims(s) : Claims[s][i].key = k
    BY DEF IInv, ReservedIsOpenOrStaged
  <2> QED
    BY <1>4, <1>5, <2>1 DEF Active
<1>9. StagedIsComplete'
  BY <1>1, <1>2, <1>3, <1>4 DEF IInv, StagedIsComplete
<1>10. /\ pending' \in [Key -> Row \cup {None}] /\ lock' \in [Key -> Request \cup {None}]
       /\ staged' \in [Request -> SUBSET Key]
  BY <1>1
<1> QED
  BY <1>2, <1>3, <1>4, <1>6, <1>7, <1>8, <1>9, <1>10

\* A commit publishes completed claims only, each with its effect, and replaces
\* no record.
LEMMA CommitIInv ==
  ASSUME IInv, NEW r \in Request, Commit(r)
  PROVE  IInv' /\ \A k \in Key : record[k] # None => record'[k] = record[k]
<1>1. /\ pc[r] = "commit" /\ Goto(r, "done") /\ UNCHANGED <<level, result>>
      /\ record' = [k \in Key |-> IF Owns(r, k) THEN pending[k] ELSE record[k]]
      /\ applied' = [k \in Key |-> IF k \in staged[r] THEN applied[k] \cup {r}
                                   ELSE applied[k]]
      /\ pending' = [k \in Key |-> IF Owns(r, k) THEN None ELSE pending[k]]
      /\ lock' = [k \in Key |-> IF lock[k] = r THEN None ELSE lock[k]]
      /\ staged' = [staged EXCEPT ![r] = {}]
  BY DEF Commit
<1>2. Active(r) /\ "done" \in Terminal
  BY <1>1 DEF Active, Terminal
<1>3. \A k \in Key : Owns(r, k) => /\ pending[k] \in Row /\ record[k] = None
                                   /\ pending[k].by = r
  BY DEF IInv, TypeOK, ReservedIsNew, Owns
<1>4. \A k \in Key : k \in staged[r] <=> Owns(r, k)
  <2>1. OpenClaims(r) = 0
    BY <1>1 DEF OpenClaims, Claiming
  <2> QED
    BY <1>1, <2>1 DEF IInv, ReservedIsOpenOrStaged, StagedIsComplete
<1>5. \A k \in Key : record[k] # None => ~Owns(r, k) /\ record'[k] = record[k]
  BY <1>1, <1>3
<1>6. TypeOK'
  <2>1. record' \in [Key -> Row \cup {None}]
    BY <1>1, <1>3 DEF IInv, TypeOK
  <2>2. applied' \in [Key -> SUBSET Request]
    BY <1>1 DEF IInv, TypeOK
  <2> QED
    BY <1>1, <1>2, <2>1, <2>2, EndOwns DEF IInv, TypeOK
<1>7. ReservedIsNew'
  BY <1>1 DEF IInv, ReservedIsNew, Owns, TypeOK
<1>8. AnswerIsRecorded'
  <2> SUFFICES ASSUME NEW s \in Request, pc'[s] \in {"commit", "done"}
               PROVE  Visible(s, Claims[s][1].key)' = Visible(s, Claims[s][1].key)
                      /\ pc[s] \in {"commit", "done"}
    BY <1>1 DEF IInv, AnswerIsRecorded
  <2>1. pc[s] \in {"commit", "done"} /\ Claims[s][1].key \in Key
    BY <1>1, <1>2, EndOwns, CurrentClaim DEF IInv
  <2>2. Visible(s, Claims[s][1].key) # None
    BY <2>1 DEF IInv, AnswerIsRecorded
  <2>3. CASE s = r
    BY <1>1, <1>2, <2>1, <2>3, EndOwns DEF Visible
  <2>4. CASE s # r /\ Owns(s, Claims[s][1].key)
    BY <1>1, <1>2, <2>1, <2>4, EndOwns DEF Visible
  <2>5. CASE s # r /\ ~Owns(s, Claims[s][1].key)
    BY <1>1, <1>2, <1>5, <2>1, <2>2, <2>5, EndOwns DEF Visible
  <2> QED
    BY <2>1, <2>3, <2>4, <2>5
<1>9. NoHalfComplete'
  <2> SUFFICES ASSUME NEW k \in Key
               PROVE  IF record'[k] = None THEN applied'[k] = {}
                      ELSE /\ record'[k].status = Completed
                           /\ record'[k].resource # None
                           /\ applied'[k] = {record'[k].by}
    BY DEF NoHalfComplete
  <2>1. CASE Owns(r, k)
    <3>1. record'[k] = pending[k] /\ applied'[k] = {r} /\ pending[k].by = r
      BY <1>1, <1>3, <1>4, <2>1 DEF IInv, NoHalfComplete
    <3>2. pending[k].status = Completed /\ pending[k].resource # None
      BY <1>4, <2>1 DEF IInv, StagedIsComplete
    <3>3. pending[k] # None
      BY <2>1 DEF Owns
    <3> QED
      BY <3>1, <3>2, <3>3
  <2>2. CASE ~Owns(r, k)
    BY <1>1, <1>4, <2>2 DEF IInv, NoHalfComplete
  <2> QED
    BY <2>1, <2>2
<1> QED
  BY <1>1, <1>2, <1>5, <1>6, <1>7, <1>8, <1>9, EndOwns DEF IInv

\* Rolling back leaves the committed rows and effects alone.
LEMMA UndoIInv ==
  ASSUME IInv, NEW r \in Request, Active(r), Undo(r)
  PROVE  IInv'
<1>1. /\ Goto(r, "failed") /\ UNCHANGED <<level, record, applied>>
      /\ pending' = [k \in Key |-> IF Owns(r, k) THEN None ELSE pending[k]]
      /\ lock' = [k \in Key |-> IF lock[k] = r THEN None ELSE lock[k]]
      /\ staged' = [staged EXCEPT ![r] = {}]
      /\ result' = [result EXCEPT ![r] = None]
      /\ "failed" \in Terminal
  BY DEF Undo, Terminal
<1>2. TypeOK'
  <2>1. result' \in [Request -> Request \cup {None}]
    BY <1>1 DEF IInv, TypeOK
  <2> QED
    BY <1>1, <2>1, EndOwns DEF IInv, TypeOK
<1>3. ReservedIsNew'
  BY <1>1 DEF IInv, ReservedIsNew, TypeOK
<1>4. AnswerIsRecorded'
  <2> SUFFICES ASSUME NEW s \in Request, pc'[s] \in {"commit", "done"}
               PROVE  /\ Visible(s, Claims[s][1].key)' = Visible(s, Claims[s][1].key)
                      /\ pc[s] \in {"commit", "done"} /\ result'[s] = result[s]
    BY <1>1 DEF IInv, AnswerIsRecorded
  <2>1. s # r /\ pc[s] = pc'[s] /\ Claims[s][1].key \in Key
    BY <1>1, EndOwns, CurrentClaim DEF IInv
  <2>2. result'[s] = result[s]
    BY <1>1, <2>1 DEF IInv, TypeOK
  <2> QED
    BY <1>1, <2>1, <2>2, EndOwns DEF Visible
<1>5. NoHalfComplete'
  BY <1>1 DEF IInv, NoHalfComplete
<1> QED
  BY <1>1, <1>2, <1>3, <1>4, <1>5, EndOwns DEF IInv

\* Rows that are committed stay, and IInv is kept, by every step.
LEMMA NextIInv ==
  ASSUME IInv, [Next]_vars
  PROVE  IInv' /\ \A k \in Key : record[k] # None => record'[k] = record[k]
<1>1. CASE UNCHANGED vars
  <2>1. UNCHANGED <<pc, level, pending, lock, staged, result, record, applied>>
    BY <1>1 DEF vars
  <2>2. /\ \A s \in Request : OpenClaims(s)' = OpenClaims(s) /\ Active(s)' = Active(s)
        /\ \A s \in Request, k \in Key : Owns(s, k)' = Owns(s, k)
        /\ \A s \in Request, k \in Key : Visible(s, k)' = Visible(s, k)
    BY <2>1 DEF OpenClaims, Active, Owns, Visible
  <2>3. TypeOK' /\ StartsOutermost' /\ NoHalfComplete'
    BY <2>1 DEF IInv, TypeOK, StartsOutermost, NoHalfComplete
  <2>4. ReservedIsNew' /\ StagedIsComplete'
    BY <2>1 DEF IInv, ReservedIsNew, StagedIsComplete, Owns
  <2>5. OpenIsReserved'
    <3> SUFFICES ASSUME NEW s \in Request, NEW i \in 1 .. OpenClaims(s)'
                 PROVE  /\ Owns(s, Claims[s][i].key)'
                        /\ pending'[Claims[s][i].key].hash = Claims[s][i].hash
      BY DEF OpenIsReserved
    <3>1. i \in 1 .. OpenClaims(s)
      BY <2>2
    <3>2. Owns(s, Claims[s][i].key) /\ pending[Claims[s][i].key].hash = Claims[s][i].hash
      BY <3>1 DEF IInv, OpenIsReserved
    <3>3. pending' = pending
      BY <2>1
    <3> QED
      BY <3>2, <3>3 DEF Owns
  <2>6. ReservedIsOpenOrStaged'
    <3> SUFFICES ASSUME NEW s \in Request, NEW k \in Key, Owns(s, k)'
                 PROVE  /\ Active(s)'
                        /\ \/ pc'[s] = "rollback"
                           \/ k \in staged'[s]
                           \/ \E i \in 1 .. OpenClaims(s)' : Claims[s][i].key = k
      BY DEF ReservedIsOpenOrStaged
    <3>1. /\ Active(s)
          /\ \/ pc[s] = "rollback"
             \/ k \in staged[s]
             \/ \E i \in 1 .. OpenClaims(s) : Claims[s][i].key = k
      BY <2>2 DEF IInv, ReservedIsOpenOrStaged
    <3>2. /\ pc' = pc /\ staged' = staged
          /\ Active(s)' = Active(s) /\ OpenClaims(s)' = OpenClaims(s)
      BY <2>1, <2>2
    <3> QED
      BY <3>1, <3>2
  <2>7. AnswerIsRecorded'
    <3>1. \A s \in Request : Claims[s][1].key \in Key
      BY CurrentClaim DEF IInv
    <3> QED
      BY <2>1, <2>2, <3>1 DEF IInv, AnswerIsRecorded
  <2> QED
    BY <2>1, <2>3, <2>4, <2>5, <2>6, <2>7 DEF IInv
<1>2. ASSUME NEW r \in Request, Begin(r) \/ Step(r) \/ Fail(r) \/ Crash(r) \/ Timeout(r)
      PROVE  IInv' /\ \A k \in Key : record[k] # None => record'[k] = record[k]
  <2> lock \in [Key -> Request \cup {None}]
    BY DEF IInv, TypeOK
  <2>1. CASE Begin(r)
    BY <2>1, MoveIInv DEF Begin
  <2>2. CASE Select(r)
    <3>1. CASE Found(r)
      BY <2>2, <3>1, FoundIInv DEF Select, Found
    <3>2. CASE ~Found(r)
      BY <2>2, <3>2, MoveIInv DEF Select
    <3> QED
      BY <3>1, <3>2
  <2>3. CASE Insert(r)
    BY <2>3, InsertIInv DEF Insert
  <2>4. CASE Reselect(r)
    BY <2>4, FoundIInv DEF Reselect, Found
  <2>5. CASE Execute(r)
    BY <2>5, ExecuteIInv DEF Execute
  <2>6. CASE Commit(r)
    BY <2>6, CommitIInv
  <2>7. CASE Fail(r)
    BY <2>7, MoveIInv DEF Fail, Active, Terminal
  <2>8. CASE Rollback(r) \/ Crash(r) \/ Timeout(r)
    <3>1. Active(r) /\ Undo(r)
      BY <2>8 DEF Rollback, Crash, Timeout, Waiting, WaitsFor, Active, Terminal
    <3> QED
      BY <3>1, UndoIInv DEF Undo
  <2> QED
    BY <1>2, <2>1, <2>2, <2>3, <2>4, <2>5, <2>6, <2>7, <2>8 DEF Step
<1> QED
  BY <1>1, <1>2 DEF Next

-----------------------------------------------------------------------------
\* The protocol keeps the inductive invariant in every reachable state.
THEOREM Inductive == Spec => []IInv
<1>1. IInv /\ [Next]_vars => IInv'
  BY NextIInv
<1> QED
  BY InitIInv, <1>1, PTL DEF Spec

\* Every variable keeps its type, for all requests, keys and claims.
THEOREM TypeCorrect == Spec => []TypeOK
<1>1. IInv => TypeOK
  BY DEF IInv
<1> QED
  BY Inductive, <1>1, PTL

\* However many requests retry a command, one commits its effect at most.
THEOREM AtMostOnce == Spec => []AppliedOnce
<1>1. IInv => AppliedOnce
  BY DEF IInv, NoHalfComplete, AppliedOnce
<1> QED
  BY Inductive, <1>1, PTL

\* A record is durable exactly when it is completed and its effect is durable.
THEOREM RecordAndEffect == Spec => []NoHalfComplete
<1>1. IInv => NoHalfComplete
  BY DEF IInv
<1> QED
  BY Inductive, <1>1, PTL

\* All requests that succeed with a key get the same answer to the same command.
THEOREM SameAnswer == Spec => []OneAnswerPerKey
<1>1. ASSUME IInv PROVE OneAnswerPerKey
  <2> SUFFICES ASSUME NEW r \in Request, NEW s \in Request,
                      pc[r] = "done", pc[s] = "done",
                      Claims[r][1].key = Claims[s][1].key
               PROVE  Claims[r][1].hash = Claims[s][1].hash /\ result[r] = result[s]
    BY DEF OneAnswerPerKey
  <2>1. Claims[r][1].key \in Key
    BY <1>1, CurrentClaim DEF IInv
  <2>2. ~Owns(r, Claims[r][1].key) /\ ~Owns(s, Claims[r][1].key)
    BY <1>1, <2>1 DEF IInv, ReservedIsOpenOrStaged, Active, Terminal
  <2> QED
    BY <1>1, <2>2 DEF IInv, AnswerIsRecorded, Visible
<1> QED
  BY Inductive, <1>1, PTL

\* A committed record is never changed or removed.
THEOREM Durable == Spec => RecordsAreFinal
<1>1. IInv /\ [Next]_vars =>
        [\A k \in Key : record[k] # None => record'[k] = record[k]]_vars
  BY NextIInv
<1> QED
  BY Inductive, <1>1, PTL DEF Spec, RecordsAreFinal

-----------------------------------------------------------------------------
(* The refinement of ExactlyOnce.                                          *)
(*                                                                         *)
(* A commit is one step of ExactlyOnce, and all others are stutters.  The  *)
(* step is known when the innermost claim that is new has been reserved:   *)
(* Performs(r, n) says that these are the outer n, under which everything  *)
(* is answered with the result of claim n + 1, or of r if there is none.   *)

\* Claim i of r is bound to a committed result, which is the answer of r.
AnsweredBy(r, i) ==
  LET row == record[Claims[r][i].key]
  IN row # None /\ row.hash = Claims[r][i].hash /\ row.resource = result[r]

\* The claims between the open ones and n have been executed for the answer of r.
Performs(r, n) ==
  LET executed == {i \in 1 .. n : i > OpenClaims(r)}
  IN /\ n >= OpenClaims(r)
     /\ staged[r] = {Claims[r][i].key : i \in executed}
     /\ \A i \in executed : LET row == pending[Claims[r][i].key]
                            IN row.hash = Claims[r][i].hash /\ row.resource = result[r]
     /\ IF n < Len(Claims[r]) THEN AnsweredBy(r, n + 1)
        ELSE result[r] = IF staged[r] = {} THEN None ELSE r

\* On the way in nothing is executed, and what is open is reserved.
Enters(r) ==
  /\ result[r] = None /\ staged[r] = {}
  /\ \A i \in 1 .. OpenClaims(r) : pending[Claims[r][i].key].status = Reserved

Serves(r) ==
  /\ pc[r] \in Claiming \cup {"idle"} => Enters(r)
  /\ pc[r] \in {"execute", "commit"} => \E n \in 0 .. Len(Claims[r]) : Performs(r, n)

RInv == \A r \in Request : Serves(r)

-----------------------------------------------------------------------------
\* Initially nobody has entered.
LEMMA InitRInv == Init => RInv
<1> SUFFICES ASSUME Init, NEW r \in Request PROVE Serves(r)
  BY DEF RInv
<1>1. pc[r] = "idle" /\ result[r] = None /\ staged[r] = {} /\ OpenClaims(r) = 0
  BY DEF Init, OpenClaims, Claiming
<1> QED
  BY <1>1 DEF Serves, Enters

\* Where s stands depends on what s owns and on what is committed only.
LEMMA KeepsServing ==
  ASSUME IInv, NEW s \in Request, Serves(s),
         pc'[s] = pc[s], level'[s] = level[s], staged'[s] = staged[s],
         result'[s] = result[s],
         \A k \in Key : Owns(s, k) => pending'[k] = pending[k],
         \A k \in Key : record[k] # None => record'[k] = record[k]
  PROVE  Serves(s)'
<1>1. /\ Len(Claims[s]) \in Nat /\ OpenClaims(s)' = OpenClaims(s)
      /\ OpenClaims(s) \in 0 .. Len(Claims[s])
  BY CurrentClaim DEF IInv, OpenClaims, Claiming
<1>2. \A i \in 1 .. Len(Claims[s]) : Claims[s][i].key \in Key
  BY ClaimType
<1>3. ASSUME pc'[s] \in Claiming \cup {"idle"} PROVE Enters(s)'
  <2>1. Enters(s)
    BY <1>3 DEF Serves
  <2>2. \A i \in 1 .. OpenClaims(s) :
          pending'[Claims[s][i].key] = pending[Claims[s][i].key]
    <3> SUFFICES ASSUME NEW i \in 1 .. OpenClaims(s)
                 PROVE  pending'[Claims[s][i].key] = pending[Claims[s][i].key]
      OBVIOUS
    <3>1. Owns(s, Claims[s][i].key) /\ i \in 1 .. Len(Claims[s])
      BY <1>1 DEF IInv, OpenIsReserved
    <3> QED
      BY <1>2, <3>1
  <2> QED
    BY <1>1, <2>1, <2>2 DEF Enters
<1>4. ASSUME pc'[s] \in {"execute", "commit"}
      PROVE  (\E n \in 0 .. Len(Claims[s]) : Performs(s, n))'
  <2>1. PICK n \in 0 .. Len(Claims[s]) : Performs(s, n)
    BY <1>4 DEF Serves
  <2>2. PICK executed : executed = {i \in 1 .. n : i > OpenClaims(s)}
    OBVIOUS
  <2>3. \A i \in executed : Claims[s][i].key \in Key
                            /\ pending'[Claims[s][i].key] = pending[Claims[s][i].key]
    <3> SUFFICES ASSUME NEW i \in executed
                 PROVE  Claims[s][i].key \in Key
                        /\ pending'[Claims[s][i].key] = pending[Claims[s][i].key]
      OBVIOUS
    <3>1. i \in 1 .. Len(Claims[s])
      BY <1>1, <2>2
    <3>2. Claims[s][i].key \in staged[s]
      BY <2>1, <2>2 DEF Performs
    <3>3. Owns(s, Claims[s][i].key)
      BY <3>2 DEF IInv, StagedIsComplete
    <3> QED
      BY <1>2, <3>1, <3>3
  <2>4. ASSUME n < Len(Claims[s]) PROVE AnsweredBy(s, n + 1)'
    <3>1. AnsweredBy(s, n + 1) /\ n + 1 \in 1 .. Len(Claims[s])
      BY <1>1, <2>1, <2>4 DEF Performs
    <3> QED
      BY <1>2, <3>1 DEF AnsweredBy
  <2>5. Performs(s, n)'
    <3>1. /\ n >= OpenClaims(s)
          /\ staged[s] = {Claims[s][i].key : i \in executed}
          /\ \A i \in executed : /\ pending[Claims[s][i].key].hash = Claims[s][i].hash
                                 /\ pending[Claims[s][i].key].resource = result[s]
          /\ ~(n < Len(Claims[s])) =>
               result[s] = IF staged[s] = {} THEN None ELSE s
      BY <2>1, <2>2 DEF Performs
    <3>2. executed = {i \in 1 .. n : i > OpenClaims(s)'}
      BY <1>1, <2>2
    <3> QED
      BY <1>1, <2>3, <2>4, <3>1, <3>2 DEF Performs
  <2> QED
    BY <2>5
<1> QED
  BY <1>3, <1>4 DEF Serves


\* The other requests stand where they stood.
LEMMA OthersServe ==
  ASSUME IInv, RInv, NEW r \in Request,
         Begin(r) \/ Step(r) \/ Fail(r) \/ Crash(r) \/ Timeout(r)
  PROVE  \A s \in Request \ {r} : Serves(s)'
<1> SUFFICES ASSUME NEW s \in Request \ {r} PROVE Serves(s)'
  OBVIOUS
<1>1. /\ DOMAIN pc = Request /\ DOMAIN level = Request /\ DOMAIN staged = Request
      /\ DOMAIN result = Request /\ DOMAIN pending = Key
      /\ pc = [q \in Request |-> pc[q]] /\ level = [q \in Request |-> level[q]]
      /\ staged = [q \in Request |-> staged[q]] /\ result = [q \in Request |-> result[q]]
      /\ pending = [k \in Key |-> pending[k]]
  BY DEF IInv, TypeOK
<1>2. pc'[s] = pc[s]
  BY <1>1 DEF Begin, Step, Fail, Crash, Timeout, Select, Found, Insert, Reselect,
     Execute, Commit, Rollback, Undo, Return, Goto
<1>3. level'[s] = level[s]
  BY <1>1 DEF Begin, Step, Fail, Crash, Timeout, Select, Found, Insert, Reselect,
     Execute, Commit, Rollback, Undo, Return
<1>4. staged'[s] = staged[s]
  BY <1>1 DEF Begin, Step, Fail, Crash, Timeout, Select, Found, Insert, Reselect,
     Execute, Commit, Rollback, Undo
<1>5. result'[s] = result[s]
  BY <1>1 DEF Begin, Step, Fail, Crash, Timeout, Select, Found, Insert, Reselect,
     Execute, Commit, Rollback, Undo
<1>6. \A k \in Key : Owns(s, k) => pending'[k] = pending[k]
  <2> SUFFICES ASSUME NEW k \in Key, Owns(s, k) PROVE pending'[k] = pending[k]
    OBVIOUS
  <2>1. pending[k] # None /\ ~Owns(r, k)
    BY DEF Owns
  <2>2. CASE Insert(r)
    BY <1>1, <2>1, <2>2 DEF Insert
  <2>3. CASE Execute(r)
    <3>1. PICK k1 : k1 = Claim(r).key
      OBVIOUS
    <3>2. Owns(r, k1)
      <4>1. pc[r] = "execute"
        BY <2>3 DEF Execute
      <4>2. OpenClaims(r) = level[r] /\ level[r] \in 1 .. OpenClaims(r)
        BY <4>1, CurrentClaim DEF OpenClaims, IInv
      <4> QED
        BY <3>1, <4>2 DEF IInv, OpenIsReserved, Claim
    <3>3. k1 # k
      BY <2>1, <3>2
    <3>4. PICK row : pending' = [pending EXCEPT ![k1] = row]
      BY <2>3, <3>1 DEF Execute
    <3> QED
      BY <1>1, <3>3, <3>4
  <2>4. CASE Commit(r) \/ Rollback(r) \/ Crash(r) \/ Timeout(r)
    BY <2>1, <2>4 DEF Commit, Rollback, Crash, Timeout, Undo
  <2>5. CASE Begin(r) \/ Select(r) \/ Reselect(r) \/ Fail(r)
    BY <2>5 DEF Begin, Select, Reselect, Found, Fail
  <2> QED
    BY <2>2, <2>3, <2>4, <2>5 DEF Step
<1>7. \A k \in Key : record[k] # None => record'[k] = record[k]
  BY NextIInv DEF Next
<1> QED
  BY <1>2, <1>3, <1>4, <1>5, <1>6, <1>7, KeepsServing DEF RInv

\* A row that is found and matches is committed: it is the answer of r.
LEMMA FoundServes ==
  ASSUME IInv, NEW r \in Request, Serves(r),
         pc[r] \in {"select", "reselect"}, Found(r)
  PROVE  Serves(r)'
<1>1. PICK c : c = Claim(r)
  OBVIOUS
<1>2. PICK row : row = Visible(r, c.key)
  OBVIOUS
<1>3. /\ level[r] \in 1 .. Len(Claims[r]) /\ Len(Claims[r]) \in Nat
      /\ c = Claims[r][level[r]] /\ c.key \in Key
  BY <1>1, CurrentClaim DEF IInv
<1>4. Enters(r) /\ OpenClaims(r) = level[r] - 1 /\ Active(r)
  BY DEF Serves, Claiming, OpenClaims, Active, Terminal
<1>5. row # None /\ UNCHANGED <<record, pending, staged>>
  BY <1>1, <1>2 DEF Found
<1>6. CASE ~Matches(row, c.hash)
  <2>1. pc'[r] = "rollback"
    BY <1>1, <1>2, <1>6 DEF Found, Goto, IInv, TypeOK
  <2> QED
    BY <2>1 DEF Serves, Claiming
<1>7. CASE Matches(row, c.hash)
  <2>1. Return(r) /\ result' = [result EXCEPT ![r] = row.resource]
    BY <1>1, <1>2, <1>7 DEF Found
  <2>2. /\ pc'[r] = IF level[r] = 1 THEN "commit" ELSE "execute"
        /\ OpenClaims(r)' = level[r] - 1
    BY <1>4, <2>1, ReturnOpens
  <2>3. result'[r] = row.resource
    BY <2>1 DEF IInv, TypeOK
  <2>4. ~Owns(r, c.key)
    <3> SUFFICES ASSUME Owns(r, c.key) PROVE FALSE
      OBVIOUS
    <3>1. row.status # Reserved /\ row = pending[c.key]
      BY <1>2, <1>7 DEF Matches, Visible
    <3>2. \E i \in 1 .. OpenClaims(r) : Claims[r][i].key = c.key
      BY <1>3, <1>4 DEF IInv, ReservedIsOpenOrStaged, Enters
    <3> QED
      BY <1>4, <3>1, <3>2 DEF Enters
  <2>5. record[c.key] = row
    BY <1>2, <2>4 DEF Visible
  <2>6. PICK n : n = level[r] - 1
    OBVIOUS
  <2>7. n \in 0 .. Len(Claims[r]) /\ n < Len(Claims[r]) /\ n + 1 = level[r]
    BY <1>3, <2>6
  <2>8. AnsweredBy(r, n + 1)'
    BY <1>3, <1>5, <1>7, <2>3, <2>5, <2>7 DEF AnsweredBy, Matches
  <2>9. {i \in 1 .. n : i > OpenClaims(r)'} = {}
    BY <1>3, <2>2, <2>6, <2>7
  <2>10. staged'[r] = {}
    BY <1>4, <1>5 DEF Enters
  <2>11. Performs(r, n)'
    BY <1>3, <2>2, <2>6, <2>7, <2>8, <2>9, <2>10 DEF Performs
  <2> QED
    BY <2>2, <2>7, <2>11 DEF Serves, Claiming
<1> QED
  BY <1>6, <1>7

\* The insertion of the innermost claim settles that everything is new.
LEMMA InsertServes ==
  ASSUME IInv, NEW r \in Request, Serves(r), Insert(r)
  PROVE  Serves(r)'
<1>1. PICK k : k = Claim(r).key
  OBVIOUS
<1>2. /\ level[r] \in 1 .. Len(Claims[r]) /\ Len(Claims[r]) \in Nat
      /\ k = Claims[r][level[r]].key /\ k \in Key
  BY <1>1, CurrentClaim DEF IInv
<1>3. pc[r] = "insert" /\ pending[k] = None /\ UNCHANGED <<result, staged>>
  BY <1>1 DEF Insert
<1>4. Enters(r) /\ OpenClaims(r) = level[r] - 1
  BY <1>3 DEF Serves, Claiming, OpenClaims
<1>5. CASE Conflicts(k)
  <2>1. pc'[r] = "reselect" /\ UNCHANGED <<level, pending>>
    BY <1>1, <1>5 DEF Insert, Goto, IInv, TypeOK
  <2>2. OpenClaims(r)' = OpenClaims(r)
    BY <1>4, <2>1 DEF OpenClaims, Claiming
  <2> QED
    BY <1>3, <1>4, <2>1, <2>2 DEF Serves, Claiming, Enters
<1>6. CASE ~Conflicts(k)
  <2>1. PICK row : row.status = Reserved /\ pending' = [pending EXCEPT ![k] = row]
    <3>1. PICK row : row = [by |-> r, hash |-> Claim(r).hash, status |-> Reserved,
                            resource |-> None]
      OBVIOUS
    <3>2. row.status = Reserved
      BY <3>1
    <3>3. pending' = [pending EXCEPT ![k] = row]
      BY <1>1, <1>6, <3>1 DEF Insert
    <3> QED
      BY <3>2, <3>3
  <2>2. /\ OpenClaims(r)' = level[r]
        /\ IF level[r] < Len(Claims[r]) THEN pc'[r] = "select" ELSE pc'[r] = "execute"
    BY <1>1, <1>2, <1>6 DEF Insert, Goto, IInv, TypeOK, OpenClaims, Claiming
  <2>3. \A i \in 1 .. level[r] : pending'[Claims[r][i].key].status = Reserved
    <3> SUFFICES ASSUME NEW i \in 1 .. level[r]
                 PROVE  pending'[Claims[r][i].key].status = Reserved
      OBVIOUS
    <3>1. CASE i = level[r]
      BY <1>2, <2>1, <3>1 DEF IInv, TypeOK
    <3>2. CASE i # level[r]
      <4>1. i \in 1 .. OpenClaims(r) /\ i \in 1 .. Len(Claims[r])
        BY <1>2, <1>4, <3>2
      <4>2. /\ Owns(r, Claims[r][i].key)
            /\ pending[Claims[r][i].key].status = Reserved
        BY <1>4, <4>1 DEF IInv, OpenIsReserved, Enters
      <4>3. Claims[r][i].key # k /\ Claims[r][i].key \in Key
        BY <1>3, <4>1, <4>2, ClaimType DEF Owns
      <4> QED
        BY <2>1, <4>2, <4>3 DEF IInv, TypeOK
    <3> QED
      BY <3>1, <3>2
  <2>4. CASE level[r] < Len(Claims[r])
    BY <1>3, <1>4, <2>2, <2>3, <2>4 DEF Serves, Claiming, Enters
  <2>5. CASE ~(level[r] < Len(Claims[r]))
    <3>1. PICK n : n = Len(Claims[r])
      OBVIOUS
    <3>2. n \in 0 .. Len(Claims[r]) /\ n = level[r]
      BY <1>2, <2>5, <3>1
    <3>3. {i \in 1 .. n : i > OpenClaims(r)'} = {}
      BY <1>2, <2>2, <3>2
    <3>4. Performs(r, n)'
      BY <1>2, <1>3, <1>4, <2>2, <3>1, <3>2, <3>3 DEF Performs, Enters
    <3> QED
      BY <2>2, <2>5, <3>2, <3>4 DEF Serves, Claiming
  <2> QED
    BY <2>4, <2>5
<1> QED
  BY <1>5, <1>6


\* One more level is executed, for the same answer.
LEMMA ExecuteServes ==
  ASSUME IInv, NEW r \in Request, Serves(r), Execute(r)
  PROVE  Serves(r)'
<1>1. PICK k : k = Claim(r).key
  OBVIOUS
<1>2. PICK res : res = ResultOf(r)
  OBVIOUS
<1>3. /\ level[r] \in 1 .. Len(Claims[r]) /\ Len(Claims[r]) \in Nat
      /\ k = Claims[r][level[r]].key /\ k \in Key /\ r # None
  BY <1>1, CurrentClaim, NoneAssumption DEF IInv
<1>4. /\ pc[r] = "execute" /\ Return(r) /\ UNCHANGED record
      /\ staged' = [staged EXCEPT ![r] = @ \cup {k}]
      /\ result' = [result EXCEPT ![r] = res]
      /\ pending' = [pending EXCEPT ![k] = [pending[k] EXCEPT !.status = Completed,
                                                              !.resource = res]]
  BY <1>1, <1>2, <1>3 DEF Execute, IInv, TypeOK
<1>5. Active(r) /\ OpenClaims(r) = level[r] /\ level[r] \in 1 .. OpenClaims(r)
  BY <1>3, <1>4 DEF OpenClaims, Active, Terminal
<1>6. /\ pc'[r] = IF level[r] = 1 THEN "commit" ELSE "execute"
      /\ OpenClaims(r)' = level[r] - 1
  BY <1>4, <1>5, ReturnOpens
<1>7. PICK n \in 0 .. Len(Claims[r]) : Performs(r, n)
  BY <1>4 DEF Serves
<1>8. PICK executed : executed = {i \in 1 .. n : i > OpenClaims(r)}
  OBVIOUS
<1>9. /\ n >= OpenClaims(r)
      /\ staged[r] = {Claims[r][i].key : i \in executed}
      /\ \A i \in executed : /\ pending[Claims[r][i].key].hash = Claims[r][i].hash
                             /\ pending[Claims[r][i].key].resource = result[r]
      /\ IF n < Len(Claims[r]) THEN AnsweredBy(r, n + 1)
         ELSE result[r] = IF staged[r] = {} THEN None ELSE r
  BY <1>7, <1>8 DEF Performs
<1>10. PICK later : later = executed \cup {level[r]}
  OBVIOUS
<1>11. later = {i \in 1 .. n : i > OpenClaims(r)'}
  BY <1>3, <1>5, <1>6, <1>8, <1>9, <1>10
<1>12. \A i \in later : i \in 1 .. Len(Claims[r]) /\ Claims[r][i].key \in Key
  BY <1>3, <1>7, <1>11, ClaimType
\* What was answered so far is answered now.
<1>13. result[r] # None => res = result[r]
  BY <1>2 DEF ResultOf
<1>14. executed # {} => result[r] # None
  <2> SUFFICES ASSUME NEW i \in executed PROVE result[r] # None
    OBVIOUS
  <2>1. Claims[r][i].key \in staged[r]
    BY <1>9
  <2>2. pending[Claims[r][i].key].resource # None
    BY <2>1 DEF IInv, StagedIsComplete
  <2> QED
    BY <1>9, <2>2
<1>15. result'[r] = res /\ staged'[r] = staged[r] \cup {k}
  BY <1>4 DEF IInv, TypeOK
<1>16. staged'[r] = {Claims[r][i].key : i \in later}
  BY <1>3, <1>9, <1>10, <1>15
<1>17. \A i \in later : /\ pending'[Claims[r][i].key].hash = Claims[r][i].hash
                        /\ pending'[Claims[r][i].key].resource = res
  <2> SUFFICES ASSUME NEW i \in later
               PROVE  /\ pending'[Claims[r][i].key].hash = Claims[r][i].hash
                      /\ pending'[Claims[r][i].key].resource = res
    OBVIOUS
  <2>1. pending[Claims[r][i].key].hash = Claims[r][i].hash
    BY <1>5, <1>9, <1>10 DEF IInv, OpenIsReserved
  <2>2. CASE Claims[r][i].key = k
    <3>1. pending[k] \in Row
      BY <1>3, <1>5 DEF IInv, TypeOK, OpenIsReserved, Owns
    <3>2. pending'[k] = [pending[k] EXCEPT !.status = Completed, !.resource = res]
      BY <1>3, <1>4 DEF IInv, TypeOK
    <3>3. pending'[k].hash = pending[k].hash /\ pending'[k].resource = res
      BY <3>1, <3>2 DEF Row
    <3> QED
      BY <2>1, <2>2, <3>3
  <2>3. CASE Claims[r][i].key # k
    <3>1. i \in executed
      BY <1>3, <1>10, <2>3
    <3>2. pending'[Claims[r][i].key] = pending[Claims[r][i].key]
      BY <1>4, <1>12, <2>3 DEF IInv, TypeOK
    <3> QED
      BY <1>9, <1>13, <1>14, <2>1, <3>1, <3>2
  <2> QED
    BY <2>2, <2>3
<1>18. IF n < Len(Claims[r]) THEN AnsweredBy(r, n + 1)'
       ELSE res = IF staged'[r] = {} THEN None ELSE r
  <2>1. CASE n < Len(Claims[r])
    <3>1. n + 1 \in 1 .. Len(Claims[r])
      BY <1>3, <2>1
    <3>2. AnsweredBy(r, n + 1) /\ Claims[r][n + 1].key \in Key
      BY <1>9, <2>1, <3>1, ClaimType
    <3>3. result[r] # None
      BY <3>2 DEF AnsweredBy, IInv, NoHalfComplete
    <3> QED
      BY <1>4, <1>13, <1>15, <2>1, <3>2, <3>3 DEF AnsweredBy
  <2>2. CASE ~(n < Len(Claims[r]))
    <3>1. res = r
      BY <1>2, <1>9, <2>2 DEF ResultOf
    <3> QED
      BY <1>15, <2>2, <3>1
  <2> QED
    BY <2>1, <2>2
<1>19. n >= OpenClaims(r)'
  BY <1>3, <1>5, <1>6, <1>9
<1>20. Performs(r, n)'
  BY <1>11, <1>15, <1>16, <1>17, <1>18, <1>19 DEF Performs
<1> QED
  BY <1>6, <1>20 DEF Serves, Claiming

\* Every step keeps what is known of the request that it serves.
LEMMA NextRInv ==
  ASSUME IInv, RInv, [Next]_vars
  PROVE  RInv'
<1>1. CASE UNCHANGED vars
  <2>1. \A s \in Request : Serves(s)'
    BY <1>1, KeepsServing DEF vars, RInv
  <2> QED
    BY <2>1 DEF RInv
<1>2. ASSUME NEW r \in Request, Begin(r) \/ Step(r) \/ Fail(r) \/ Crash(r) \/ Timeout(r)
      PROVE  RInv'
  <2> SUFFICES Serves(r)'
    BY <1>2, OthersServe DEF RInv
  <2>1. Serves(r) /\ pc = [q \in Request |-> pc[q]]
    BY DEF RInv, IInv, TypeOK
  <2>2. CASE Begin(r)
    <3>1. /\ pc[r] = "idle" /\ pc'[r] = "select" /\ level[r] = 1
          /\ UNCHANGED <<level, pending, result, staged>>
      BY <2>1, <2>2 DEF Begin, Goto, IInv, StartsOutermost
    <3>2. OpenClaims(r)' = 0
      BY <3>1 DEF OpenClaims, Claiming
    <3> QED
      BY <2>1, <3>1, <3>2 DEF Serves, Enters, Claiming
  <2>3. CASE Select(r) /\ ~Found(r)
    <3>1. /\ pc[r] = "select" /\ pc'[r] = "insert"
          /\ UNCHANGED <<level, pending, result, staged>>
      BY <2>1, <2>3 DEF Select, Goto
    <3>2. OpenClaims(r)' = OpenClaims(r)
      BY <3>1 DEF OpenClaims, Claiming
    <3> QED
      BY <2>1, <3>1, <3>2 DEF Serves, Enters, Claiming
  <2>4. CASE (Select(r) /\ Found(r)) \/ Reselect(r)
    <3>1. pc[r] \in {"select", "reselect"} /\ Found(r)
      BY <2>4 DEF Select, Reselect
    <3> QED
      BY <2>1, <3>1, FoundServes
  <2>5. CASE Insert(r)
    BY <2>1, <2>5, InsertServes
  <2>6. CASE Execute(r)
    BY <2>1, <2>6, ExecuteServes
  <2>7. CASE Commit(r) \/ Fail(r) \/ Rollback(r) \/ Crash(r) \/ Timeout(r)
    <3>1. pc'[r] \in {"done", "rollback", "failed"}
      BY <2>1, <2>7 DEF Commit, Fail, Rollback, Crash, Timeout, Undo, Goto
    <3> QED
      BY <3>1 DEF Serves, Claiming
  <2> QED
    BY <1>2, <2>2, <2>3, <2>4, <2>5, <2>6, <2>7 DEF Step
<1> QED
  BY <1>1, <1>2 DEF Next


\* How an abstract answer is read from the state.
LEMMA ReplyOf ==
  ASSUME NEW s \in Request
  PROVE  /\ pc[s] = "done" => Reply[s] = result[s]
         /\ pc[s] = "failed" => Reply[s] = "refused"
         /\ pc[s] \notin Terminal => Reply[s] = None
BY DEF Reply, Terminal

\* The same in the next state.
LEMMA NextReplyOf ==
  ASSUME NEW s \in Request
  PROVE  /\ pc'[s] = "done" => Reply'[s] = result'[s]
         /\ pc'[s] = "failed" => Reply'[s] = "refused"
         /\ pc'[s] \notin Terminal => Reply'[s] = None
BY DEF Reply, Terminal

\* A step of r answers r only.
LEMMA OnlyReply ==
  ASSUME NEW r \in Request, NEW v, Reply'[r] = v,
         \A s \in Request \ {r} : pc'[s] = pc[s] /\ result'[s] = result[s]
  PROVE  Reply' = [Reply EXCEPT ![r] = v]
<1>1. \A s \in Request \ {r} : Reply'[s] = Reply[s]
  BY DEF Reply
<1>2. PICK before : before = Reply
  OBVIOUS
<1>3. PICK after : after = Reply'
  OBVIOUS
<1>4. before = [s \in Request |-> before[s]]
  BY <1>2 DEF Reply
<1>5. after = [s \in Request |-> after[s]]
  BY <1>3 DEF Reply
<1>6. after = [before EXCEPT ![r] = v]
  BY <1>1, <1>2, <1>3, <1>4, <1>5
<1> QED
  BY <1>2, <1>3, <1>6

\* What is committed for a key.
LEMMA OutcomeOf ==
  ASSUME NEW k \in Key, TypeOK
  PROVE  /\ record[k] = None <=> Outcome[k] = None
         /\ record[k] # None => /\ Outcome[k].hash = record[k].hash
                                /\ Outcome[k].resource = record[k].resource
<1>1. CASE record[k] = None
  BY <1>1 DEF Outcome
<1>2. CASE record[k] # None
  <2>1. record[k].hash \in Hash /\ record[k].resource \in Request \cup {None}
    BY <1>2, RowType DEF TypeOK
  <2>2. Outcome[k] = [hash |-> record[k].hash, resource |-> record[k].resource]
    BY <1>2 DEF Outcome
  <2>3. Outcome[k] \in [hash : Hash, resource : Request \cup {None}]
    BY <2>1, <2>2
  <2> QED
    BY <1>2, <2>2, <2>3, NoneAssumption
<1> QED
  BY <1>1, <1>2

\* A commit is the replay of the outermost claim, or the performance of the
\* outer claims that were new.
LEMMA CommitImplements ==
  ASSUME IInv, RInv, NEW r \in Request, Commit(r)
  PROVE  Abstract!Replay(r) \/ \E n \in 1 .. Len(Claims[r]) : Abstract!Perform(r, n)
<1>1. /\ pc[r] = "commit" /\ pc'[r] = "done" /\ UNCHANGED <<level, result>>
      /\ \A s \in Request \ {r} : pc'[s] = pc[s]
      /\ record' = [k \in Key |-> IF Owns(r, k) THEN pending[k] ELSE record[k]]
  BY DEF Commit, Goto, IInv, TypeOK
<1>2. Reply[r] = None /\ Reply' = [Reply EXCEPT ![r] = result[r]]
  <2>1. Reply[r] = None
    BY <1>1, ReplyOf DEF Terminal
  <2>2. Reply'[r] = result[r]
    BY <1>1, NextReplyOf
  <2> QED
    BY <1>1, <2>1, <2>2, OnlyReply
<1>3. OpenClaims(r) = 0 /\ Len(Claims[r]) \in Nat /\ Len(Claims[r]) > 0
  BY <1>1, ClaimsAssumption DEF OpenClaims, Claiming
<1>4. PICK n \in 0 .. Len(Claims[r]) : Performs(r, n)
  BY <1>1 DEF RInv, Serves
<1>5. PICK executed : executed = {i \in 1 .. n : i > OpenClaims(r)}
  OBVIOUS
<1>6. executed = 1 .. n
  BY <1>3, <1>5
<1>7. /\ staged[r] = {Claims[r][i].key : i \in 1 .. n}
      /\ \A i \in 1 .. n : /\ pending[Claims[r][i].key].hash = Claims[r][i].hash
                           /\ pending[Claims[r][i].key].resource = result[r]
      /\ IF n < Len(Claims[r]) THEN AnsweredBy(r, n + 1)
         ELSE result[r] = IF staged[r] = {} THEN None ELSE r
  BY <1>4, <1>5, <1>6 DEF Performs
<1>8. \A k \in Key : Owns(r, k) <=> \E i \in 1 .. n : Claims[r][i].key = k
  <2>1. \A k \in Key : k \in staged[r] <=> Owns(r, k)
    BY <1>1, <1>3 DEF IInv, ReservedIsOpenOrStaged, StagedIsComplete
  <2> QED
    BY <1>7, <2>1
<1>9. ASSUME n < Len(Claims[r])
      PROVE  Abstract!Bound(r, n + 1) /\ Outcome[Claims[r][n + 1].key].resource = result[r]
  <2>1. n + 1 \in 1 .. Len(Claims[r]) /\ AnsweredBy(r, n + 1)
    BY <1>3, <1>7, <1>9
  <2>2. Claims[r][n + 1].key \in Key
    BY <2>1, ClaimType
  <2> QED
    BY <2>1, <2>2, OutcomeOf DEF AnsweredBy, Abstract!Bound, IInv
<1>10. CASE n = 0
  <2>1. \A k \in Key : record'[k] = record[k]
    BY <1>1, <1>8, <1>10
  <2>2. UNCHANGED Outcome
    BY <2>1 DEF Outcome
  <2>3. /\ 0 + 1 = 1 /\ Abstract!Bound(r, 0 + 1)
        /\ Outcome[Claims[r][0 + 1].key].resource = result[r]
    BY <1>3, <1>9, <1>10
  <2>4. Abstract!Bound(r, 1) /\ Outcome[Claims[r][1].key].resource = result[r]
    BY <2>3
  <2> QED
    BY <1>2, <2>2, <2>4 DEF Abstract!Replay
<1>11. CASE n # 0
  <2>1. PICK res : res = IF n = Len(Claims[r]) THEN r
                         ELSE Outcome[Claims[r][n + 1].key].resource
    OBVIOUS
  <2>2. res = result[r]
    <3>1. CASE n = Len(Claims[r])
      <4>1. 1 \in 1 .. n
        BY <1>3, <1>11
      <4>2. staged[r] # {}
        BY <1>7, <4>1
      <4>3. ~(n < Len(Claims[r]))
        BY <1>3, <3>1
      <4>4. result[r] = r
        BY <1>7, <4>2, <4>3
      <4> QED
        BY <2>1, <3>1, <4>4
    <3>2. CASE n # Len(Claims[r])
      BY <1>3, <1>9, <2>1, <3>2
    <3> QED
      BY <3>1, <3>2
  <2>3. \A i \in 1 .. n : Claims[r][i].key \in Key /\ Outcome[Claims[r][i].key] = None
    <3> SUFFICES ASSUME NEW i \in 1 .. n
                 PROVE  Claims[r][i].key \in Key /\ Outcome[Claims[r][i].key] = None
      OBVIOUS
    <3>1. Claims[r][i].key \in Key
      BY <1>3, ClaimType
    <3>2. Owns(r, Claims[r][i].key)
      BY <1>8, <3>1
    <3> QED
      BY <3>1, <3>2, OutcomeOf DEF IInv, ReservedIsNew, Owns
  <2>4. \A k \in Key :
          Outcome'[k] = IF \E i \in 1 .. n : Claims[r][i].key = k
                        THEN [hash |-> Claims[r][CHOOSE i \in 1 .. n : Claims[r][i].key = k].hash,
                              resource |-> res]
                        ELSE Outcome[k]
    <3> SUFFICES ASSUME NEW k \in Key
                 PROVE  Outcome'[k] =
                          IF \E i \in 1 .. n : Claims[r][i].key = k
                          THEN [hash |-> Claims[r][CHOOSE i \in 1 .. n : Claims[r][i].key = k].hash,
                                resource |-> res]
                          ELSE Outcome[k]
      OBVIOUS
    <3>1. CASE \E i \in 1 .. n : Claims[r][i].key = k
      <4>1. PICK j : j = CHOOSE i \in 1 .. n : Claims[r][i].key = k
        OBVIOUS
      <4>2. j \in 1 .. n /\ Claims[r][j].key = k
        BY <3>1, <4>1
      <4>3. record'[k] = pending[k] /\ pending[k] # None
        BY <1>1, <1>8, <3>1 DEF Owns
      <4>4. pending[k].hash = Claims[r][j].hash /\ pending[k].resource = res
        BY <1>7, <2>2, <4>2
      <4>5. Outcome'[k] = [hash |-> record'[k].hash, resource |-> record'[k].resource]
        BY <4>3 DEF Outcome
      <4> QED
        BY <3>1, <4>1, <4>3, <4>4, <4>5
    <3>2. CASE ~\E i \in 1 .. n : Claims[r][i].key = k
      <4>1. record'[k] = record[k]
        BY <1>1, <1>8, <3>2
      <4>2. Outcome'[k] = Outcome[k]
        BY <4>1 DEF Outcome
      <4> QED
        BY <3>2, <4>2
    <3> QED
      BY <3>1, <3>2
  <2>5. Outcome' = [k \in Key |->
                      IF \E i \in 1 .. n : Claims[r][i].key = k
                      THEN [hash |-> Claims[r][CHOOSE i \in 1 .. n : Claims[r][i].key = k].hash,
                            resource |-> res]
                      ELSE Outcome[k]]
    <3>1. PICK after : after = Outcome'
      OBVIOUS
    <3>2. after = [k \in Key |-> after[k]]
      BY <3>1 DEF Outcome
    <3> QED
      BY <2>4, <3>1, <3>2
  <2>6. n < Len(Claims[r]) => Abstract!Bound(r, n + 1)
    BY <1>9
  <2>7. Abstract!Perform(r, n)
    BY <1>2, <2>1, <2>2, <2>3, <2>5, <2>6 DEF Abstract!Perform
  <2> QED
    BY <1>3, <1>11, <2>7
<1> QED
  BY <1>10, <1>11

\* The end of a transaction that commits nothing refuses the request.
LEMMA UndoImplements ==
  ASSUME IInv, NEW r \in Request, Active(r), Undo(r)
  PROVE  Abstract!Refuse(r)
<1>1. /\ pc'[r] = "failed" /\ pc[r] \notin Terminal /\ UNCHANGED record
      /\ \A s \in Request \ {r} : pc'[s] = pc[s] /\ result'[s] = result[s]
  BY DEF Undo, Goto, IInv, TypeOK, Active
<1>2. UNCHANGED Outcome
  BY <1>1 DEF Outcome
<1>3. Reply[r] = None /\ Reply'[r] = "refused"
  BY <1>1, ReplyOf, NextReplyOf
<1> QED
  BY <1>1, <1>2, <1>3, OnlyReply DEF Abstract!Refuse

\* A step that neither commits nor ends the transaction is not seen.
LEMMA InnerStutters ==
  ASSUME NEW r \in Request, UNCHANGED record,
         pc[r] \notin Terminal, pc'[r] \notin Terminal,
         \A s \in Request \ {r} : pc'[s] = pc[s] /\ result'[s] = result[s]
  PROVE  UNCHANGED <<Outcome, Reply>>
<1>1. UNCHANGED Outcome
  BY DEF Outcome
<1>2. \A s \in Request : Reply'[s] = Reply[s]
  BY ReplyOf, NextReplyOf DEF Reply
<1>3. PICK before : before = Reply
  OBVIOUS
<1>4. PICK after : after = Reply'
  OBVIOUS
<1>5. before = [s \in Request |-> before[s]]
  BY <1>3 DEF Reply
<1>6. after = [s \in Request |-> after[s]]
  BY <1>4 DEF Reply
<1> QED
  BY <1>1, <1>2, <1>3, <1>4, <1>5, <1>6

\* Every step of the protocol is a step of the indivisible service, or none.
LEMMA StepImplements ==
  ASSUME IInv, RInv, [Next]_vars
  PROVE  [Abstract!Next]_(Abstract!vars)
<1>1. CASE UNCHANGED vars
  BY <1>1 DEF vars, Abstract!vars, Outcome, Reply
<1>2. ASSUME NEW r \in Request, Begin(r) \/ Step(r) \/ Fail(r) \/ Crash(r) \/ Timeout(r)
      PROVE  [Abstract!Next]_(Abstract!vars)
  <2>1. /\ pc = [q \in Request |-> pc[q]] /\ result = [q \in Request |-> result[q]]
        /\ level[r] \in Nat
    BY DEF IInv, TypeOK
  <2>2. CASE Commit(r)
    BY <2>2, CommitImplements DEF Abstract!Next
  <2>3. CASE Rollback(r) \/ Crash(r) \/ Timeout(r)
    <3>1. Active(r) /\ Undo(r)
      BY <2>3 DEF Rollback, Crash, Timeout, Waiting, WaitsFor, Active, Terminal
    <3> QED
      BY <3>1, UndoImplements DEF Abstract!Next
  <2>4. CASE Begin(r) \/ Select(r) \/ Insert(r) \/ Reselect(r) \/ Execute(r) \/ Fail(r)
    <3>1. UNCHANGED record
      BY <2>4 DEF Begin, Select, Found, Insert, Reselect, Execute, Fail
    <3>2. pc[r] \notin Terminal
      BY <2>4 DEF Begin, Select, Insert, Reselect, Execute, Fail, Terminal
    <3>3. pc'[r] \notin Terminal
      BY <2>1, <2>4 DEF Begin, Select, Found, Insert, Reselect, Execute, Fail,
         Terminal, Goto, Return
    <3>4. \A s \in Request \ {r} : pc'[s] = pc[s] /\ result'[s] = result[s]
      BY <2>1, <2>4 DEF Begin, Select, Found, Insert, Reselect, Execute, Fail,
         Goto, Return
    <3> QED
      BY <3>1, <3>2, <3>3, <3>4, InnerStutters DEF Abstract!vars
  <2> QED
    BY <1>2, <2>2, <2>3, <2>4 DEF Step
<1> QED
  BY <1>1, <1>2 DEF Next

\* However requests interleave, wait, crash and retry, their callers cannot tell
\* the protocol from a service that handles each request in one step.
THEOREM Refinement == Spec => ImplementsExactlyOnce
<1>1. Init => Abstract!Init
  BY DEF Init, Abstract!Init, Outcome, Reply
<1>2. IInv /\ RInv /\ [Next]_vars => RInv'
  BY NextRInv
<1>3. IInv /\ RInv /\ [Next]_vars => [Abstract!Next]_(Abstract!vars)
  BY StepImplements
<1> QED
  BY Inductive, InitRInv, <1>1, <1>2, <1>3, PTL
     DEF Spec, ImplementsExactlyOnce, Abstract!Spec
=============================================================================
