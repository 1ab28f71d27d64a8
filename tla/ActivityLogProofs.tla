-------------------------- MODULE ActivityLogProofs --------------------------
(* What appending one event changes in the reading of a log.               *)
EXTENDS ActivityLog, TLAPS

(* The latest position is the one that bounds the others.                  *)
LEMMA LatestIs ==
    ASSUME NEW I \in SUBSET Nat, NEW i \in I, \A j \in I : j <= i
    PROVE  Latest(I) = i
<1> DEFINE L == CHOOSE k \in I : \A j \in I : j <= k
<1>1. L \in I /\ \A j \in I : j <= L
  OBVIOUS
<1>2. L \in Nat /\ i \in Nat /\ L <= i /\ i <= L
  BY <1>1
<1> HIDE DEF L
<1>3. L = i
  BY <1>2
<1> USE DEF L
<1> QED
  BY <1>3 DEF Latest

(* Any set of positions with a bound among them contains its latest one.   *)
LEMMA LatestExists ==
    ASSUME NEW I \in SUBSET Nat, HasLatest(I), I # {}
    PROVE  Latest(I) \in I
<1> PICK i \in I : \A j \in I : j <= i
  BY DEF HasLatest
<1> QED
  BY LatestIs

(* An event is an assignment update, or carries no metadata.               *)
LEMMA EventShape ==
    ASSUME NEW e \in Event
    PROVE  /\ e.action \in {"created", "accepted", "assignment_updated"}
           /\ e.actor \in Users
           /\ e.action = "assignment_updated" => e.metadata.after \in Assignment
BY DEF Event

(* Appending adds the new position to those of its own action, and to no   *)
(* others.                                                                 *)
LEMMA PositionsAppend ==
    ASSUME NEW log \in Seq(Event), NEW e \in Event, NEW k
    PROVE  /\ Positions(log, k) \in SUBSET Nat
           /\ \A i \in Positions(log, k) : i <= Len(log)
           /\ Positions(Append(log, e), k) =
                Positions(log, k)
                  \cup (IF e.action = k THEN {Len(log) + 1} ELSE {})
<1>1. DOMAIN log = 1 .. Len(log) /\ Len(log) \in Nat
  OBVIOUS
<1>2. DOMAIN Append(log, e) = 1 .. (Len(log) + 1)
  OBVIOUS
<1>3. \A i \in 1 .. Len(log) : Append(log, e)[i] = log[i]
  OBVIOUS
<1>4. Append(log, e)[Len(log) + 1] = e
  OBVIOUS
<1>5. \A i : i \in DOMAIN Append(log, e) <=> i \in DOMAIN log \/ i = Len(log) + 1
  BY <1>1, <1>2
<1> HIDE DEF Event
<1>6. \A i : i \in Positions(Append(log, e), k)
               <=> i \in Positions(log, k) \/ (i = Len(log) + 1 /\ e.action = k)
  BY <1>1, <1>3, <1>4, <1>5 DEF Positions
<1>7. Positions(Append(log, e), k) =
        Positions(log, k) \cup (IF e.action = k THEN {Len(log) + 1} ELSE {})
  BY <1>6
<1> QED
  BY <1>1, <1>7 DEF Positions

LEMMA OwnPositionAdded ==
    ASSUME NEW log \in Seq(Event), NEW e \in Event, NEW k, e.action = k
    PROVE  Positions(Append(log, e), k) = Positions(log, k) \cup {Len(log) + 1}
BY PositionsAppend

LEMMA OtherPositionsKept ==
    ASSUME NEW log \in Seq(Event), NEW e \in Event, NEW k, e.action # k
    PROVE  Positions(Append(log, e), k) = Positions(log, k)
<1> DEFINE P == Positions(log, k)
           Q == Positions(Append(log, e), k)
<1>1. Q = P \cup (IF e.action = k THEN {Len(log) + 1} ELSE {})
  BY PositionsAppend
<1> HIDE DEF P, Q
<1>2. Q = P
  BY <1>1
<1> QED
  BY <1>2 DEF P, Q

(* Positions that are all equal are bounded by the only one.               *)
LEMMA UniqueHasLatest ==
    ASSUME NEW I \in SUBSET Nat, \A i, j \in I : i = j
    PROVE  HasLatest(I)
<1>1. CASE I = {}
  BY <1>1 DEF HasLatest
<1>2. CASE I # {}
  <2> PICK i \in I : TRUE
    BY <1>2
  <2>1. i \in Nat /\ \A j \in I : j = i
    OBVIOUS
  <2>2. \A j \in I : j <= i
    BY <2>1
  <2> QED
    BY <2>2 DEF HasLatest
<1> QED
  BY <1>1, <1>2

(* The bound on the positions survives an append.                          *)
LEMMA HasLatestAppend ==
    ASSUME NEW log \in Seq(Event), NEW e \in Event, NEW k,
           HasLatest(Positions(log, k))
    PROVE  HasLatest(Positions(Append(log, e), k))
<1> DEFINE P == Positions(log, k)
           n == Len(log) + 1
<1>1. P \in SUBSET Nat /\ \A i \in P : i <= Len(log)
  BY PositionsAppend
<1>2. Len(log) \in Nat
  OBVIOUS
<1>3. Positions(Append(log, e), k) = P \cup (IF e.action = k THEN {n} ELSE {})
  BY PositionsAppend
<1>4. CASE e.action = k
  <2>1. \A j \in P \cup {n} : j <= n
    BY <1>1, <1>2
  <2> QED
    BY <1>3, <1>4, <2>1 DEF HasLatest
<1>5. CASE e.action # k
  BY <1>3, <1>5
<1> QED
  BY <1>4, <1>5

(* An appended event is the newest of its action.                          *)
LEMMA AppendedIsLatest ==
    ASSUME NEW log \in Seq(Event), NEW e \in Event, NEW k, e.action = k,
           HasLatest(Positions(log, k))
    PROVE  /\ Positions(Append(log, e), k) # {}
           /\ Append(log, e)[Latest(Positions(Append(log, e), k))] = e
<1> DEFINE P == Positions(log, k)
           n == Len(log) + 1
<1>1. P \in SUBSET Nat /\ \A i \in P : i <= Len(log)
  BY PositionsAppend
<1>2. Len(log) \in Nat
  OBVIOUS
<1>3. Positions(Append(log, e), k) = P \cup {n}
  BY OwnPositionAdded
<1>4. /\ P \cup {n} \in SUBSET Nat
      /\ n \in P \cup {n}
      /\ \A j \in P \cup {n} : j <= n
  BY <1>1, <1>2
<1>5. Latest(P \cup {n}) = n
  BY <1>4, LatestIs
<1>6. Append(log, e)[n] = e
  OBVIOUS
<1> QED
  BY <1>3, <1>5, <1>6

(* The newest event of another action stays what it was.                   *)
LEMMA OthersStayLatest ==
    ASSUME NEW log \in Seq(Event), NEW e \in Event, NEW k, e.action # k,
           HasLatest(Positions(log, k))
    PROVE  /\ Positions(Append(log, e), k) = Positions(log, k)
           /\ Positions(log, k) # {} =>
                Append(log, e)[Latest(Positions(log, k))] = log[Latest(Positions(log, k))]
<1> DEFINE P == Positions(log, k)
<1>1. P \in SUBSET Nat /\ \A i \in P : i <= Len(log)
  BY PositionsAppend
<1>2. Positions(Append(log, e), k) = P
  BY OtherPositionsKept
<1>3. P # {} => Latest(P) \in P
  BY <1>1, LatestExists
<1>4. P # {} => Append(log, e)[Latest(P)] = log[Latest(P)]
  BY <1>1, <1>3 DEF Positions
<1> QED
  BY <1>2, <1>4

(* The current assignment after an append is the one the event carries, or *)
(* the one before it.                                                      *)
LEMMA CurrentAssignmentAppend ==
    ASSUME NEW log \in Seq(Event), NEW e \in Event,
           HasLatest(Positions(log, "assignment_updated"))
    PROVE  CurrentAssignment(Append(log, e)) =
             IF e.action = "assignment_updated"
             THEN e.metadata.after ELSE CurrentAssignment(log)
<1>1. CASE e.action = "assignment_updated"
  <2>1. /\ Positions(Append(log, e), "assignment_updated") # {}
        /\ Append(log, e)[Latest(Positions(Append(log, e), "assignment_updated"))] = e
    BY <1>1, AppendedIsLatest
  <2> QED
    BY <1>1, <2>1 DEF CurrentAssignment
<1>2. CASE e.action # "assignment_updated"
  <2>1. Positions(Append(log, e), "assignment_updated") = Positions(log, "assignment_updated")
    BY <1>2, OthersStayLatest
  <2>2. Positions(log, "assignment_updated") # {} =>
           Append(log, e)[Latest(Positions(log, "assignment_updated"))]
             = log[Latest(Positions(log, "assignment_updated"))]
    BY <1>2, OthersStayLatest
  <2> QED
    BY <1>2, <2>1, <2>2 DEF CurrentAssignment
<1> QED
  BY <1>1, <1>2

(* The owner after an append is the actor of an appended acceptance, or    *)
(* the owner before it.                                                    *)
LEMMA AcceptorAppend ==
    ASSUME NEW log \in Seq(Event), NEW e \in Event,
           HasLatest(Positions(log, "accepted"))
    PROVE  /\ IsAccepted(Append(log, e)) <=> e.action = "accepted" \/ IsAccepted(log)
           /\ Acceptor(Append(log, e)) =
                IF e.action = "accepted" THEN e.actor ELSE Acceptor(log)
<1>1. CASE e.action = "accepted"
  <2>1. /\ Positions(Append(log, e), "accepted") # {}
        /\ Append(log, e)[Latest(Positions(Append(log, e), "accepted"))] = e
    BY <1>1, AppendedIsLatest
  <2> QED
    BY <1>1, <2>1 DEF IsAccepted, Acceptor
<1>2. CASE e.action # "accepted"
  <2>1. Positions(Append(log, e), "accepted") = Positions(log, "accepted")
    BY <1>2, OthersStayLatest
  <2>2. Positions(log, "accepted") # {} =>
           Append(log, e)[Latest(Positions(log, "accepted"))]
             = log[Latest(Positions(log, "accepted"))]
    BY <1>2, OthersStayLatest
  <2> QED
    BY <1>2, <2>1, <2>2 DEF IsAccepted, Acceptor
<1> QED
  BY <1>1, <1>2
=============================================================================
