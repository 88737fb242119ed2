------------------------- MODULE ConversationProofs -------------------------
(***************************************************************************)
(* Conversation for any number of turns, any windows and bounds, and a     *)
(* chat of any length: what the model is sent is legal, and a summary      *)
(* leaves nothing out.                                                     *)
(*                                                                         *)
(* The chat is no sequence of units: a turn is written one insert after    *)
(* the other, hidden from the others until it commits, and others post in  *)
(* between.  The invariant says of every row of a unit where the unit's    *)
(* other rows are, and that a summary that ends among them ends in a unit  *)
(* that somebody came between (RowsComeInUnits); that the one turn that    *)
(* writes has the chat's end to itself but for posts (WritesAlone); and    *)
(* what a summary that is under way would cover if it were written now     *)
(* (DraftFits).  A unit at one stretch is then in a window, in a reading   *)
(* and on one side of a cut as a whole.                                    *)
(***************************************************************************)
EXTENDS Conversation, TLAPS, SequenceTheorems, FiniteSetTheorems, WellFoundedInduction

-----------------------------------------------------------------------------
(* Numbers and places. *)

\* A set of numbers has a least one.
LEMMA LeastNat ==
    ASSUME NEW T \in SUBSET Nat, T # {}
    PROVE  \E n \in T : \A m \in T : n <= m
<1> DEFINE R == {ss \in Nat \X Nat : ss[1] < ss[2]}
<1>1. IsWellFoundedOn(R, Nat)
  BY NatLessThanWellFounded DEF OpToRel
<1>2. PICK n \in T : \A m \in T : ~(<<m, n>> \in R)
  <2> HIDE DEF R
  <2> QED BY <1>1, WFMin
<1>3. ASSUME NEW m \in T
      PROVE  n <= m
  <2>1. <<m, n>> \in Nat \X Nat /\ ~(<<m, n>>[1] < <<m, n>>[2])
    BY <1>2
  <2>2. QED
    BY <2>1
<1>4. QED
  BY <1>3

\* Induction over the numbers, as a fact about sets.
LEMMA Induction ==
    ASSUME NEW S, 0 \in S, \A n \in Nat : n \in S => n + 1 \in S
    PROVE  Nat \subseteq S
<1> SUFFICES ASSUME ~(Nat \subseteq S) PROVE FALSE
  OBVIOUS
<1>1. PICK n \in Nat \ S : \A m \in Nat \ S : n <= m
  BY LeastNat
<1>2. n # 0 /\ n - 1 \in Nat
  BY <1>1
<1>3. n - 1 \in S
  BY <1>1, <1>2
<1>4. QED
  BY <1>1, <1>2, <1>3

\* A bounded set of numbers has a greatest one.
LEMMA Greatest ==
    ASSUME NEW N \in Nat, NEW T \in SUBSET (0 .. N), T # {}
    PROVE  \E n \in T : \A m \in T : m <= n
<1> DEFINE U == {N - m : m \in T}
<1>1. U \in SUBSET Nat /\ U # {}
  <2>1. \A m \in T : N - m \in Nat
    OBVIOUS
  <2>2. QED
    BY <2>1
<1>2. PICK u \in U : \A v \in U : u <= v
  <2> HIDE DEF U
  <2> QED BY <1>1, LeastNat
<1>3. PICK n \in T : u = N - n
  OBVIOUS
<1>4. \A m \in T : m <= n
  <2>1. ASSUME NEW m \in T PROVE m <= n
    <3>1. N - n <= N - m
      BY <1>2, <1>3
    <3>2. QED
      BY <3>1
  <2>2. QED
    BY <2>1
<1>5. QED
  BY <1>4

\* The last of some places are all those behind the first of them.
LEMMA LastAreBehind ==
    ASSUME NEW N \in Nat, NEW places \in SUBSET (1 .. N), NEW n \in Nat
    PROVE  /\ LastOf(places, n) \subseteq places
           /\ \A p \in LastOf(places, n) : \A q \in places : q > p => q \in LastOf(places, n)
           /\ N <= n => LastOf(places, n) = places
<1>1. IsFiniteSet(1 .. N) /\ Cardinality(1 .. N) = N
  BY FS_Interval
<1>2. IsFiniteSet(places) /\ Cardinality(places) <= N
  BY <1>1, FS_Subset
<1>3. ASSUME NEW p \in places
      PROVE  /\ IsFiniteSet({q \in places : q > p}) /\ Cardinality({q \in places : q > p}) \in Nat
             /\ Cardinality({q \in places : q > p}) < N
  <2> DEFINE behind == {q \in places : q > p}
  <2>1. behind \in SUBSET places /\ p \notin behind
    OBVIOUS
  <2>2. IsFiniteSet(behind) /\ Cardinality(behind) <= Cardinality(places)
        /\ (Cardinality(places) = Cardinality(behind) => places = behind)
    <3> HIDE DEF behind
    <3> QED BY <1>2, <2>1, FS_Subset
  <2>3. Cardinality(behind) \in Nat /\ Cardinality(places) \in Nat
    <3> HIDE DEF behind
    <3> QED BY <1>2, <2>2, FS_CardinalityType
  <2>4. Cardinality(behind) # Cardinality(places)
    BY <2>1, <2>2
  <2>5. QED
    BY <1>2, <2>2, <2>3, <2>4
<1>4. ASSUME NEW p \in places, Cardinality({q \in places : q > p}) < n, NEW q \in places, q > p
      PROVE  Cardinality({x \in places : x > q}) < n
  <2>1. {x \in places : x > q} \in SUBSET {x \in places : x > p}
    <3>1. \A x \in places : x > q => x > p
      BY <1>4
    <3>2. QED
      BY <3>1
  <2>2. Cardinality({x \in places : x > q}) <= Cardinality({x \in places : x > p})
    BY <1>3, <2>1, FS_Subset
  <2>3. QED
    BY <1>3, <1>4, <2>2
<1>5. \A p \in LastOf(places, n) : \A q \in places : q > p => q \in LastOf(places, n)
  BY <1>4 DEF LastOf
<1>6. ASSUME N <= n
      PROVE  \A p \in places : Cardinality({q \in places : q > p}) < n
  BY <1>3, <1>6
<1>7. QED
  BY <1>5, <1>6 DEF LastOf

\* A unit that lies at one stretch is not torn by a window on the end of a
\* chat once the results that lead the window are dropped.
LEMMA UnitsStayWhole ==
    ASSUME NEW V \in SUBSET Int, NEW A \in SUBSET V, \A p \in A : \A q \in V : q > p => q \in A,
           NEW t, NEW c \in Int, NEW n \in Nat, c .. c + n \subseteq V,
           MessageAt(t, c).kind # "result", \A q \in c + 1 .. c + n : MessageAt(t, q).kind = "result",
           NEW p \in DropLeadingResults(t, A), p \in c .. c + n
    PROVE  c .. c + n \subseteq DropLeadingResults(t, A)
<1>1. PICK q \in A : q <= p /\ MessageAt(t, q).kind # "result"
  BY DEF DropLeadingResults
<1>2. q <= c
  BY <1>1
<1>3. c \in A
  <2>1. c \in V
    OBVIOUS
  <2>2. QED
    BY <1>2, <2>1
<1>4. \A x \in c .. c + n : x \in A
  BY <1>3
<1>5. QED
  BY <1>3, <1>4 DEF DropLeadingResults

\* Places that lie side by side are counted from the first.
LEMMA BehindInRow ==
    ASSUME NEW places \in SUBSET Int, NEW c \in Int, NEW n \in Nat, c .. c + n \subseteq places
    PROVE  /\ \A i \in 0 .. n : Behind(places, c, c + i) = i
           /\ \A p \in places : n > 0 /\ Behind(places, c, p) = n => p = c + n
<1>1. ASSUME NEW i \in 0 .. n
      PROVE  Behind(places, c, c + i) = i
  <2>1. {q \in places : c < q /\ q <= c + i} = c + 1 .. c + i
    <3>1. \A q \in c + 1 .. c + i : q \in places
      OBVIOUS
    <3>2. \A q \in places : c < q /\ q <= c + i <=> q \in c + 1 .. c + i
      OBVIOUS
    <3>3. QED
      BY <3>1, <3>2
  <2>2. Cardinality(c + 1 .. c + i) = i
    BY FS_Interval
  <2>3. QED
    BY <2>1, <2>2 DEF Behind
<1>2. ASSUME NEW p \in places, n > 0, Behind(places, c, p) = n
      PROVE  p = c + n
  <2>1. CASE p \in c .. c + n
    <3>1. Behind(places, c, c + (p - c)) = p - c
      BY <1>1, <2>1
    <3>2. QED
      BY <1>2, <3>1
  <2>2. CASE p < c
    <3>1. \A q \in places : ~(c < q /\ q <= p)
      BY <2>2
    <3>2. {q \in places : c < q /\ q <= p} = {}
      BY <3>1
    <3>3. QED
      BY <1>2, <3>2, FS_EmptySet DEF Behind
  <2>3. CASE p > c + n
    <3> DEFINE behind == {q \in places : c < q /\ q <= p}
    <3>1. behind \in SUBSET (c + 1 .. p) /\ IsFiniteSet(c + 1 .. p)
      <4>1. \A q \in places : c < q /\ q <= p => q \in c + 1 .. p
        OBVIOUS
      <4>2. behind \in SUBSET (c + 1 .. p)
        BY <4>1
      <4>3. IsFiniteSet(c + 1 .. p)
        BY FS_Interval
      <4>4. QED
        BY <4>2, <4>3
    <3>2. IsFiniteSet(behind)
      <4> HIDE DEF behind
      <4> QED BY <3>1, FS_Subset
    <3>3. c + 1 .. c + n \in SUBSET behind /\ p \in behind /\ p \notin c + 1 .. c + n
      BY <2>3
    <3>4. Cardinality(c + 1 .. c + n) = n
      BY FS_Interval
    <3>5. Cardinality(behind) # n
      <4> HIDE DEF behind
      <4> QED BY <3>2, <3>3, <3>4, FS_Subset
    <3>6. QED
      BY <1>2, <3>5 DEF Behind
  <2>4. QED
    BY <2>1, <2>2, <2>3
<1>3. QED
  BY <1>1, <1>2

-----------------------------------------------------------------------------
(* The inductive invariant. *)

\* A unit's rows, wherever they lie: the call and its results in order, and
\* between them only what others have posted.
UnitRows(n, r) ==
    /\ log[r[0]].kind = "call" /\ log[r[0]].n = n /\ log[r[0]].unit # NoUnit
    /\ \A k \in 1 .. n : log[r[k]] = ResultOf(log[r[0]], k)
    /\ \A k, l \in 0 .. n : k < l => r[k] < r[l]
    /\ \A i \in Ids : r[0] < i /\ i < r[n] =>
           (\E k \in 0 .. n : i = r[k]) \/ (i \in Visible /\ log[i].unit = NoUnit)
Interrupted(n, r) == \E i \in Visible : r[0] < i /\ i < r[n] /\ log[i].unit = NoUnit

\* Where a summary ends, or would end if it were written.
LastOfDraft(t, b) == b \in turn[t].draft.of /\ \A i \in turn[t].draft.of : i <= b
IsBoundary(b) ==
    \/ b = memory.boundary
    \/ \E t \in Turn : turn[t].at = "summarising" /\ LastOfDraft(t, b)

InUnit(m) == m.kind = "result" \/ m.unit # NoUnit
RowsComeInUnits ==
    \A i \in Visible : InUnit(log[i]) =>
        \E n \in 0 .. MaxCalls : \E r \in [0 .. n -> Visible] :
            /\ UnitRows(n, r) /\ \E k \in 0 .. n : r[k] = i
            /\ \A b \in Ids : IsBoundary(b) /\ r[0] <= b /\ b < r[n] => Interrupted(n, r)

UnitAt(s, c, n) ==
    /\ c + n <= Len(s)
    /\ s[c].kind = "call" /\ s[c].n = n
    /\ \A i \in 1 .. n : s[c + i] = ResultOf(s[c], i)

InUnits(s) ==
    \A k \in 1 .. Len(s) : InUnit(s[k]) =>
        \E c \in 1 .. k : \E n \in 0 .. MaxCalls :
            k <= c + n /\ UnitAt(s, c, n) /\ s[c].unit # NoUnit
PendingInUnits == \A t \in Turn : InUnits(turn[t].pending)

Wrote(t, i) == \E j \in DOMAIN turn[t].wrote : turn[t].wrote[j] = i
WritesAlone(t) ==
    turn[t].wrote # <<>> =>
        /\ turn[t].at = "saving" /\ lease = t /\ Len(turn[t].wrote) < Len(turn[t].pending)
        /\ \A j \in DOMAIN turn[t].wrote :
               turn[t].wrote[j] \in hidden /\ log[turn[t].wrote[j]] = turn[t].pending[j]
        /\ \A j, l \in DOMAIN turn[t].wrote : j < l => turn[t].wrote[j] < turn[t].wrote[l]
        /\ \A i \in Ids : i > turn[t].wrote[1] => Wrote(t, i) \/ (i \in Visible /\ log[i].unit = NoUnit)

LoopsFit(t) ==
    /\ turn[t].at \in {"unused", "looping", "summarising", "asking"} => turn[t].failed < MaxFailed
    /\ turn[t].at \in {"summarising", "asking"} => turn[t].steps > 0

Small == Len(log) <= Recent + Candidates

MemoryFits ==
    /\ memory.boundary \in {0} \cup Visible
    /\ \A i \in hidden : i <= memory.boundary => i \in memory.unseen
    /\ \A i \in memory.unseen : i <= memory.boundary
    /\ Small => NothingSkipped

DraftFits(t) ==
    turn[t].at = "summarising" =>
        /\ turn[t].draft.of \subseteq Visible /\ Whole(t, turn[t].draft.of)
        /\ turn[t].draft.was.boundary <= memory.boundary
        /\ \E b \in turn[t].draft.of :
             /\ LastOfDraft(t, b) /\ b > turn[t].draft.was.boundary
             /\ \A i \in hidden : i <= b => i \in turn[t].draft.was.unseen
             /\ Small /\ turn[t].draft.was.boundary = memory.boundary =>
                    turn[t].draft.was.covers \cup turn[t].draft.of =
                        {i \in Visible : i <= b} \ turn[t].draft.was.unseen

ConversationInv ==
    /\ ConversationTypeOK
    /\ RowsComeInUnits /\ PendingInUnits /\ MemoryFits
    /\ \A t \in Turn : WritesAlone(t) /\ LoopsFit(t) /\ DraftFits(t)

-----------------------------------------------------------------------------
(* Windows, readings and cuts keep units whole. *)

\* The rows are numbered from one, and what the constants are.
LEMMA ChatFacts ==
    ConversationTypeOK =>
        /\ Len(log) \in Nat /\ Ids = 1 .. Len(log) /\ Visible \subseteq Ids
        /\ \A i \in Ids : log[i] \in Entry
        /\ Recent \in Nat /\ Fallback \in Nat /\ Candidates \in Nat /\ MaxCalls \in Nat
        /\ Recent > 0 /\ Fallback > 0 /\ Candidates > 0
        /\ memory.boundary \in Nat
BY ConversationAssumption DEF ConversationTypeOK, Ids, Visible, Memory

\* A result names its call and its place.
LEMMA ResultFacts ==
    ASSUME NEW m \in Entry, NEW i \in 0 .. MaxCalls
    PROVE  /\ ResultOf(m, i) \in Entry /\ ResultOf(m, i).kind = "result"
           /\ ResultOf(m, i).unit = m.unit /\ ResultOf(m, i).n = i
BY DEF ResultOf, Entry

\* Rows that nobody came between lie side by side.
LEMMA UninterruptedRows ==
    ASSUME ConversationTypeOK, NEW n \in 0 .. MaxCalls, NEW r \in [0 .. n -> Visible],
           UnitRows(n, r), ~Interrupted(n, r)
    PROVE  \A k \in 0 .. n : r[k] = r[0] + k
<1> DEFINE S == {k \in Nat : k <= n => r[k] = r[0] + k}
<1>0. /\ n \in Nat /\ \A k \in 0 .. n : r[k] \in Visible /\ r[k] \in Int
      /\ Ids = 1 .. Len(log) /\ Len(log) \in Nat
  BY ChatFacts DEF Visible
<1>1. 0 \in S
  BY <1>0
<1>2. ASSUME NEW k \in Nat, k \in S
      PROVE  k + 1 \in S
  <2>1. SUFFICES ASSUME k + 1 <= n PROVE r[k + 1] = r[0] + k + 1
    BY <1>0
  <2>2. k \in 0 .. n /\ k + 1 \in 0 .. n /\ r[k] = r[0] + k /\ r[k] < r[k + 1] /\ r[k + 1] <= r[n]
    BY <1>0, <1>2, <2>1 DEF UnitRows
  <2>3. ASSUME r[k] + 1 < r[k + 1]
        PROVE  FALSE
    <3>1. r[k] + 1 \in Ids /\ r[0] < r[k] + 1 /\ r[k] + 1 < r[n]
      BY <1>0, <2>2, <2>3 DEF Visible
    <3>2. PICK m \in 0 .. n : r[k] + 1 = r[m]
      BY <3>1 DEF UnitRows, Interrupted
    <3>3. m > k
      <4>1. CASE m = k
        BY <1>0, <2>2, <3>2, <4>1
      <4>2. CASE m < k
        BY <1>0, <2>2, <3>2, <4>2 DEF UnitRows
      <4>3. QED
        BY <2>2, <4>1, <4>2
    <3>4. m = k + 1 \/ r[k + 1] < r[m]
      BY <2>2, <3>3 DEF UnitRows
    <3>5. QED
      BY <1>0, <2>2, <2>3, <3>2, <3>4
  <2>4. QED
    BY <1>0, <2>2, <2>3
<1>3. Nat \subseteq S
  <2> HIDE DEF S
  <2> QED BY <1>1, <1>2, Induction
<1>4. QED
  BY <1>0, <1>3

\* A visible row of a unit nobody came between.
LEMMA UnitOfRow ==
    ASSUME ConversationInv, NEW i \in Visible, log[i].unit # NoUnit, ~Split(log[i].unit)
    PROVE  \E n \in 0 .. MaxCalls : \E c \in Ids :
               /\ c .. c + n \subseteq Visible /\ i \in c .. c + n
               /\ UnitAt(log, c, n) /\ log[c].unit = log[i].unit
               /\ \A b \in Ids : IsBoundary(b) => ~(c <= b /\ b < c + n)
<1>0. ConversationTypeOK
  BY DEF ConversationInv
<1>a. RowsComeInUnits
  BY DEF ConversationInv
<1>b. PICK n \in 0 .. MaxCalls : \E r \in [0 .. n -> Visible] :
            /\ UnitRows(n, r) /\ \E k \in 0 .. n : r[k] = i
            /\ \A b \in Ids : IsBoundary(b) /\ r[0] <= b /\ b < r[n] => Interrupted(n, r)
  BY <1>a DEF RowsComeInUnits, InUnit
<1>1. PICK r \in [0 .. n -> Visible] :
            /\ UnitRows(n, r) /\ \E k \in 0 .. n : r[k] = i
            /\ \A b \in Ids : IsBoundary(b) /\ r[0] <= b /\ b < r[n] => Interrupted(n, r)
  BY <1>b
<1>2. /\ n \in Nat /\ \A k \in 0 .. n : r[k] \in Visible /\ r[k] \in Ids
      /\ Ids = 1 .. Len(log) /\ Len(log) \in Nat /\ \A x \in Ids : log[x] \in Entry
      /\ \A k \in 1 .. n : k \in 0 .. MaxCalls
  BY <1>0, <1>1, ChatFacts DEF Visible
<1>3. \A k \in 0 .. n : log[r[k]].unit = log[r[0]].unit
  <2>1. \A k \in 1 .. n : ResultOf(log[r[0]], k).unit = log[r[0]].unit
    <3>1. log[r[0]] \in Entry
      BY <1>2
    <3>2. QED
      BY <1>2, <3>1, ResultFacts
  <2>2. QED
    BY <1>1, <1>2, <2>1 DEF UnitRows
<1>4. log[i].unit = log[r[0]].unit
  BY <1>1, <1>3
<1>5. ~Interrupted(n, r)
  <2> SUFFICES ASSUME NEW x \in Visible, r[0] < x, x < r[n], log[x].unit = NoUnit
               PROVE  Split(log[i].unit)
    BY DEF Interrupted
  <2>1. r[0] \in Visible /\ r[n] \in Visible
    BY <1>2
  <2>2. log[r[n]].unit = log[i].unit
    BY <1>2, <1>3, <1>4
  <2>3. x \in Int /\ r[0] \in Int /\ r[n] \in Int
    BY <1>2 DEF Visible
  <2>4. r[0] < r[n]
    BY <2>3
  <2>5. log[i].unit # NoUnit
    OBVIOUS
  <2>6. QED
    BY <1>4, <2>1, <2>2, <2>4, <2>5 DEF Split
<1>6. \A k \in 0 .. n : r[k] = r[0] + k
  BY <1>0, <1>1, <1>5, UninterruptedRows
<1> DEFINE c == r[0]
<1>7. c \in Ids /\ c .. c + n \subseteq Visible /\ i \in c .. c + n
  <2>1. ASSUME NEW x \in c .. c + n
        PROVE  x \in Visible
    <3>1. x - c \in 0 .. n /\ c + (x - c) = x
      BY <1>2
    <3>2. QED
      BY <1>2, <1>6, <3>1
  <2>2. QED
    BY <1>1, <1>2, <1>6, <2>1
<1>8. UnitAt(log, c, n)
  <2>1. \A k \in 1 .. n : log[c + k] = ResultOf(log[c], k)
    BY <1>1, <1>2, <1>6, SMTT(30) DEF UnitRows
  <2>2. c + n <= Len(log)
    <3>1. c + n \in c .. c + n
      BY <1>2, <1>7
    <3>2. c + n \in Ids
      BY <1>7, <3>1 DEF Visible
    <3>3. QED
      BY <1>2, <3>2
  <2>3. QED
    BY <1>1, <2>1, <2>2 DEF UnitAt, UnitRows
<1>9. r[n] = c + n
  BY <1>2, <1>6
<1>10. QED
  BY <1>1, <1>4, <1>5, <1>7, <1>8, <1>9

ChatUnit(t, c, n) ==
    /\ MessageAt(t, c) \in Entry /\ MessageAt(t, c).kind = "call" /\ MessageAt(t, c).n = n
    /\ \A i \in 1 .. n : MessageAt(t, c + i) = ResultOf(MessageAt(t, c), i)

\* Places among which every unit nobody came between lies at one stretch are whole.
LEMMA UnitsMakeWhole ==
    ASSUME ConversationTypeOK, NEW t, NEW places \in SUBSET Int,
           \A p \in places : MessageAt(t, p).unit # NoUnit /\ ~Split(MessageAt(t, p).unit) =>
               \E c \in Int : \E n \in 0 .. MaxCalls :
                   /\ c .. c + n \subseteq places /\ p \in c .. c + n
                   /\ ChatUnit(t, c, n) /\ MessageAt(t, c).unit = MessageAt(t, p).unit
    PROVE  Whole(t, places)
<1> SUFFICES ASSUME NEW p \in places, MessageAt(t, p).unit # NoUnit, ~Split(MessageAt(t, p).unit)
             PROVE  \E c \in places :
                      /\ c <= p /\ MessageAt(t, c).kind = "call" /\ MessageAt(t, c).unit = MessageAt(t, p).unit
                      /\ Behind(places, c, p) = IF MessageAt(t, p).kind = "call" THEN 0 ELSE MessageAt(t, p).n
                      /\ \A n \in 1 .. MessageAt(t, c).n : \E q \in places :
                             Behind(places, c, q) = n /\ MessageAt(t, q) = ResultOf(MessageAt(t, c), n)
  BY DEF Whole
<1>1. PICK c \in Int, n \in 0 .. MaxCalls :
               /\ c .. c + n \subseteq places /\ p \in c .. c + n
               /\ ChatUnit(t, c, n) /\ MessageAt(t, c).unit = MessageAt(t, p).unit
  OBVIOUS
<1>2. /\ n \in Nat /\ MaxCalls \in Nat /\ c \in places
      /\ \A i \in 0 .. n : c + i \in places /\ Behind(places, c, c + i) = i
  <2>1. n \in Nat /\ MaxCalls \in Nat
    BY ChatFacts
  <2>2. \A i \in 0 .. n : c + i \in c .. c + n
    BY <2>1
  <2>3. c \in c .. c + n
    BY <2>1
  <2>4. \A i \in 0 .. n : Behind(places, c, c + i) = i
    BY <1>1, <2>1, BehindInRow
  <2>5. QED
    BY <1>1, <2>1, <2>2, <2>3, <2>4
<1>3. PICK i \in 0 .. n : p = c + i
  BY <1>1, <1>2
<1>4. Behind(places, c, p) = IF MessageAt(t, p).kind = "call" THEN 0 ELSE MessageAt(t, p).n
  <2>1. Behind(places, c, p) = i
    BY <1>2, <1>3
  <2>2. CASE i = 0
    BY <1>1, <1>3, <2>1, <2>2 DEF ChatUnit
  <2>3. CASE i # 0
    <3>1. MessageAt(t, p) = ResultOf(MessageAt(t, c), i) /\ i \in 0 .. MaxCalls
      BY <1>1, <1>2, <1>3, <2>3 DEF ChatUnit
    <3>2. MessageAt(t, p).kind = "result" /\ MessageAt(t, p).n = i
      <4>1. MessageAt(t, c) \in Entry
        BY <1>1 DEF ChatUnit
      <4>2. QED
        BY <3>1, <4>1, ResultFacts, SMTT(30)
    <3>3. QED
      BY <2>1, <2>3, <3>2
  <2>4. QED
    BY <2>2, <2>3
<1>5. \A k \in 1 .. n : Behind(places, c, c + k) = k /\ c + k \in places
                        /\ MessageAt(t, c + k) = ResultOf(MessageAt(t, c), k)
  BY <1>1, <1>2 DEF ChatUnit
<1>6. MessageAt(t, c).n = n /\ MessageAt(t, c).kind = "call" /\ c <= p
  BY <1>1, <1>2, <1>3 DEF ChatUnit
<1>7. QED
  BY <1>1, <1>2, <1>4, <1>5, <1>6

\* The places behind the rows are those of the messages in memory.
LEMMA ChatPlaces ==
    ASSUME ConversationTypeOK, NEW t \in Turn
    PROVE  /\ turn[t].pending \in Seq(Entry) /\ Len(turn[t].pending) \in Nat
           /\ Pending(t) = Len(log) + 1 .. Len(log) + Len(turn[t].pending)
           /\ \A i \in Ids : MessageAt(t, i) = log[i]
           /\ \A k \in 1 .. Len(turn[t].pending) :
                  MessageAt(t, Len(log) + k) = turn[t].pending[k] /\ turn[t].pending[k] \in Entry
<1>1. turn[t].pending \in Seq(Entry)
  BY DEF ConversationTypeOK
<1>2. /\ Len(turn[t].pending) \in Nat /\ DOMAIN turn[t].pending = 1 .. Len(turn[t].pending)
      /\ \A k \in 1 .. Len(turn[t].pending) : turn[t].pending[k] \in Entry
  BY <1>1
<1>3. Len(log) \in Nat /\ Ids = 1 .. Len(log)
  BY ChatFacts
<1>4. Pending(t) = Len(log) + 1 .. Len(log) + Len(turn[t].pending)
  <2>1. \A k \in 1 .. Len(turn[t].pending) : Len(log) + k \in Len(log) + 1 .. Len(log) + Len(turn[t].pending)
    BY <1>2, <1>3
  <2>2. ASSUME NEW p \in Len(log) + 1 .. Len(log) + Len(turn[t].pending)
        PROVE  p - Len(log) \in 1 .. Len(turn[t].pending) /\ p = Len(log) + (p - Len(log))
    BY <1>2, <1>3
  <2>3. QED
    BY <1>2, <2>1, <2>2 DEF Pending
<1>5. ASSUME NEW k \in 1 .. Len(turn[t].pending)
      PROVE  MessageAt(t, Len(log) + k) = turn[t].pending[k]
  <2>1. Len(log) + k \notin Ids /\ (Len(log) + k) - Len(log) = k
    BY <1>2, <1>3
  <2>2. QED
    BY <2>1 DEF MessageAt
<1>6. QED
  BY <1>1, <1>2, <1>4, <1>5 DEF MessageAt

\* Every message of a unit nobody came between lies among all of it.
LEMMA ChatUnits ==
    ASSUME ConversationInv, NEW t \in Turn, NEW p \in Visible \cup Pending(t),
           MessageAt(t, p).unit # NoUnit, ~Split(MessageAt(t, p).unit)
    PROVE  \E c \in Int : \E n \in 0 .. MaxCalls :
               /\ c .. c + n \subseteq Visible \cup Pending(t) /\ p \in c .. c + n
               /\ ChatUnit(t, c, n) /\ MessageAt(t, c).unit = MessageAt(t, p).unit
<1>0. ConversationTypeOK /\ PendingInUnits /\ Len(log) \in Nat /\ MaxCalls \in Nat
      /\ Ids = 1 .. Len(log) /\ Visible \subseteq Ids /\ \A x \in Ids : log[x] \in Entry
  BY ChatFacts DEF ConversationInv
<1>1. CASE p \in Visible
  <2>1. MessageAt(t, p) = log[p]
    BY <1>0, <1>1, ChatPlaces
  <2>2. PICK n \in 0 .. MaxCalls, c \in Ids :
               /\ c .. c + n \subseteq Visible /\ p \in c .. c + n
               /\ UnitAt(log, c, n) /\ log[c].unit = log[p].unit
    BY <1>1, <2>1, UnitOfRow
  <2>3. \A i \in 0 .. n : MessageAt(t, c + i) = log[c + i]
    <3>1. \A i \in 0 .. n : c + i \in Ids
      BY <1>0, <2>2
    <3>2. QED
      BY <1>0, <3>1, ChatPlaces
  <2>4. MessageAt(t, c) = log[c]
    BY <1>0, <2>2, ChatPlaces
  <2>5. ChatUnit(t, c, n)
    <3>1. \A i \in 1 .. n : i \in 0 .. n
      OBVIOUS
    <3>2. \A i \in 1 .. n : MessageAt(t, c + i) = ResultOf(log[c], i)
      BY <2>2, <2>3, <3>1 DEF UnitAt
    <3>3. QED
      BY <1>0, <2>2, <2>4, <3>2 DEF ChatUnit, UnitAt
  <2>6. QED
    BY <1>0, <2>1, <2>2, <2>4, <2>5
<1>2. CASE p \in Pending(t)
  <2> DEFINE s == turn[t].pending
  <2>1. PICK k \in 1 .. Len(s) : p = Len(log) + k
    BY <1>0, <1>2, ChatPlaces DEF Pending
  <2>2. DOMAIN s = 1 .. Len(s) /\ Len(s) \in Nat /\ MessageAt(t, p) = s[k]
        /\ Pending(t) = Len(log) + 1 .. Len(log) + Len(s)
    BY <1>0, <2>1, ChatPlaces
  <2>3. PICK c \in 1 .. k, n \in 0 .. MaxCalls : k <= c + n /\ UnitAt(s, c, n) /\ s[c].unit # NoUnit
    BY <1>0, <2>1, <2>2 DEF PendingInUnits, InUnits, InUnit
  <2>4. /\ c \in 1 .. Len(s) /\ s[c] \in Entry /\ MessageAt(t, Len(log) + c) = s[c]
        /\ \A i \in 1 .. n : c + i \in 1 .. Len(s) /\ MessageAt(t, Len(log) + (c + i)) = s[c + i]
    <3>0. n \in Nat /\ c \in Nat /\ c >= 1 /\ c <= k /\ k <= Len(s) /\ Len(s) \in Nat
      BY <1>0, <2>1, <2>2, <2>3
    <3>1. c \in 1 .. Len(s) /\ c + n <= Len(s)
      BY <2>3, <3>0 DEF UnitAt
    <3>2. \A i \in 1 .. n : c + i \in 1 .. Len(s)
      BY <3>0, <3>1
    <3>3. \A j \in 1 .. Len(s) : MessageAt(t, Len(log) + j) = s[j] /\ s[j] \in Entry
      BY <1>0, ChatPlaces
    <3>4. QED
      BY <3>1, <3>2, <3>3
  <2>5. \A i \in 1 .. n : MessageAt(t, (Len(log) + c) + i) = ResultOf(s[c], i) /\ i \in 0 .. MaxCalls
    <3>1. \A i \in 1 .. n : (Len(log) + c) + i = Len(log) + (c + i) /\ i \in 0 .. MaxCalls
      BY <1>0, <2>3
    <3>2. \A i \in 1 .. n : s[c + i] = ResultOf(s[c], i)
      BY <2>3 DEF UnitAt
    <3>3. \A i \in 1 .. n : MessageAt(t, Len(log) + (c + i)) = s[c + i]
      BY <2>4
    <3> HIDE DEF s
    <3>4. QED
      BY <3>1, <3>2, <3>3
  <2>6. ChatUnit(t, Len(log) + c, n)
    BY <2>3, <2>4, <2>5 DEF ChatUnit, UnitAt
  <2>7. s[k].unit = s[c].unit
    <3>1. CASE k = c
      BY <3>1
    <3>2. CASE k # c
      <4>1. k - c \in 1 .. n /\ c + (k - c) = k
        BY <1>0, <2>1, <2>3, <3>2
      <4>2. s[k] = ResultOf(s[c], k - c) /\ k - c \in 0 .. MaxCalls
        BY <2>3, <2>5, <4>1 DEF UnitAt
      <4>3. QED
        BY <2>4, <4>2, ResultFacts
    <3>3. QED
      BY <3>1, <3>2
  <2>8. (Len(log) + c) .. (Len(log) + c) + n \subseteq Pending(t) /\ p \in (Len(log) + c) .. (Len(log) + c) + n
    BY <1>0, <2>1, <2>2, <2>3, SMTT(30) DEF UnitAt
  <2>9. QED
    <3>1. Len(log) + c \in Int /\ MessageAt(t, Len(log) + c).unit = MessageAt(t, p).unit
      BY <1>0, <2>2, <2>3, <2>4, <2>7
    <3>2. (Len(log) + c) .. (Len(log) + c) + n \subseteq Visible \cup Pending(t)
      BY <2>8
    <3>3. QED
      BY <2>6, <2>8, <3>1, <3>2
<1>3. QED
  BY <1>1, <1>2

\* A window on the end of a chat, without the results that lead it, is whole.
LEMMA WindowsAreWhole ==
    ASSUME ConversationInv, NEW t \in Turn, NEW A \in SUBSET (Visible \cup Pending(t)),
           \A p \in A : \A q \in Visible \cup Pending(t) : q > p => q \in A
    PROVE  /\ DropLeadingResults(t, A) \subseteq A
           /\ \A p \in DropLeadingResults(t, A) :
               MessageAt(t, p).unit # NoUnit /\ ~Split(MessageAt(t, p).unit) =>
               \E c \in Int : \E n \in 0 .. MaxCalls :
                   /\ c .. c + n \subseteq DropLeadingResults(t, A) /\ p \in c .. c + n
                   /\ ChatUnit(t, c, n) /\ MessageAt(t, c).unit = MessageAt(t, p).unit
<1>0. /\ ConversationTypeOK /\ Len(log) \in Nat /\ MaxCalls \in Nat
      /\ Visible \cup Pending(t) \in SUBSET Int
  BY ChatFacts, ChatPlaces DEF ConversationInv
<1>1. ASSUME NEW p \in DropLeadingResults(t, A), MessageAt(t, p).unit # NoUnit, ~Split(MessageAt(t, p).unit)
      PROVE  \E c \in Int : \E n \in 0 .. MaxCalls :
                   /\ c .. c + n \subseteq DropLeadingResults(t, A) /\ p \in c .. c + n
                   /\ ChatUnit(t, c, n) /\ MessageAt(t, c).unit = MessageAt(t, p).unit
  <2>1. p \in Visible \cup Pending(t)
    BY DEF DropLeadingResults
  <2>2. PICK c \in Int, n \in 0 .. MaxCalls :
               /\ c .. c + n \subseteq Visible \cup Pending(t) /\ p \in c .. c + n
               /\ ChatUnit(t, c, n) /\ MessageAt(t, c).unit = MessageAt(t, p).unit
    BY <1>1, <2>1, ChatUnits
  <2>3. n \in Nat /\ MessageAt(t, c).kind # "result"
    BY <1>0, <2>2 DEF ChatUnit
  <2>4. ASSUME NEW q \in c + 1 .. c + n
        PROVE  MessageAt(t, q).kind = "result"
    <3>1. q - c \in 1 .. n /\ q - c \in 0 .. MaxCalls /\ c + (q - c) = q
      BY <1>0, <2>3
    <3>2. MessageAt(t, q) = ResultOf(MessageAt(t, c), q - c)
      BY <2>2, <3>1 DEF ChatUnit
    <3>3. QED
      BY <2>2, <3>1, <3>2, ResultFacts DEF ChatUnit
  <2>5. c .. c + n \subseteq DropLeadingResults(t, A)
    BY <1>0, <1>1, <2>2, <2>3, <2>4, UnitsStayWhole
  <2>6. QED
    BY <2>2, <2>5
<1>2. QED
  BY <1>1 DEF DropLeadingResults

\* What a turn is shown is whole.
LEMMA HistoriesAreWhole ==
    ASSUME ConversationInv, NEW t \in Turn
    PROVE  Whole(t, History(t))
<1> DEFINE window == IF memory.boundary = 0 THEN Fallback ELSE Recent
           rows == LastOf(RowsAfter(memory.boundary), window)
           N == Len(log) + Len(turn[t].pending)
           A == LastOf(rows \cup Pending(t), window)
<1>0. /\ ConversationTypeOK /\ Len(log) \in Nat /\ MaxCalls \in Nat /\ window \in Nat
      /\ Ids = 1 .. Len(log) /\ Visible \subseteq Ids /\ N \in Nat /\ memory.boundary \in Nat
      /\ Pending(t) = Len(log) + 1 .. N
  BY ChatFacts, ChatPlaces DEF ConversationInv
<1>1. RowsAfter(memory.boundary) \in SUBSET (1 .. Len(log)) /\ RowsAfter(memory.boundary) \subseteq Visible
  BY <1>0 DEF RowsAfter
<1>2. /\ rows \subseteq RowsAfter(memory.boundary)
      /\ \A p \in rows : \A q \in RowsAfter(memory.boundary) : q > p => q \in rows
  <2> HIDE DEF window
  <2> QED BY <1>0, <1>1, LastAreBehind
<1>3. rows \cup Pending(t) \in SUBSET (1 .. N)
  BY <1>0, <1>1, <1>2
<1>4. A \subseteq rows \cup Pending(t) /\ \A p \in A : \A q \in rows \cup Pending(t) : q > p => q \in A
  <2> HIDE DEF window, rows, N
  <2> QED BY <1>0, <1>3, LastAreBehind
<1>5. ASSUME NEW p \in A, NEW q \in Visible \cup Pending(t), q > p
      PROVE  q \in A
  <2> HIDE DEF window, rows, A
  <2>1. CASE q \in Pending(t)
    BY <1>4, <1>5, <2>1
  <2>2. CASE q \in Visible
    <3>1. p \in rows /\ p \in Int /\ p > memory.boundary
      BY <1>0, <1>1, <1>2, <1>4, <1>5, <2>2 DEF RowsAfter
    <3>2. q \in RowsAfter(memory.boundary)
      BY <1>0, <1>5, <2>2, <3>1 DEF RowsAfter
    <3>3. QED
      BY <1>2, <1>4, <1>5, <3>1, <3>2
  <2>3. QED
    BY <2>1, <2>2
<1>6. A \in SUBSET (Visible \cup Pending(t))
  BY <1>1, <1>2, <1>4
<1>7. History(t) = DropLeadingResults(t, A)
  BY DEF History
<1>8. History(t) \in SUBSET Int
  <2>1. DropLeadingResults(t, A) \subseteq A
    BY DEF DropLeadingResults
  <2>2. 1 .. N \subseteq Int
    BY <1>0
  <2> HIDE DEF A, N, rows
  <2>3. QED
    BY <1>3, <1>4, <1>7, <2>1, <2>2
<1> HIDE DEF A
<1>9. \A p \in History(t) :
               MessageAt(t, p).unit # NoUnit /\ ~Split(MessageAt(t, p).unit) =>
               \E c \in Int : \E n \in 0 .. MaxCalls :
                   /\ c .. c + n \subseteq History(t) /\ p \in c .. c + n
                   /\ ChatUnit(t, c, n) /\ MessageAt(t, c).unit = MessageAt(t, p).unit
  BY <1>5, <1>6, <1>7, WindowsAreWhole
<1>10. QED
  BY <1>0, <1>8, <1>9, UnitsMakeWhole

\* What a reading returns, and what of it a summary would stand for.
RowsRead(t) == DropLeadingResults(t, LastOf(RowsAfter(0), Recent + Candidates))
KeptRaw(t) == IF Len(turn[t].pending) < Recent THEN Recent - Len(turn[t].pending) ELSE 0
ToSummarise(t) == {i \in SafeCut(t, RowsRead(t), KeptRaw(t)) : i > memory.boundary}

\* A reading does not tear a unit either, and of a small chat it returns all rows.
LEMMA ReadingFacts ==
    ASSUME ConversationTypeOK, NEW t \in Turn
    PROVE  /\ RowsRead(t) \subseteq Visible /\ ToSummarise(t) \subseteq RowsRead(t)
           /\ \A p \in RowsRead(t), c \in Int, n \in 0 .. MaxCalls :
                  c .. c + n \subseteq Visible /\ UnitAt(log, c, n) /\ p \in c .. c + n
                      => c .. c + n \subseteq RowsRead(t)
           /\ Small => LastOf(RowsAfter(0), Recent + Candidates) = Visible
<1> DEFINE A == LastOf(RowsAfter(0), Recent + Candidates)
<1>0. /\ Len(log) \in Nat /\ MaxCalls \in Nat /\ Recent + Candidates \in Nat
      /\ Ids = 1 .. Len(log) /\ Visible \subseteq Ids /\ \A x \in Ids : log[x] \in Entry /\ MessageAt(t, x) = log[x]
  BY ChatFacts, ChatPlaces
<1>1. RowsAfter(0) = Visible /\ Visible \in SUBSET (1 .. Len(log))
  <2>1. Visible \in SUBSET (1 .. Len(log))
    BY <1>0
  <2>2. \A i \in 1 .. Len(log) : i > 0
    BY <1>0
  <2>3. QED
    BY <2>1, <2>2 DEF RowsAfter
<1>2. /\ A \in SUBSET Visible /\ \A p \in A : \A q \in Visible : q > p => q \in A
      /\ Len(log) <= Recent + Candidates => A = Visible
  <2>1. PICK m \in Nat : m = Recent + Candidates
    BY <1>0
  <2>2. A = LastOf(Visible, m)
    BY <1>1, <2>1
  <2>3. /\ LastOf(Visible, m) \subseteq Visible
        /\ \A p \in LastOf(Visible, m) : \A q \in Visible : q > p => q \in LastOf(Visible, m)
        /\ Len(log) <= m => LastOf(Visible, m) = Visible
    BY <1>0, <1>1, LastAreBehind
  <2> HIDE DEF A
  <2>4. QED
    BY <2>1, <2>2, <2>3
<1>3. RowsRead(t) = DropLeadingResults(t, A)
  BY DEF RowsRead
<1> HIDE DEF A
<1>4. RowsRead(t) \subseteq Visible /\ ToSummarise(t) \subseteq RowsRead(t)
  BY <1>2, <1>3 DEF DropLeadingResults, ToSummarise, SafeCut
<1>5. ASSUME NEW p \in RowsRead(t), NEW c \in Int, NEW n \in 0 .. MaxCalls,
             c .. c + n \subseteq Visible, UnitAt(log, c, n), p \in c .. c + n
      PROVE  c .. c + n \subseteq RowsRead(t)
  <2>1. n \in Nat /\ c \in c .. c + n /\ c \in Ids
    BY <1>0, <1>5
  <2>2. MessageAt(t, c).kind # "result"
    BY <1>0, <1>5, <2>1 DEF UnitAt
  <2>3. ASSUME NEW q \in c + 1 .. c + n
        PROVE  MessageAt(t, q).kind = "result"
    <3>1. q - c \in 1 .. n /\ q - c \in 0 .. MaxCalls /\ c + (q - c) = q /\ q \in c .. c + n
      BY <1>0, <2>1
    <3>2. q \in Ids /\ log[q] = ResultOf(log[c], q - c)
      BY <1>0, <1>5, <3>1 DEF UnitAt
    <3>3. QED
      BY <1>0, <2>1, <3>1, <3>2, ResultFacts
  <2>4. Visible \in SUBSET Int /\ p \in DropLeadingResults(t, A)
    <3>1. 1 .. Len(log) \subseteq Int
      BY <1>0
    <3>2. QED
      BY <1>1, <1>3, <1>5, <3>1
  <2>5. c .. c + n \subseteq DropLeadingResults(t, A)
    BY <1>2, <1>5, <2>1, <2>2, <2>3, <2>4, UnitsStayWhole
  <2>6. QED
    BY <1>3, <2>5
<1>6. QED
  BY <1>2, <1>4, <1>5 DEF Small, A

\* Its end does not cut a unit that lies at one stretch.
LEMMA CutsBetweenUnits ==
    ASSUME ConversationTypeOK, NEW t \in Turn, NEW b \in ToSummarise(t), \A i \in ToSummarise(t) : i <= b,
           NEW c \in Int, NEW n \in 0 .. MaxCalls, c .. c + n \subseteq Visible, UnitAt(log, c, n),
           c <= b, b < c + n
    PROVE  FALSE
<1>0. /\ Len(log) \in Nat /\ MaxCalls \in Nat /\ n \in Nat /\ memory.boundary \in Nat
      /\ Ids = 1 .. Len(log) /\ Visible \subseteq Ids /\ \A x \in Ids : MessageAt(t, x) = log[x]
  BY ChatFacts, ChatPlaces
<1>1. b \in RowsRead(t) /\ RowsRead(t) \subseteq Visible
  BY ReadingFacts
<1>a. RowsRead(t) \in SUBSET Int
  <2>1. 1 .. Len(log) \subseteq Int
    BY <1>0
  <2>2. QED
    BY <1>0, <1>1, <2>1
<1>2. b \in Int /\ b \in c .. c + n
  <2>1. b \in Int
    BY <1>1, <1>a
  <2>2. QED
    BY <1>0, <2>1
<1>3. c .. c + n \subseteq RowsRead(t)
  BY <1>1, <1>2, ReadingFacts
<1>4. PICK k \in RowsRead(t) :
        /\ b <= k /\ Cardinality({j \in RowsRead(t) : j > k}) >= KeptRaw(t)
        /\ \A d \in RowsRead(t) : d <= k /\ MessageAt(t, d).kind = "call" => Answered(t, RowsRead(t), d, k)
  BY DEF ToSummarise, SafeCut
<1>5. c \in RowsRead(t) /\ c + n \in RowsRead(t) /\ n \in 1 .. n /\ k \in Int
  BY <1>0, <1>1, <1>2, <1>3
<1>6. MessageAt(t, c) = log[c] /\ log[c].kind = "call" /\ log[c].n = n /\ c <= k
  BY <1>0, <1>1, <1>2, <1>4, <1>5 DEF UnitAt
<1>7. PICK p \in RowsRead(t) : p <= k /\ Behind(RowsRead(t), c, p) = n
  BY <1>4, <1>5, <1>6 DEF Answered
<1>8. p = c + n
  <2>1. n > 0
    BY <1>0, <1>5
  <2>2. QED
    BY <1>0, <1>a, <1>3, <1>7, <2>1, BehindInRow
<1>9. c + n \in SafeCut(t, RowsRead(t), KeptRaw(t))
  BY <1>4, <1>5, <1>7, <1>8 DEF SafeCut
<1>10. c + n > memory.boundary
  BY <1>0, <1>2 DEF ToSummarise
<1>11. c + n \in ToSummarise(t)
  BY <1>9, <1>10 DEF ToSummarise
<1>12. QED
  BY <1>0, <1>2, <1>11

\* What is summarised is whole, and of a small chat nothing is skipped.
LEMMA DraftsBegin ==
    ASSUME ConversationInv, NEW t \in Turn, ToSummarise(t) # {}
    PROVE  /\ ToSummarise(t) \subseteq Visible /\ Whole(t, ToSummarise(t))
           /\ \E b \in ToSummarise(t) :
                /\ \A i \in ToSummarise(t) : i <= b
                /\ b > memory.boundary
                /\ Small => \A i \in Visible : memory.boundary < i /\ i <= b => i \in ToSummarise(t)
<1>0. /\ ConversationTypeOK /\ MemoryFits /\ RowsComeInUnits
      /\ Len(log) \in Nat /\ MaxCalls \in Nat /\ memory.boundary \in Nat
      /\ Ids = 1 .. Len(log) /\ Visible \subseteq Ids /\ \A x \in Ids : log[x] \in Entry /\ MessageAt(t, x) = log[x]
  BY ChatFacts, ChatPlaces DEF ConversationInv
<1>1. ToSummarise(t) \subseteq RowsRead(t) /\ RowsRead(t) \subseteq Visible
      /\ ToSummarise(t) \in SUBSET (0 .. Len(log)) /\ ToSummarise(t) \subseteq Int
  <2>1. ToSummarise(t) \subseteq RowsRead(t) /\ RowsRead(t) \subseteq Visible
    BY <1>0, ReadingFacts
  <2>2. 1 .. Len(log) \subseteq Int /\ 1 .. Len(log) \subseteq 0 .. Len(log)
    BY <1>0
  <2>3. QED
    BY <1>0, <2>1, <2>2
<1>2. PICK b \in ToSummarise(t) : \A i \in ToSummarise(t) : i <= b
  BY <1>0, <1>1, Greatest
<1>3. PICK k \in RowsRead(t) :
        /\ b <= k /\ Cardinality({j \in RowsRead(t) : j > k}) >= KeptRaw(t)
        /\ \A d \in RowsRead(t) : d <= k /\ MessageAt(t, d).kind = "call" => Answered(t, RowsRead(t), d, k)
  BY DEF ToSummarise, SafeCut
<1>4. b > memory.boundary /\ b \in Int /\ k \in Int
  <2>1. \A i \in ToSummarise(t) : i > memory.boundary
    BY DEF ToSummarise
  <2>2. k \in Ids
    BY <1>0, <1>1
  <2>3. QED
    BY <1>0, <1>1, <2>1, <2>2
<1>5. ASSUME NEW i \in RowsRead(t), i <= b, i > memory.boundary
      PROVE  i \in ToSummarise(t)
  <2>1. i <= k
    BY <1>0, <1>1, <1>3, <1>4, <1>5
  <2>2. QED
    BY <1>3, <1>5, <2>1 DEF ToSummarise, SafeCut
<1>6. ASSUME NEW p \in ToSummarise(t), MessageAt(t, p).unit # NoUnit, ~Split(MessageAt(t, p).unit)
      PROVE  \E c \in Int : \E n \in 0 .. MaxCalls :
                   /\ c .. c + n \subseteq ToSummarise(t) /\ p \in c .. c + n
                   /\ ChatUnit(t, c, n) /\ MessageAt(t, c).unit = MessageAt(t, p).unit
  <2>1. p \in Visible /\ p \in Int /\ p > memory.boundary /\ p <= b /\ MessageAt(t, p) = log[p]
    BY <1>0, <1>1, <1>2 DEF ToSummarise
  <2>2. PICK n \in 0 .. MaxCalls, c \in Ids :
               /\ c .. c + n \subseteq Visible /\ p \in c .. c + n
               /\ UnitAt(log, c, n) /\ log[c].unit = log[p].unit
               /\ \A d \in Ids : IsBoundary(d) => ~(c <= d /\ d < c + n)
    BY <1>6, <2>1, UnitOfRow
  <2>3. c \in Int /\ n \in Nat /\ c <= p /\ p <= c + n
    BY <1>0, <2>2
  <2>4. c > memory.boundary
    <3>1. ASSUME c <= memory.boundary
          PROVE  FALSE
      <4>1. memory.boundary \in Ids /\ memory.boundary < c + n
        BY <1>0, <2>1, <2>2, <2>3, <3>1 DEF MemoryFits
      <4>2. QED
        BY <2>2, <3>1, <4>1 DEF IsBoundary
    <3>2. QED
      BY <1>0, <2>3, <3>1
  <2>5. c + n <= b
    <3>1. ~(b < c + n)
      BY <1>0, <1>2, <2>1, <2>2, <2>3, <1>4, CutsBetweenUnits
    <3>2. QED
      BY <1>4, <2>3, <3>1
  <2>6. c .. c + n \subseteq RowsRead(t)
    BY <1>0, <1>1, <2>2, <2>3, ReadingFacts
  <2>7. c .. c + n \subseteq ToSummarise(t)
    <3>1. \A x \in c .. c + n : x <= b /\ x > memory.boundary
      BY <1>0, <1>4, <2>3, <2>4, <2>5
    <3>2. QED
      BY <1>5, <2>6, <3>1
  <2>8. ChatUnit(t, c, n)
    <3>1. \A i \in 1 .. n : c + i \in Ids /\ log[c + i] = ResultOf(log[c], i)
      <4>1. \A i \in 1 .. n : c + i \in c .. c + n
        BY <2>3
      <4>2. QED
        BY <1>0, <2>2, <4>1 DEF UnitAt
    <3>2. QED
      BY <1>0, <2>2, <3>1 DEF ChatUnit, UnitAt
  <2>9. QED
    BY <1>0, <2>1, <2>2, <2>3, <2>7, <2>8
<1>7. Whole(t, ToSummarise(t))
  BY <1>0, <1>1, <1>6, UnitsMakeWhole
<1>8. ASSUME Small, NEW i \in Visible, memory.boundary < i, i <= b
      PROVE  i \in ToSummarise(t)
  <2>1. RowsRead(t) = DropLeadingResults(t, Visible)
    BY <1>0, <1>8, ReadingFacts DEF RowsRead
  <2>2. i \in RowsRead(t)
    <3>1. CASE log[i].kind # "result"
      BY <1>0, <2>1, <3>1 DEF DropLeadingResults
    <3>2. CASE log[i].kind = "result"
      <4>1. PICK n \in 0 .. MaxCalls : \E r \in [0 .. n -> Visible] :
                UnitRows(n, r) /\ \E j \in 0 .. n : r[j] = i
        BY <1>0, <3>2 DEF RowsComeInUnits, InUnit
      <4>2. PICK r \in [0 .. n -> Visible] : UnitRows(n, r) /\ \E j \in 0 .. n : r[j] = i
        BY <4>1
      <4>3. PICK j \in 0 .. n : r[j] = i
        BY <4>2
      <4>4. r[0] \in Visible /\ r[0] <= i /\ log[r[0]].kind # "result"
        <5>1. 0 \in 0 .. n
          BY <1>0
        <5>2. j = 0 \/ r[0] < r[j]
          BY <1>0, <4>2, <4>3, <5>1 DEF UnitRows
        <5>3. r[0] \in Visible /\ log[r[0]].kind # "result"
          BY <4>2, <5>1 DEF UnitRows
        <5>4. r[0] \in Int /\ i \in Int
          BY <1>0, <5>3, SMTT(30)
        <5>5. QED
          BY <4>3, <5>2, <5>3, <5>4
      <4>5. QED
        BY <1>0, <2>1, <4>4 DEF DropLeadingResults
    <3>3. QED
      BY <3>1, <3>2
  <2>3. QED
    BY <1>5, <1>8, <2>2
<1>9. QED
  BY <1>1, <1>2, <1>4, <1>7, <1>8

-----------------------------------------------------------------------------
(* Steps of one turn that write nothing. *)

TurnState == [at : {"unused", "looping", "summarising", "asking", "saving", "ended"},
              pending : Seq(Entry), steps : 0 .. MaxSteps, failed : 0 .. MaxFailed,
              wrote : Seq(Ids), draft : [of : SUBSET Ids, was : Memory]]

\* A step of a turn that writes nothing.
LEMMA TurnGoes ==
    ASSUME ConversationInv, NEW t \in Turn, NEW x \in TurnState, turn' = [turn EXCEPT ![t] = x],
           UNCHANGED <<log, hidden, memory, posts>>,
           lease' = lease \/ (lease = t /\ lease' = NoTurn /\ x.wrote = <<>>),
           x.wrote = <<>> \/ (x.wrote = turn[t].wrote /\ x.pending = turn[t].pending /\ x.at = turn[t].at),
           InUnits(x.pending), LoopsFit(t)', DraftFits(t)',
           \A b \in Ids : IsBoundary(b)' => \/ IsBoundary(b)
                                 \/ \A c \in Int, n \in 0 .. MaxCalls :
                                        ~(c .. c + n \subseteq Visible /\ UnitAt(log, c, n) /\ c <= b /\ b < c + n)
    PROVE  ConversationInv'
<1>0. /\ ConversationTypeOK /\ turn \in [Turn -> TurnState] /\ turn'[t] = x
      /\ \A s \in Turn : s # t => turn'[s] = turn[s]
      /\ Ids' = Ids /\ Visible' = Visible /\ NoTurn \notin Turn
  BY ConversationAssumption DEF ConversationInv, ConversationTypeOK, TurnState, Ids, Visible
<1>1. ConversationTypeOK'
  <2>1. turn' \in [Turn -> TurnState] /\ lease' \in Turn \cup {NoTurn}
    BY <1>0 DEF ConversationTypeOK
  <2>2. TurnState' = TurnState /\ Memory' = Memory
    BY <1>0 DEF TurnState, Memory
  <2>3. QED
    BY <1>0, <2>1, <2>2 DEF ConversationTypeOK, TurnState
<1>2. PendingInUnits'
  BY <1>0 DEF ConversationInv, PendingInUnits
<1>3. MemoryFits'
  BY <1>0 DEF ConversationInv, MemoryFits, NothingSkipped, Small
<1>4. ASSUME NEW s \in Turn, s # t
      PROVE  WritesAlone(s)' /\ LoopsFit(s)' /\ DraftFits(s)'
  <2>1. WritesAlone(s)'
    BY <1>0, <1>4 DEF ConversationInv, WritesAlone, Wrote
  <2>2. LoopsFit(s)'
    BY <1>0, <1>4 DEF ConversationInv, LoopsFit
  <2>3. \A p : MessageAt(s, p)' = MessageAt(s, p)
    BY <1>0, <1>4 DEF MessageAt
  <2>4. Whole(s, turn[s].draft.of)' = Whole(s, turn[s].draft.of)
    BY <1>0, <1>4, <2>3 DEF Whole, Split
  <2>5. DraftFits(s)'
    BY <1>0, <1>4, <2>4 DEF ConversationInv, DraftFits, LastOfDraft, Small
  <2>6. QED
    BY <2>1, <2>2, <2>5
<1>5. WritesAlone(t)'
  BY <1>0 DEF ConversationInv, WritesAlone, Wrote
<1>6. RowsComeInUnits'
  <2>1. ASSUME NEW i \in Visible, InUnit(log[i])
        PROVE  \E n \in 0 .. MaxCalls : \E r \in [0 .. n -> Visible] :
            /\ UnitRows(n, r)' /\ \E k \in 0 .. n : r[k] = i
            /\ \A b \in Ids : IsBoundary(b)' /\ r[0] <= b /\ b < r[n] => Interrupted(n, r)'
    <3>1. PICK n \in 0 .. MaxCalls : \E r \in [0 .. n -> Visible] :
            /\ UnitRows(n, r) /\ \E k \in 0 .. n : r[k] = i
            /\ \A b \in Ids : IsBoundary(b) /\ r[0] <= b /\ b < r[n] => Interrupted(n, r)
      BY <2>1 DEF ConversationInv, RowsComeInUnits
    <3>2. PICK r \in [0 .. n -> Visible] :
            /\ UnitRows(n, r) /\ \E k \in 0 .. n : r[k] = i
            /\ \A b \in Ids : IsBoundary(b) /\ r[0] <= b /\ b < r[n] => Interrupted(n, r)
      BY <3>1
    <3>3. UnitRows(n, r)' /\ Interrupted(n, r)' = Interrupted(n, r)
      BY <1>0, <3>2 DEF UnitRows, Interrupted
    <3>4. ASSUME NEW b \in Ids, IsBoundary(b)', r[0] <= b, b < r[n], ~Interrupted(n, r)
          PROVE  FALSE
      <4>1. \A k \in 0 .. n : r[k] = r[0] + k
        BY <1>0, <3>2, <3>4, UninterruptedRows
      <4>2. /\ n \in Nat /\ 0 \in 0 .. n /\ n \in 0 .. n /\ r[0] \in Visible /\ r[0] \in Int
            /\ Ids = 1 .. Len(log) /\ Len(log) \in Nat /\ Visible \subseteq Ids
        BY <1>0, ChatFacts
      <4>3. r[0] .. r[0] + n \subseteq Visible
        <5>1. ASSUME NEW y \in r[0] .. r[0] + n
              PROVE  y \in Visible
          <6>1. y - r[0] \in 0 .. n /\ r[0] + (y - r[0]) = y
            BY <4>2
          <6>2. QED
            BY <4>1, <6>1
        <5>2. QED
          BY <5>1
      <4>4. UnitAt(log, r[0], n)
        <5>1. \A k \in 1 .. n : log[r[0] + k] = ResultOf(log[r[0]], k)
          BY <3>2, <4>1, <4>2 DEF UnitRows
        <5>2. r[0] + n \in Visible
          BY <4>1, <4>2
        <5>3. QED
          BY <3>2, <4>2, <5>1, <5>2 DEF UnitAt, UnitRows
      <4>5. b < r[0] + n
        BY <3>4, <4>1, <4>2
      <4>6. ~IsBoundary(b)
        BY <3>2, <3>4
      <4>7. QED
        BY <3>4, <4>2, <4>3, <4>4, <4>5, <4>6
    <3>5. QED
      BY <3>2, <3>3, <3>4
  <2>2. QED
    BY <1>0, <2>1 DEF RowsComeInUnits
<1>7. QED
  BY <1>1, <1>2, <1>3, <1>4, <1>5, <1>6 DEF ConversationInv

\* The same for a turn that has no summary under way after the step.
LEMMA TurnGoesOn ==
    ASSUME ConversationInv, NEW t \in Turn, NEW x \in TurnState, turn' = [turn EXCEPT ![t] = x],
           UNCHANGED <<log, hidden, memory, posts>>,
           lease' = lease \/ (lease = t /\ lease' = NoTurn /\ x.wrote = <<>>),
           x.wrote = <<>> \/ (x.wrote = turn[t].wrote /\ x.pending = turn[t].pending /\ x.at = turn[t].at),
           InUnits(x.pending), x.at # "summarising",
           x.at \in {"unused", "looping", "asking"} => x.failed < MaxFailed,
           x.at = "asking" => x.steps > 0
    PROVE  ConversationInv'
<1>1. /\ turn'[t] = x /\ \A s \in Turn : s # t => turn'[s] = turn[s]
  BY DEF ConversationInv, ConversationTypeOK
<1>2. LoopsFit(t)' /\ DraftFits(t)'
  BY <1>1 DEF LoopsFit, DraftFits
<1>3. \A b \in Ids : IsBoundary(b)' => IsBoundary(b)
  BY <1>1 DEF IsBoundary, LastOfDraft
<1>4. QED
  BY <1>2, <1>3, TurnGoes

\* What the invariant says of one turn.
LEMMA TurnFacts ==
    ASSUME ConversationInv, NEW t \in Turn
    PROVE  /\ turn \in [Turn -> TurnState] /\ turn[t] \in TurnState
           /\ InUnits(turn[t].pending) /\ WritesAlone(t) /\ LoopsFit(t) /\ DraftFits(t)
           /\ turn[t].at # "saving" => turn[t].wrote = <<>>
           /\ NoDraft \in [of : SUBSET Ids, was : Memory] /\ NoMemory \in Memory
           /\ MaxSteps \in Nat /\ MaxSteps > 0 /\ MaxFailed \in Nat /\ MaxFailed > 0
           /\ MaxCalls \in Nat /\ NoTurn \notin Turn
  <1>1. NoMemory \in Memory
    BY DEF NoMemory, Memory
  <1>2. NoDraft \in [of : SUBSET Ids, was : Memory]
    BY <1>1 DEF NoDraft
  <1>3. turn \in [Turn -> TurnState]
    BY DEF ConversationInv, ConversationTypeOK, TurnState
  <1>4. WritesAlone(t) /\ LoopsFit(t) /\ DraftFits(t) /\ InUnits(turn[t].pending)
    BY DEF ConversationInv, PendingInUnits
  <1>5. turn[t].at # "saving" => turn[t].wrote = <<>>
    BY <1>4 DEF WritesAlone
  <1>6. QED
    BY <1>1, <1>2, <1>3, <1>4, <1>5, ConversationAssumption

\* The state a turn ends in.
LEMMA EndedState ==
    ASSUME ConversationInv, NEW t \in Turn
    PROVE  /\ [Unused EXCEPT !.at = "ended"] \in TurnState /\ [Unused EXCEPT !.at = "ended"].at = "ended"
           /\ [Unused EXCEPT !.at = "ended"].wrote = <<>> /\ InUnits([Unused EXCEPT !.at = "ended"].pending)
<1>1. <<>> \in Seq(Entry) /\ <<>> \in Seq(Ids) /\ InUnits(<<>>)
  BY DEF InUnits
<1>2. /\ 0 \in 0 .. MaxSteps /\ 0 \in 0 .. MaxFailed
      /\ NoDraft \in [of : SUBSET Ids, was : Memory]
  BY TurnFacts
<1> HIDE DEF NoDraft
<1>3. [Unused EXCEPT !.at = "ended"] =
        [at |-> "ended", pending |-> <<>>, steps |-> 0, failed |-> 0, wrote |-> <<>>, draft |-> NoDraft]
  BY DEF Unused
<1>4. QED
  BY <1>1, <1>2, <1>3 DEF TurnState

\* The steps of the loop that leave the messages alone.
LEMMA LoopStepsKeep ==
    ASSUME ConversationInv, NEW t \in Turn,
           OutOfSteps(t) \/ StepStarts(t) \/ CompactionFails(t) \/ GivesUp(t)
    PROVE  ConversationInv'
<1> DEFINE o == turn[t]
<1>0. /\ turn \in [Turn -> TurnState] /\ o \in TurnState /\ InUnits(o.pending) /\ LoopsFit(t)
      /\ NoDraft \in [of : SUBSET Ids, was : Memory] /\ MaxSteps \in Nat /\ MaxFailed \in Nat
      /\ o.at # "saving" => o.wrote = <<>>
  BY TurnFacts
<1>1. CASE OutOfSteps(t) \/ GivesUp(t)
  <2>1. PICK x \in TurnState : x = [o EXCEPT !.at = "saving"]
    BY <1>0 DEF TurnState
  <2>2. x.at = "saving" /\ x.wrote = <<>> /\ x.pending = o.pending
    BY <1>0, <1>1, <2>1 DEF OutOfSteps, GivesUp, TurnState
  <2>3. turn' = [turn EXCEPT ![t] = x] /\ UNCHANGED <<log, hidden, memory, posts, lease>>
    BY <1>1, <2>1 DEF OutOfSteps, GivesUp, Goes
  <2>4. QED
    BY <1>0, <2>2, <2>3, TurnGoesOn
<1>2. CASE StepStarts(t)
  <2>0. o.steps + 1 \in 0 .. MaxSteps /\ o.steps + 1 > 0
    BY <1>0, <1>2 DEF StepStarts, TurnState
  <2>1. PICK x \in TurnState : x = [o EXCEPT !.at = "asking", !.steps = o.steps + 1]
    BY <1>0, <2>0 DEF TurnState
  <2>2. x.at = "asking" /\ x.wrote = <<>> /\ x.pending = o.pending /\ x.steps > 0 /\ x.failed < MaxFailed
    BY <1>0, <1>2, <2>0, <2>1 DEF StepStarts, TurnState, LoopsFit
  <2>3. turn' = [turn EXCEPT ![t] = x] /\ UNCHANGED <<log, hidden, memory, posts, lease>>
    BY <1>0, <1>2, <2>1 DEF StepStarts, TurnState
  <2>4. QED
    BY <1>0, <2>2, <2>3, TurnGoesOn
<1>3. CASE CompactionFails(t)
  <2>1. PICK x \in TurnState : x = [o EXCEPT !.at = "asking", !.draft = NoDraft]
    BY <1>0 DEF TurnState
  <2>2. x.at = "asking" /\ x.wrote = <<>> /\ x.pending = o.pending /\ x.steps > 0 /\ x.failed < MaxFailed
    BY <1>0, <1>3, <2>1 DEF CompactionFails, TurnState, LoopsFit
  <2>3. turn' = [turn EXCEPT ![t] = x] /\ UNCHANGED <<log, hidden, memory, posts, lease>>
    BY <1>0, <1>3, <2>1 DEF CompactionFails, TurnState
  <2>4. QED
    BY <1>0, <2>2, <2>3, TurnGoesOn
<1>4. QED
  BY <1>1, <1>2, <1>3

\* A turn that ends without writing.
LEMMA EndingsKeep ==
    ASSUME ConversationInv, NEW t \in Turn, TurnFails(t) \/ SavesNothing(t)
    PROVE  ConversationInv'
<1>1. PICK x \in TurnState : x = [Unused EXCEPT !.at = "ended"]
  BY EndedState
<1>2. x.at = "ended" /\ x.wrote = <<>> /\ InUnits(x.pending)
  BY <1>1, EndedState
<1>3. /\ turn' = [turn EXCEPT ![t] = x] /\ UNCHANGED <<log, hidden, memory, posts>>
      /\ lease' = lease \/ (lease = t /\ lease' = NoTurn)
  BY <1>1 DEF TurnFails, SavesNothing, Ended
<1>4. QED
  BY <1>2, <1>3, TurnGoesOn

\* A unit or a text more in memory.
LEMMA UnitsExtend ==
    ASSUME NEW s \in Seq(Entry), NEW w \in Seq(Entry), InUnits(s), MaxCalls \in Nat,
           \A k \in 1 .. Len(s) : w[k] = s[k], Len(w) >= Len(s),
           \A k \in Len(s) + 1 .. Len(w) : InUnit(w[k]) =>
                 \E c \in 1 .. k : \E n \in 0 .. MaxCalls :
                     k <= c + n /\ UnitAt(w, c, n) /\ w[c].unit # NoUnit
    PROVE  InUnits(w)
<1>1. Len(s) \in Nat /\ Len(w) \in Nat
  OBVIOUS
<1>2. ASSUME NEW k \in 1 .. Len(s), InUnit(w[k])
      PROVE  \E c \in 1 .. k : \E n \in 0 .. MaxCalls :
                     k <= c + n /\ UnitAt(w, c, n) /\ w[c].unit # NoUnit
  <2>1. PICK c \in 1 .. k, n \in 0 .. MaxCalls : k <= c + n /\ UnitAt(s, c, n) /\ s[c].unit # NoUnit
    BY <1>2 DEF InUnits
  <2>2. c \in 1 .. Len(s) /\ c + n <= Len(w) /\ \A i \in 1 .. n : c + i \in 1 .. Len(s)
    BY <1>1, <2>1 DEF UnitAt
  <2>3. w[c] = s[c] /\ \A i \in 1 .. n : w[c + i] = s[c + i]
    BY <2>2
  <2>4. UnitAt(w, c, n)
    BY <2>1, <2>2, <2>3 DEF UnitAt
  <2>5. QED
    BY <2>1, <2>3, <2>4
<1>3. QED
  BY <1>1, <1>2 DEF InUnits

\* A final answer.
LEMMA AnswersKeep ==
    ASSUME ConversationInv, NEW t \in Turn, GivesAnswer(t)
    PROVE  ConversationInv'
<1> DEFINE o == turn[t]
           m == Text("text")
<1>0. /\ turn \in [Turn -> TurnState] /\ o \in TurnState /\ InUnits(o.pending) /\ MaxCalls \in Nat
      /\ o.at = "asking" /\ o.wrote = <<>>
  BY TurnFacts DEF GivesAnswer
<1>1. o.pending \in Seq(Entry) /\ m \in Entry /\ ~InUnit(m)
  BY <1>0 DEF TurnState, Text, Entry, InUnit
<1> HIDE DEF m
<1>a. Append(o.pending, m) \in Seq(Entry)
  BY <1>1
<1>2. PICK w \in Seq(Entry) : w = Append(o.pending, m)
  BY <1>a
<1>3. InUnits(w)
  <2>1. Len(w) = Len(o.pending) + 1 /\ w[Len(w)] = m /\ \A k \in 1 .. Len(o.pending) : w[k] = o.pending[k]
    BY <1>1, <1>2
  <2>2. Len(o.pending) \in Nat
    BY <1>1
  <2>3. \A k \in Len(o.pending) + 1 .. Len(w) : k = Len(w)
    BY <2>1, <2>2
  <2>4. QED
    BY <1>0, <1>1, <2>1, <2>2, <2>3, UnitsExtend, SMTT(30)
<1>4. PICK x \in TurnState : x = [o EXCEPT !.at = "saving", !.pending = w]
  BY <1>0 DEF TurnState
<1>5. x.at = "saving" /\ x.wrote = <<>> /\ x.pending = w
  BY <1>0, <1>4 DEF TurnState
<1>6. turn' = [turn EXCEPT ![t] = x] /\ UNCHANGED <<log, hidden, memory, posts, lease>>
  BY <1>0, <1>2, <1>4 DEF GivesAnswer, TurnState, m
<1>7. QED
  BY <1>3, <1>5, <1>6, TurnGoesOn

\* An answer with calls and their results are one unit.
LEMMA UnitFacts ==
    ASSUME ConversationInv, NEW t \in Turn, turn[t].steps \in 1 .. MaxSteps, NEW n \in 1 .. MaxCalls
    PROVE  /\ Unit(t, n) \in Seq(Entry) /\ Len(Unit(t, n)) = n + 1
           /\ Unit(t, n)[1].kind = "call" /\ Unit(t, n)[1].n = n /\ Unit(t, n)[1].unit # NoUnit
           /\ \A i \in 1 .. n : Unit(t, n)[1 + i] = ResultOf(Unit(t, n)[1], i)
<1> DEFINE call == [kind |-> "call", unit |-> [turn |-> t, step |-> turn[t].steps], n |-> n]
           results == [i \in 1 .. n |-> ResultOf(call, i)]
<1>0. MaxCalls \in Nat /\ NoTurn \notin Turn /\ n \in Nat /\ n \in 0 .. MaxCalls
  BY TurnFacts
<1>1. call \in Entry /\ call.kind = "call" /\ call.n = n /\ call.unit # NoUnit
  BY <1>0 DEF Entry, NoUnit
<1> HIDE DEF call
<1>2. \A i \in 1 .. n : ResultOf(call, i) \in Entry
  BY <1>0, <1>1, ResultFacts
<1>3. results \in Seq(Entry) /\ Len(results) = n /\ \A i \in 1 .. n : results[i] = ResultOf(call, i)
  BY <1>0, <1>2
<1>4. <<call>> \in Seq(Entry) /\ Len(<<call>>) = 1 /\ <<call>>[1] = call
  BY <1>1
<1>5. Unit(t, n) = <<call>> \o results
  BY DEF Unit, call
<1> HIDE DEF results
<1>6. /\ <<call>> \o results \in Seq(Entry) /\ Len(<<call>> \o results) = n + 1
      /\ \A i \in 1 .. n + 1 : (<<call>> \o results)[i] = IF i <= 1 THEN <<call>>[i] ELSE results[i - 1]
  BY <1>0, <1>3, <1>4, ConcatProperties
<1>7. (<<call>> \o results)[1] = call
  BY <1>0, <1>4, <1>6
<1>8. \A i \in 1 .. n : (<<call>> \o results)[1 + i] = ResultOf(call, i)
  BY <1>0, <1>3, <1>6
<1>9. QED
  BY <1>1, <1>5, <1>6, <1>7, <1>8

\* A round of tool calls.
LEMMA CallsKeep ==
    ASSUME ConversationInv, NEW t \in Turn, NEW n \in 1 .. MaxCalls,
           NEW how \in {"ok", "failed", "approval"}, CallsTools(t, n, how)
    PROVE  ConversationInv'
<1> DEFINE o == turn[t]
           failed == IF how = "failed" THEN o.failed + 1 ELSE 0
           at == IF how = "approval" \/ failed = MaxFailed THEN "saving" ELSE "looping"
           u == Unit(t, n)
<1>0. /\ turn \in [Turn -> TurnState] /\ o \in TurnState /\ InUnits(o.pending) /\ MaxCalls \in Nat
      /\ o.at = "asking" /\ o.wrote = <<>> /\ MaxFailed \in Nat /\ MaxSteps \in Nat /\ LoopsFit(t)
  BY TurnFacts DEF CallsTools
<1>1. o.pending \in Seq(Entry) /\ o.steps \in 1 .. MaxSteps /\ o.failed \in 0 .. MaxFailed /\ o.failed < MaxFailed
  BY <1>0 DEF TurnState, LoopsFit
<1>2. /\ u \in Seq(Entry) /\ Len(u) = n + 1 /\ u[1].kind = "call" /\ u[1].n = n /\ u[1].unit # NoUnit
      /\ \A i \in 1 .. n : u[1 + i] = ResultOf(u[1], i)
  BY <1>1, UnitFacts
<1> HIDE DEF u
<1>3. PICK L \in Nat : L = Len(o.pending)
  BY <1>1
<1>s. PICK s \in Seq(Entry) : s = o.pending
  BY <1>1
<1>a. s \o u \in Seq(Entry)
  BY <1>2, ConcatProperties
<1>4. PICK w \in Seq(Entry) : w = s \o u
  BY <1>a
<1>5. /\ Len(w) = L + n + 1 /\ \A k \in 1 .. L : w[k] = s[k]
      /\ \A i \in 1 .. n + 1 : w[L + i] = u[i]
  <2>1. /\ Len(w) = L + (n + 1)
        /\ \A k \in 1 .. L + (n + 1) : w[k] = IF k <= L THEN s[k] ELSE u[k - L]
    <3>1. Len(s) = L
      BY <1>3, <1>s
    <3>2. /\ Len(s \o u) = Len(s) + Len(u)
          /\ \A k \in 1 .. Len(s) + Len(u) : (s \o u)[k] = IF k <= Len(s) THEN s[k] ELSE u[k - Len(s)]
      BY <1>2, ConcatProperties
    <3>3. QED
      BY <1>2, <1>4, <3>1, <3>2
  <2>2. \A i \in 1 .. n + 1 : L + i \in 1 .. L + (n + 1) /\ ~(L + i <= L) /\ (L + i) - L = i
    OBVIOUS
  <2>3. \A k \in 1 .. L : k \in 1 .. L + (n + 1)
    OBVIOUS
  <2>4. QED
    BY <2>1, <2>2, <2>3
<1>6. UnitAt(w, L + 1, n) /\ w[L + 1].unit # NoUnit
  <2>1. w[L + 1] = u[1]
    BY <1>5
  <2>2. \A i \in 1 .. n : w[(L + 1) + i] = ResultOf(w[L + 1], i)
    <3>1. \A i \in 1 .. n : 1 + i \in 1 .. n + 1 /\ L + (1 + i) = (L + 1) + i
      OBVIOUS
    <3>2. QED
      BY <1>2, <1>5, <2>1, <3>1, SMTT(30)
  <2>3. QED
    BY <1>2, <1>5, <2>1, <2>2 DEF UnitAt
<1>7. InUnits(w)
  <2>1. ASSUME NEW k \in L + 1 .. Len(w)
        PROVE  \E c \in 1 .. k : \E m \in 0 .. MaxCalls :
                     k <= c + m /\ UnitAt(w, c, m) /\ w[c].unit # NoUnit
    <3>1. L + 1 \in 1 .. k /\ n \in 0 .. MaxCalls /\ k <= (L + 1) + n
      BY <1>0, <1>5
    <3>2. QED
      BY <1>6, <3>1
  <2>2. QED
    <3>1. InUnits(s) /\ L = Len(s) /\ Len(w) >= Len(s)
      BY <1>0, <1>3, <1>s, <1>5
    <3>2. QED
      BY <1>0, <1>5, <2>1, <3>1, UnitsExtend
<1>8. failed \in 0 .. MaxFailed /\ at \in {"saving", "looping"} /\ (at = "looping" => failed < MaxFailed)
  BY <1>0, <1>1
<1> HIDE DEF failed, at
<1>9. PICK x \in TurnState : x = [o EXCEPT !.at = at, !.failed = failed, !.pending = w]
  BY <1>0, <1>8 DEF TurnState
<1>10. x.at = at /\ x.wrote = <<>> /\ x.pending = w /\ x.failed = failed
  BY <1>0, <1>9 DEF TurnState
<1>11. turn' = [turn EXCEPT ![t] = x] /\ UNCHANGED <<log, hidden, memory, posts, lease>>
  BY <1>0, <1>s, <1>4, <1>9, ZenonT(60) DEF CallsTools, TurnState, failed, at, u
<1>12. QED
  BY <1>7, <1>8, <1>10, <1>11, TurnGoesOn

\* A reading for a summary.
LEMMA ReadsKeep ==
    ASSUME ConversationInv, NEW t \in Turn, CompactionReads(t)
    PROVE  ConversationInv'
<1> DEFINE o == turn[t]
           was == [memory EXCEPT !.unseen = memory.unseen \cup hidden]
           of == ToSummarise(t)
<1>0. /\ turn \in [Turn -> TurnState] /\ o \in TurnState /\ InUnits(o.pending) /\ LoopsFit(t)
      /\ MaxSteps \in Nat /\ o.at = "looping" /\ o.wrote = <<>> /\ o.steps < MaxSteps
      /\ ConversationTypeOK /\ MemoryFits
      /\ UNCHANGED <<log, hidden, memory, lease, posts>>
  BY TurnFacts DEF CompactionReads, ConversationInv
<1>1. was \in Memory /\ was.boundary = memory.boundary /\ was.covers = memory.covers
      /\ was.unseen = memory.unseen \cup hidden
  <2>1. memory \in Memory /\ hidden \subseteq Ids
    BY <1>0 DEF ConversationTypeOK
  <2>2. QED
    BY <2>1 DEF Memory
<1> HIDE DEF was
<1>2. of # {} /\ of \in SUBSET Visible
      /\ turn' = [turn EXCEPT ![t].at = "summarising", ![t].steps = o.steps + 1,
                              ![t].draft = [of |-> of, was |-> was]]
  <2>1. of # {}
    BY DEF CompactionReads, ToSummarise, RowsRead, KeptRaw
  <2>2. of \in SUBSET Visible
    BY <1>0, ReadingFacts
  <2>3. was = [memory EXCEPT !.unseen = @ \cup hidden]
    BY DEF was
  <2>4. QED
    BY <2>1, <2>2, <2>3 DEF CompactionReads, ToSummarise, RowsRead, KeptRaw
<1>3. PICK b \in of : /\ \A i \in of : i <= b
                      /\ b > memory.boundary
                      /\ Small => \A i \in Visible : memory.boundary < i /\ i <= b => i \in of
  BY <1>2, DraftsBegin
<1>4. Whole(t, of)
  BY <1>2, DraftsBegin
<1>5. \A i \in of : i > memory.boundary
  BY DEF ToSummarise
<1>6. PICK rows : rows = of
  OBVIOUS
<1>c. \A d \in rows : (\A i \in rows : i <= d) =>
         \A c \in Int, n \in 0 .. MaxCalls :
            ~(c .. c + n \subseteq Visible /\ UnitAt(log, c, n) /\ c <= d /\ d < c + n)
  BY <1>0, <1>6, CutsBetweenUnits
<1> HIDE DEF of
<1>7. PICK draft \in [of : SUBSET Ids, was : Memory] : draft.of = rows /\ draft.was = was /\ draft = [of |-> of, was |-> was]
  BY <1>1, <1>2, <1>6 DEF Visible
<1>s. o.steps + 1 \in 0 .. MaxSteps /\ o.steps + 1 > 0
  BY <1>0 DEF TurnState
<1>8. PICK x \in TurnState : x = [o EXCEPT !.at = "summarising", !.steps = o.steps + 1, !.draft = draft]
  BY <1>0, <1>s DEF TurnState
<1>9. /\ x.at = "summarising" /\ x.wrote = <<>> /\ x.pending = o.pending /\ x.steps > 0
      /\ x.failed < MaxFailed /\ x.draft = draft
  BY <1>0, <1>s, <1>8 DEF TurnState, LoopsFit
<1>10. turn' = [turn EXCEPT ![t] = x]
  BY <1>0, <1>2, <1>7, <1>8 DEF TurnState
<1>11. turn'[t] = x /\ \A s \in Turn : s # t => turn'[s] = turn[s]
  BY <1>0, <1>10
<1>12. LoopsFit(t)'
  BY <1>9, <1>11 DEF LoopsFit
<1>13. DraftFits(t)'
  <2>1. \A p : MessageAt(t, p)' = MessageAt(t, p)
    BY <1>0, <1>9, <1>11 DEF MessageAt, Ids
  <2>2. Visible' = Visible /\ Small' = Small
    BY <1>0 DEF Visible, Ids, Small
  <2>3. \A u : Split(u)' = Split(u)
    BY <1>0, <2>2 DEF Split
  <2>4. Whole(t, turn[t].draft.of)'
    BY <1>4, <1>6, <1>7, <1>9, <1>11, <2>1, <2>3 DEF Whole
  <2>5. LastOfDraft(t, b)' /\ b \in turn'[t].draft.of
    BY <1>3, <1>6, <1>7, <1>9, <1>11 DEF LastOfDraft
  <2>6. Small => memory.covers \cup rows = {i \in Visible : i <= b} \ (memory.unseen \cup hidden)
    <3>1. SUFFICES ASSUME Small
                   PROVE  memory.covers \cup rows = {i \in Visible : i <= b} \ (memory.unseen \cup hidden)
      OBVIOUS
    <3>2. memory.covers = {i \in Visible : i <= memory.boundary} \ memory.unseen
      BY <1>0, <3>1 DEF MemoryFits, NothingSkipped
    <3>3. \A i \in memory.unseen : i <= memory.boundary
      BY <1>0 DEF MemoryFits
    <3>4. \A i \in Visible : i \notin hidden /\ i \in Int
      BY <1>0, ChatFacts DEF Visible
    <3>5. b \in Int /\ memory.boundary \in Int /\ rows \subseteq Visible
      BY <1>0, <1>2, <1>6, <3>4, ChatFacts
    <3>6. \A i \in Visible : i \in rows <=> memory.boundary < i /\ i <= b
      BY <1>3, <1>5, <1>6, <3>1
    <3>7. \A i \in Visible : i <= memory.boundary => i <= b
      BY <1>3, <3>4, <3>5
    <3>8. \A i \in Visible : i \in memory.covers \cup rows <=> i <= b /\ i \notin memory.unseen
      BY <3>2, <3>3, <3>4, <3>5, <3>6, <3>7
    <3>9. memory.covers \cup rows \subseteq Visible
      BY <3>2, <3>5
    <3>10. QED
      BY <3>4, <3>8, <3>9
  <2>7. turn'[t].draft.of = rows /\ turn'[t].draft.was = was
    BY <1>7, <1>9, <1>11
  <2>8. \A i \in hidden : i <= b => i \in was.unseen
    BY <1>1
  <2>9. memory.boundary <= memory.boundary
    BY <1>0, ChatFacts
  <2>10. b > was.boundary /\ was.boundary <= memory.boundary /\ rows \subseteq Visible
    BY <1>1, <1>2, <1>3, <1>6, <2>9
  <2>11. memory' = memory /\ hidden' = hidden
    BY <1>0
  <2>12. Small => was.covers \cup rows = {i \in Visible : i <= b} \ was.unseen
    BY <1>1, <2>6
  <2>13. QED
    BY <2>2, <2>4, <2>5, <2>7, <2>8, <2>10, <2>11, <2>12 DEF DraftFits
<1>14. ASSUME NEW d \in Ids, IsBoundary(d)'
       PROVE  \/ IsBoundary(d)
              \/ \A c \in Int, n \in 0 .. MaxCalls :
                   ~(c .. c + n \subseteq Visible /\ UnitAt(log, c, n) /\ c <= d /\ d < c + n)
  <2>1. CASE LastOfDraft(t, d)'
    <3>1. d \in rows /\ \A i \in rows : i <= d
      BY <1>7, <1>9, <1>11, <2>1 DEF LastOfDraft
    <3>2. QED
      BY <1>c, <3>1
  <2>2. CASE ~LastOfDraft(t, d)'
    BY <1>0, <1>11, <1>14, <2>2 DEF IsBoundary, LastOfDraft
  <2>3. QED
    BY <2>1, <2>2
<1>15. QED
  BY <1>0, <1>9, <1>10, <1>12, <1>13, <1>14, TurnGoes

\* A summary that is written: the boundary moves to a draft's end, which makes
\* every other draft stale.
LEMMA WritesSummaryKeeps ==
    ASSUME ConversationInv, NEW t \in Turn, CompactionWrites(t)
    PROVE  ConversationInv'
<1> DEFINE o == turn[t]
<1>0. /\ turn \in [Turn -> TurnState] /\ o \in TurnState /\ InUnits(o.pending) /\ LoopsFit(t) /\ DraftFits(t)
      /\ NoDraft \in [of : SUBSET Ids, was : Memory] /\ MaxSteps \in Nat /\ MaxFailed \in Nat
      /\ o.at = "summarising" /\ o.wrote = <<>>
      /\ ConversationTypeOK /\ MemoryFits
      /\ UNCHANGED <<log, hidden, lease, posts>>
  BY TurnFacts DEF CompactionWrites, ConversationInv
<1>1. PICK x \in TurnState : x = [o EXCEPT !.at = "asking", !.draft = NoDraft]
  BY <1>0 DEF TurnState
<1>2. x.at = "asking" /\ x.wrote = <<>> /\ x.pending = o.pending /\ x.steps > 0 /\ x.failed < MaxFailed
  BY <1>0, <1>1 DEF TurnState, LoopsFit
<1>3. turn' = [turn EXCEPT ![t] = x]
  BY <1>0, <1>1 DEF CompactionWrites, TurnState
<1>4. CASE memory.boundary # o.draft.was.boundary
  <2>1. memory' = memory
    BY <1>4 DEF CompactionWrites
  <2>2. QED
    BY <1>0, <1>2, <1>3, <2>1, TurnGoesOn
<1>5. CASE memory.boundary = o.draft.was.boundary
  <2>1. PICK draft \in [of : SUBSET Ids, was : Memory] : draft = o.draft
    BY <1>0 DEF TurnState
  <2>2. /\ draft.of \subseteq Visible
        /\ \E b \in draft.of :
             /\ \A i \in draft.of : i <= b
             /\ b > draft.was.boundary
             /\ \A i \in hidden : i <= b => i \in draft.was.unseen
             /\ Small => draft.was.covers \cup draft.of = {i \in Visible : i <= b} \ draft.was.unseen
    BY <1>0, <1>5, <2>1 DEF DraftFits, LastOfDraft
  <2>3. PICK b \in draft.of :
             /\ \A i \in draft.of : i <= b
             /\ b > draft.was.boundary
             /\ \A i \in hidden : i <= b => i \in draft.was.unseen
             /\ Small => draft.was.covers \cup draft.of = {i \in Visible : i <= b} \ draft.was.unseen
    BY <2>2
  <2>4. /\ Ids = 1 .. Len(log) /\ Len(log) \in Nat /\ Visible \subseteq Ids /\ memory.boundary \in Nat
        /\ draft.was.unseen \subseteq Ids /\ draft.was.covers \subseteq Ids /\ b \in Visible /\ b \in Ids
        /\ draft.of \subseteq Int
    <3>1. Ids = 1 .. Len(log) /\ Len(log) \in Nat /\ Visible \subseteq Ids /\ memory.boundary \in Nat
      BY <1>0, ChatFacts
    <3>2. 1 .. Len(log) \subseteq Int
      BY <3>1
    <3>3. draft.was \in Memory
      BY <2>1
    <3>4. QED
      BY <2>2, <2>3, <3>1, <3>2, <3>3 DEF Memory
  <2>5. (CHOOSE i \in draft.of : \A j \in draft.of : j <= i) = b
    <3>1. ASSUME NEW i \in draft.of, \A j \in draft.of : j <= i
          PROVE  i = b
      <4>1. i <= b /\ b <= i /\ i \in Int /\ b \in Int
        BY <2>3, <2>4, <3>1
      <4>2. QED
        BY <4>1
    <3>2. QED
      BY <2>3, <3>1
  <2>6. memory' = [covers |-> draft.was.covers \cup draft.of,
                   unseen |-> {i \in draft.was.unseen : i <= b}, boundary |-> b]
    BY <1>5, <2>1, <2>5 DEF CompactionWrites, Compacted
  <2>7. /\ memory'.covers = draft.was.covers \cup draft.of
        /\ memory'.unseen = {i \in draft.was.unseen : i <= b} /\ memory'.boundary = b
    BY <2>6
  <2>8. /\ Ids' = Ids /\ Visible' = Visible /\ Memory' = Memory /\ TurnState' = TurnState /\ Small' = Small
        /\ turn'[t] = x /\ \A s \in Turn : s # t => turn'[s] = turn[s]
    BY <1>0, <1>3 DEF Ids, Visible, Memory, TurnState, Small
  <2>9. ConversationTypeOK'
    <3>1. memory' \in Memory
      BY <2>4, <2>6 DEF Memory
    <3>2. turn' \in [Turn -> TurnState]
      BY <1>0, <1>3
    <3>3. QED
      BY <1>0, <2>8, <3>1, <3>2 DEF ConversationTypeOK, TurnState
  <2>10. MemoryFits'
    <3>1. \A i \in hidden : i <= b => i \in memory'.unseen
      BY <2>3, <2>7
    <3>2. \A i \in memory'.unseen : i <= b
      BY <2>7
    <3>3. ASSUME Small
          PROVE  memory'.covers = {i \in Visible : i <= b} \ memory'.unseen
      <4>1. draft.was.covers \cup draft.of = {i \in Visible : i <= b} \ draft.was.unseen
        BY <2>3, <3>3
      <4>2. QED
        BY <2>7, <4>1
    <3>4. QED
      BY <1>0, <2>4, <2>7, <2>8, <3>1, <3>2, <3>3 DEF MemoryFits, NothingSkipped
  <2>11. ASSUME NEW d \in Ids, IsBoundary(d)'
         PROVE  IsBoundary(d)
    <3>1. CASE d = memory'.boundary
      BY <1>0, <2>1, <2>3, <2>7, <3>1 DEF IsBoundary, LastOfDraft
    <3>2. CASE d # memory'.boundary
      BY <1>2, <2>8, <2>11, <3>2 DEF IsBoundary, LastOfDraft
    <3>3. QED
      BY <3>1, <3>2
  <2>12. RowsComeInUnits'
    <3>1. \A n, r : UnitRows(n, r)' = UnitRows(n, r) /\ Interrupted(n, r)' = Interrupted(n, r)
      BY <1>0, <2>8 DEF UnitRows, Interrupted
    <3>2. RowsComeInUnits
      BY DEF ConversationInv
    <3>3. log' = log
      BY <1>0
    <3>4. QED
      BY <2>8, <2>11, <3>1, <3>2, <3>3 DEF RowsComeInUnits
  <2>13. PendingInUnits'
    BY <1>0, <1>2, <2>8 DEF ConversationInv, PendingInUnits
  <2>14. WritesAlone(t)' /\ LoopsFit(t)' /\ DraftFits(t)'
    BY <1>2, <2>8 DEF WritesAlone, LoopsFit, DraftFits
  <2>15. ASSUME NEW s \in Turn, s # t
         PROVE  WritesAlone(s)' /\ LoopsFit(s)' /\ DraftFits(s)'
    <3>1. WritesAlone(s) /\ LoopsFit(s) /\ DraftFits(s) /\ turn'[s] = turn[s]
      BY <2>8, <2>15 DEF ConversationInv
    <3>2. WritesAlone(s)' /\ LoopsFit(s)'
      BY <1>0, <2>8, <3>1 DEF WritesAlone, Wrote, LoopsFit
    <3>3. ASSUME turn[s].at = "summarising"
          PROVE  DraftFits(s)'
      <4>1. PICK e \in turn[s].draft.of :
             /\ LastOfDraft(s, e) /\ e > turn[s].draft.was.boundary
             /\ \A i \in hidden : i <= e => i \in turn[s].draft.was.unseen
        BY <3>1, <3>3 DEF DraftFits
      <4>2. turn[s].draft.of \subseteq Visible /\ Whole(s, turn[s].draft.of) /\ turn[s].draft.was.boundary <= memory.boundary
        BY <3>1, <3>3 DEF DraftFits
      <4>3. \A p : MessageAt(s, p)' = MessageAt(s, p)
        BY <1>0, <2>8, <3>1 DEF MessageAt
      <4>4. Whole(s, turn[s].draft.of)'
        BY <1>0, <2>8, <3>1, <4>2, <4>3 DEF Whole, Split
      <4>5. turn[s].draft.was.boundary \in Int
        <5>1. turn[s].draft.was \in Memory
          BY <1>0 DEF TurnState
        <5>2. QED
          BY <2>4, <5>1 DEF Memory
      <4>6. turn[s].draft.was.boundary <= b /\ turn[s].draft.was.boundary # b
        BY <1>5, <2>1, <2>3, <2>4, <4>2, <4>5
      <4>7. LastOfDraft(s, e)'
        BY <3>1, <4>1 DEF LastOfDraft
      <4>8. QED
        BY <1>0, <2>7, <2>8, <3>1, <4>1, <4>2, <4>4, <4>6, <4>7 DEF DraftFits
    <3>4. turn[s].at # "summarising" => DraftFits(s)'
      BY <3>1 DEF DraftFits
    <3>5. QED
      BY <3>2, <3>3, <3>4
  <2>16. QED
    BY <2>9, <2>10, <2>12, <2>13, <2>14, <2>15 DEF ConversationInv
<1>6. QED
  BY <1>4, <1>5

-----------------------------------------------------------------------------
(* The chat grows. *)

\* A row more.
LEMMA GrownFacts ==
    ASSUME ConversationTypeOK, NEW m \in Entry, log' = Append(log, m),
           hidden' \subseteq hidden \cup {Len(log) + 1}
    PROVE  /\ log' \in Seq(Entry) /\ Len(log') = Len(log) + 1 /\ Len(log) \in Nat
           /\ Ids = 1 .. Len(log) /\ Ids' = 1 .. Len(log) + 1 /\ Len(log) + 1 \notin Ids
           /\ Ids' = Ids \cup {Len(log) + 1} /\ Ids \subseteq Ids'
           /\ \A i \in Ids : log'[i] = log[i]
           /\ log'[Len(log) + 1] = m /\ hidden' \subseteq Ids'
           /\ Visible \subseteq Visible' /\ Visible' \subseteq Ids'
           /\ \A i \in Visible' : i \in Ids => i \in Visible \/ i \in hidden
           /\ Memory \subseteq Memory' /\ TurnState \subseteq TurnState'
<1>1. log \in Seq(Entry) /\ Len(log) \in Nat /\ Ids = 1 .. Len(log) /\ hidden \subseteq Ids
  BY ChatFacts DEF ConversationTypeOK
<1>2. /\ log' \in Seq(Entry) /\ Len(log') = Len(log) + 1
      /\ \A i \in 1 .. Len(log) : log'[i] = log[i]
      /\ log'[Len(log) + 1] = m
  BY <1>1
<1>3. Ids' = 1 .. Len(log) + 1
  BY <1>2 DEF Ids
<1>4. Ids' = Ids \cup {Len(log) + 1} /\ Len(log) + 1 \notin Ids
  BY <1>1, <1>3
<1>5. Visible \subseteq Visible' /\ Visible' \subseteq Ids' /\ \A i \in Visible' : i \in Ids => i \in Visible \/ i \in hidden
  BY <1>4 DEF Visible
<1>6. Memory \subseteq Memory'
  BY <1>4 DEF Memory
<1>7. ASSUME NEW x \in TurnState
      PROVE  x \in TurnState'
  <2>1. x.wrote \in Seq(Ids')
    <3>1. x.wrote \in Seq(Ids)
      BY DEF TurnState
    <3>2. x.wrote \in [1 .. Len(x.wrote) -> Ids] /\ Len(x.wrote) \in Nat
      BY <3>1
    <3>3. x.wrote \in [1 .. Len(x.wrote) -> Ids']
      BY <1>4, <3>2
    <3>4. QED
      BY <3>2, <3>3, SeqDef
  <2>2. x.draft \in [of : SUBSET Ids', was : Memory']
    <3>1. x.draft \in [of : SUBSET Ids, was : Memory]
      BY DEF TurnState
    <3>2. QED
      BY <1>4, <1>6, <3>1
  <2>3. QED
    BY <2>1, <2>2 DEF TurnState
<1>8. QED
  BY <1>1, <1>2, <1>3, <1>4, <1>5, <1>6, <1>7

\* A summary ends at a row that can be seen.
LEMMA BoundariesAreVisible ==
    ASSUME ConversationInv, NEW b, IsBoundary(b)
    PROVE  b \in {0} \cup Visible
BY DEF ConversationInv, MemoryFits, DraftFits, IsBoundary, LastOfDraft

\* A unit's rows and what came between them stay.
LEMMA UnitRowsStay ==
    ASSUME ConversationTypeOK, NEW m \in Entry, log' = Append(log, m),
           hidden' \subseteq hidden \cup {Len(log) + 1},
           NEW n \in Nat, NEW r \in [0 .. n -> Ids], UnitRows(n, r)
    PROVE  UnitRows(n, r)' /\ (Interrupted(n, r) => Interrupted(n, r)')
<1>0. /\ Ids = 1 .. Len(log) /\ Len(log) \in Nat /\ Ids' = Ids \cup {Len(log) + 1}
      /\ \A i \in Ids : log'[i] = log[i]
      /\ Visible \subseteq Visible' /\ Visible \subseteq Ids
  BY GrownFacts DEF Visible
<1>1. \A k \in 0 .. n : r[k] \in Ids /\ log'[r[k]] = log[r[k]]
  BY <1>0
<1>2. r[0] \in Ids /\ r[n] \in Ids /\ log'[r[0]] = log[r[0]]
  <2>1. 0 \in 0 .. n /\ n \in 0 .. n
    OBVIOUS
  <2>2. QED
    BY <1>1, <2>1
<1>3. ASSUME NEW i \in Ids', r[0] < i, i < r[n]
      PROVE  (\E k \in 0 .. n : i = r[k]) \/ (i \in Visible' /\ log'[i].unit = NoUnit)
  <2>1. i \in Ids
    BY <1>0, <1>2, <1>3
  <2>2. QED
    BY <1>0, <1>3, <2>1 DEF UnitRows
<1>4. \A k \in 1 .. n : log'[r[k]] = ResultOf(log'[r[0]], k)
  <2>1. \A k \in 1 .. n : k \in 0 .. n
    OBVIOUS
  <2>2. \A k \in 1 .. n : log[r[k]] = ResultOf(log[r[0]], k)
    BY DEF UnitRows
  <2>3. QED
    BY <1>1, <1>2, <2>1, <2>2
<1>5. UnitRows(n, r)'
  BY <1>2, <1>3, <1>4 DEF UnitRows
<1>6. Interrupted(n, r) => Interrupted(n, r)'
  BY <1>0 DEF Interrupted
<1>7. QED
  BY <1>5, <1>6

\* A row more keeps the invariant if the writers and the rows that appear fit.
LEMMA ChatGrows ==
    ASSUME ConversationInv, NEW m \in Entry, log' = Append(log, m),
           hidden' \subseteq hidden \cup {Len(log) + 1}, memory' = memory,
           lease' \in Turn \cup {NoTurn}, posts' \in 0 .. MaxPosts, turn' \in [Turn -> TurnState'],
           \A s \in Turn : turn'[s].at = "summarising" => turn'[s] = turn[s],
           PendingInUnits', \A s \in Turn : WritesAlone(s)' /\ LoopsFit(s)',
           \A i \in Visible' \ Visible : InUnit(log'[i]) =>
               \E n \in 0 .. MaxCalls : \E r \in [0 .. n -> Visible'] :
                   /\ UnitRows(n, r)' /\ \E k \in 0 .. n : r[k] = i
                   /\ \A b \in Visible : IsBoundary(b) /\ r[0] <= b /\ b < r[n] => Interrupted(n, r)'
    PROVE  ConversationInv'
<1> DEFINE N == Len(log)
<1>0. /\ ConversationTypeOK /\ MemoryFits /\ RowsComeInUnits
      /\ log' \in Seq(Entry) /\ Len(log') = N + 1 /\ N \in Nat
      /\ Ids = 1 .. N /\ Ids' = Ids \cup {N + 1} /\ N + 1 \notin Ids
      /\ \A i \in Ids : log'[i] = log[i]
      /\ hidden' \subseteq Ids' /\ Visible \subseteq Visible' /\ Visible' \subseteq Ids' /\ Visible \subseteq Ids
      /\ \A i \in Visible' : i \in Ids => i \in Visible \/ i \in hidden
      /\ Memory \subseteq Memory' /\ MaxCalls \in Nat /\ memory.boundary \in Nat
      /\ \A i \in hidden' : i = N + 1 \/ i \in hidden
  BY GrownFacts, ChatFacts DEF ConversationInv, Visible
<1>1. ConversationTypeOK'
  <2>1. memory' \in Memory'
    BY <1>0 DEF ConversationTypeOK
  <2>2. QED
    BY <1>0, <2>1 DEF ConversationTypeOK, TurnState
<1>2. Small' => Small
  BY <1>0, ChatFacts DEF Small
<1>3. memory.boundary <= N
  BY <1>0 DEF MemoryFits
<1>4. MemoryFits'
  <2>1. memory.boundary \in {0} \cup Visible'
    BY <1>0 DEF MemoryFits
  <2>2. ASSUME NEW i \in hidden', i <= memory.boundary
        PROVE  i \in memory.unseen
    <3>1. i \in hidden
      BY <1>0, <1>3, <2>2
    <3>2. QED
      BY <1>0, <2>2, <3>1 DEF MemoryFits
  <2>3. ASSUME Small
        PROVE  memory.covers = {i \in Visible' : i <= memory.boundary} \ memory.unseen
    <3>1. memory.covers = {i \in Visible : i <= memory.boundary} \ memory.unseen
      BY <1>0, <2>3 DEF MemoryFits, NothingSkipped
    <3>2. ASSUME NEW i \in Visible', i <= memory.boundary, i \notin memory.unseen
          PROVE  i \in Visible
      <4>1. i \in Ids
        BY <1>0, <1>3, <3>2
      <4>2. i \notin hidden
        BY <1>0, <3>2 DEF MemoryFits
      <4>3. QED
        BY <1>0, <4>1, <4>2
    <3>3. QED
      BY <1>0, <3>1, <3>2
  <2>4. \A i \in memory.unseen : i <= memory.boundary
    BY <1>0 DEF MemoryFits
  <2>5. QED
    BY <1>2, <2>1, <2>2, <2>3, <2>4 DEF MemoryFits, NothingSkipped
<1>5. ASSUME NEW u, Split(u)
      PROVE  Split(u)'
  <2>1. PICK i \in Visible, j \in Visible : /\ i < j /\ log[i].unit = u /\ log[j].unit = u
                        /\ \E k \in Visible : i < k /\ k < j /\ log[k].unit # u
    BY <1>5 DEF Split
  <2>2. PICK k \in Visible : i < k /\ k < j /\ log[k].unit # u
    BY <2>1
  <2>3. i \in Ids /\ j \in Ids /\ k \in Ids
    BY <1>0
  <2>4. i \in Visible' /\ j \in Visible' /\ k \in Visible' /\ log'[i] = log[i] /\ log'[j] = log[j] /\ log'[k] = log[k]
    BY <1>0, <2>3
  <2>5. log'[i].unit = u /\ log'[j].unit = u /\ log'[k].unit # u
    BY <2>1, <2>2, <2>4
  <2>6. QED
    BY <2>1, <2>2, <2>4, <2>5 DEF Split
<1>6. ASSUME NEW s \in Turn
      PROVE  DraftFits(s)'
  <2>1. SUFFICES ASSUME turn'[s].at = "summarising"
                 PROVE  DraftFits(s)'
    BY DEF DraftFits
  <2>2. turn'[s] = turn[s] /\ turn[s].at = "summarising" /\ DraftFits(s)
    BY <2>1 DEF ConversationInv
  <2>3. PICK d : d = turn[s].draft
    OBVIOUS
  <2>4. /\ d.of \subseteq Visible /\ Whole(s, d.of) /\ d.was.boundary <= memory.boundary
        /\ \E b \in d.of :
             /\ LastOfDraft(s, b) /\ b > d.was.boundary
             /\ \A i \in hidden : i <= b => i \in d.was.unseen
             /\ Small /\ d.was.boundary = memory.boundary =>
                    d.was.covers \cup d.of = {i \in Visible : i <= b} \ d.was.unseen
    BY <2>2, <2>3 DEF DraftFits
  <2>5. PICK b \in d.of :
             /\ LastOfDraft(s, b) /\ b > d.was.boundary
             /\ \A i \in hidden : i <= b => i \in d.was.unseen
             /\ Small /\ d.was.boundary = memory.boundary =>
                    d.was.covers \cup d.of = {i \in Visible : i <= b} \ d.was.unseen
    BY <2>4
  <2>6. b \in Ids /\ b <= N
    BY <1>0, <2>4, <2>5
  <2>7. Whole(s, d.of)'
    <3>1. \A p \in d.of : MessageAt(s, p)' = MessageAt(s, p)
      BY <1>0, <2>2, <2>4 DEF MessageAt
    <3>2. \A p \in d.of : LET e == MessageAt(s, p) IN
            e.unit # NoUnit /\ ~Split(e.unit) =>
            \E c \in d.of :
                /\ c <= p /\ MessageAt(s, c).kind = "call" /\ MessageAt(s, c).unit = e.unit
                /\ Behind(d.of, c, p) = IF e.kind = "call" THEN 0 ELSE e.n
                /\ \A n \in 1 .. MessageAt(s, c).n : \E q \in d.of :
                       Behind(d.of, c, q) = n /\ MessageAt(s, q) = ResultOf(MessageAt(s, c), n)
      BY <2>4 DEF Whole
    <3>3. ASSUME NEW p \in d.of, NEW e, e = MessageAt(s, p)', e.unit # NoUnit, ~Split(e.unit)'
          PROVE  \E c \in d.of :
                /\ c <= p /\ MessageAt(s, c)'.kind = "call" /\ MessageAt(s, c)'.unit = e.unit
                /\ Behind(d.of, c, p) = IF e.kind = "call" THEN 0 ELSE e.n
                /\ \A n \in 1 .. MessageAt(s, c)'.n : \E q \in d.of :
                       Behind(d.of, c, q) = n /\ MessageAt(s, q)' = ResultOf(MessageAt(s, c)', n)
      <4>1. e = MessageAt(s, p)
        BY <3>1, <3>3
      <4>2. MessageAt(s, p)' = e
        BY <3>3
      <4>3. e.unit # NoUnit /\ ~Split(e.unit)
        BY <1>5, <3>3, <4>2
      <4>4. PICK c \in d.of :
                /\ c <= p /\ MessageAt(s, c).kind = "call" /\ MessageAt(s, c).unit = e.unit
                /\ Behind(d.of, c, p) = IF e.kind = "call" THEN 0 ELSE e.n
                /\ \A n \in 1 .. MessageAt(s, c).n : \E q \in d.of :
                       Behind(d.of, c, q) = n /\ MessageAt(s, q) = ResultOf(MessageAt(s, c), n)
        BY <3>2, <4>1, <4>3
      <4>5. QED
        BY <3>1, <4>2, <4>4
    <3>4. QED
      BY <3>3 DEF Whole
  <2>8. LastOfDraft(s, b)'
    BY <2>2, <2>5 DEF LastOfDraft
  <2>9. ASSUME NEW i \in hidden', i <= b
        PROVE  i \in d.was.unseen
    BY <1>0, <2>5, <2>6, <2>9
  <2>10. ASSUME Small, d.was.boundary = memory.boundary
         PROVE  d.was.covers \cup d.of = {i \in Visible' : i <= b} \ d.was.unseen
    <3>1. d.was.covers \cup d.of = {i \in Visible : i <= b} \ d.was.unseen
      BY <2>5, <2>10
    <3>2. ASSUME NEW i \in Visible', i <= b, i \notin d.was.unseen
          PROVE  i \in Visible
      BY <1>0, <2>5, <2>6, <3>2
    <3>3. QED
      BY <1>0, <3>1, <3>2
  <2>11. d.of \subseteq Visible' /\ turn'[s].draft = d
    BY <1>0, <2>2, <2>3, <2>4
  <2>12. QED
    BY <1>2, <2>4, <2>5, <2>7, <2>8, <2>9, <2>10, <2>11 DEF DraftFits
<1>7. ASSUME NEW b \in Ids', IsBoundary(b)'
      PROVE  IsBoundary(b) /\ b \in Visible
  <2>1. IsBoundary(b)
    BY <1>7 DEF IsBoundary, LastOfDraft
  <2>2. b # 0
    BY <1>0
  <2>3. QED
    BY <2>1, <2>2, BoundariesAreVisible
<1>8. RowsComeInUnits'
  <2>1. ASSUME NEW i \in Visible', InUnit(log'[i])
        PROVE  \E n \in 0 .. MaxCalls : \E r \in [0 .. n -> Visible'] :
                   /\ UnitRows(n, r)' /\ \E k \in 0 .. n : r[k] = i
                   /\ \A b \in Visible : IsBoundary(b) /\ r[0] <= b /\ b < r[n] => Interrupted(n, r)'
    <3>1. CASE i \in Visible
      <4>1. log'[i] = log[i]
        BY <1>0, <3>1
      <4>2. PICK n \in 0 .. MaxCalls : \E r \in [0 .. n -> Visible] :
            /\ UnitRows(n, r) /\ \E k \in 0 .. n : r[k] = i
            /\ \A b \in Ids : IsBoundary(b) /\ r[0] <= b /\ b < r[n] => Interrupted(n, r)
        BY <1>0, <2>1, <3>1, <4>1 DEF RowsComeInUnits
      <4>3. PICK r \in [0 .. n -> Visible] :
            /\ UnitRows(n, r) /\ \E k \in 0 .. n : r[k] = i
            /\ \A b \in Ids : IsBoundary(b) /\ r[0] <= b /\ b < r[n] => Interrupted(n, r)
        BY <4>2
      <4>4. n \in Nat /\ r \in [0 .. n -> Ids] /\ r \in [0 .. n -> Visible']
        BY <1>0
      <4>5. UnitRows(n, r)' /\ (Interrupted(n, r) => Interrupted(n, r)')
        BY <1>0, <4>3, <4>4, UnitRowsStay
      <4>6. UnitRows(n, r)' /\ \E k \in 0 .. n : r[k] = i
        BY <4>3, <4>5
      <4>7. \A b \in Visible : IsBoundary(b) /\ r[0] <= b /\ b < r[n] => Interrupted(n, r)'
        BY <1>0, <4>3, <4>5
      <4>8. QED
        BY <4>4, <4>6, <4>7
    <3>2. CASE i \notin Visible
      BY <2>1, <3>2
    <3>3. QED
      BY <3>1, <3>2
  <2>2. QED
    BY <1>7, <2>1 DEF RowsComeInUnits
<1>9. QED
  BY <1>1, <1>4, <1>6, <1>8 DEF ConversationInv

\* A question or a text belongs to no unit.
LEMMA TextFacts ==
    ASSUME NEW kind \in {"user", "text"}
    PROVE  Text(kind) \in Entry /\ ~InUnit(Text(kind)) /\ Text(kind).unit = NoUnit
<1>1. 0 \in 0 .. MaxCalls
  BY ConversationAssumption
<1>2. QED
  BY <1>1 DEF Text, Entry, InUnit

\* A turn that starts.
LEMMA StartsKeep ==
    ASSUME ConversationInv, NEW t \in Turn, TurnStarts(t)
    PROVE  ConversationInv'
<1> DEFINE o == turn[t]
<1>0. /\ turn \in [Turn -> TurnState] /\ o \in TurnState /\ PendingInUnits /\ LoopsFit(t)
      /\ o.at = "unused" /\ ConversationTypeOK /\ MaxCalls \in Nat
      /\ UNCHANGED <<hidden, memory, posts>> /\ lease' = t
      /\ \A s \in Turn : turn[s].wrote = <<>>
  BY TurnFacts DEF TurnStarts, ConversationInv, Writing
<1>1. PICK m \in Entry : m = Text("user") /\ ~InUnit(m)
  BY TextFacts
<1>2. log' = Append(log, m) /\ hidden' \subseteq hidden \cup {Len(log) + 1}
  BY <1>0, <1>1 DEF TurnStarts
<1>3. TurnState \subseteq TurnState' /\ Ids' = Ids \cup {Len(log) + 1} /\ Visible' \subseteq Ids'
      /\ log'[Len(log) + 1] = m
  BY <1>0, <1>1, <1>2, GrownFacts
<1>4. PICK x \in TurnState : x = [o EXCEPT !.at = "looping"]
  BY <1>0 DEF TurnState
<1>5. x.at = "looping" /\ x.wrote = <<>> /\ x.pending = o.pending /\ x.failed < MaxFailed
  BY <1>0, <1>4 DEF TurnState, LoopsFit
<1>6. turn' = [turn EXCEPT ![t] = x]
  BY <1>4 DEF TurnStarts, Goes
<1>7. turn'[t] = x /\ \A s \in Turn : s # t => turn'[s] = turn[s]
  BY <1>0, <1>6
<1>8. turn' \in [Turn -> TurnState']
  BY <1>0, <1>3, <1>6
<1>9. \A s \in Turn : turn'[s].at = "summarising" => turn'[s] = turn[s]
  BY <1>5, <1>7
<1>10. PendingInUnits'
  BY <1>0, <1>5, <1>7 DEF PendingInUnits
<1>11. ASSUME NEW s \in Turn
       PROVE  WritesAlone(s)' /\ LoopsFit(s)'
  <2>1. turn'[s].wrote = <<>>
    BY <1>0, <1>5, <1>7
  <2>2. LoopsFit(s)'
    BY <1>5, <1>7 DEF ConversationInv, LoopsFit
  <2>3. QED
    BY <2>1, <2>2 DEF WritesAlone
<1>12. ASSUME NEW i \in Visible' \ Visible
       PROVE  ~InUnit(log'[i])
  <2>1. i = Len(log) + 1
    BY <1>0, <1>3, <1>12 DEF Visible
  <2>2. QED
    BY <1>1, <1>3, <2>1
<1>13. posts' \in 0 .. MaxPosts /\ lease' \in Turn \cup {NoTurn} /\ memory' = memory
  BY <1>0 DEF ConversationTypeOK
<1>14. QED
  BY <1>2, <1>8, <1>9, <1>10, <1>11, <1>12, <1>13, ChatGrows

\* Somebody posts.
LEMMA PostsKeep ==
    ASSUME ConversationInv, Post
    PROVE  ConversationInv'
<1>0. /\ turn \in [Turn -> TurnState] /\ PendingInUnits /\ ConversationTypeOK
      /\ UNCHANGED <<hidden, memory, lease, turn>>
  BY DEF Post, ConversationInv, ConversationTypeOK, TurnState
<1>1. PICK m \in Entry : m = Text("text") /\ ~InUnit(m) /\ m.unit = NoUnit
  BY TextFacts
<1>2. log' = Append(log, m) /\ hidden' \subseteq hidden \cup {Len(log) + 1}
  BY <1>0, <1>1 DEF Post
<1>3. /\ TurnState \subseteq TurnState' /\ Ids' = Ids \cup {Len(log) + 1} /\ Visible' \subseteq Ids'
      /\ log'[Len(log) + 1] = m /\ Len(log) + 1 \notin Ids /\ Visible \subseteq Visible'
      /\ \A i \in Ids : log'[i] = log[i]
  BY <1>0, <1>1, <1>2, GrownFacts
<1>4. turn' \in [Turn -> TurnState']
  BY <1>0, <1>3
<1>5. PendingInUnits'
  BY <1>0 DEF PendingInUnits
<1>6. Len(log) + 1 \in Visible'
  BY <1>0, <1>3 DEF Visible, ConversationTypeOK
<1>7. ASSUME NEW s \in Turn
      PROVE  WritesAlone(s)' /\ LoopsFit(s)'
  <2>1. LoopsFit(s)'
    BY <1>0 DEF ConversationInv, LoopsFit
  <2>2. ASSUME turn[s].wrote # <<>>
        PROVE  /\ turn[s].at = "saving" /\ lease = s /\ Len(turn[s].wrote) < Len(turn[s].pending)
               /\ \A j \in DOMAIN turn[s].wrote :
                    turn[s].wrote[j] \in hidden /\ log[turn[s].wrote[j]] = turn[s].pending[j]
               /\ \A j, l \in DOMAIN turn[s].wrote : j < l => turn[s].wrote[j] < turn[s].wrote[l]
               /\ \A i \in Ids : i > turn[s].wrote[1] => Wrote(s, i) \/ (i \in Visible /\ log[i].unit = NoUnit)
    BY <2>2 DEF ConversationInv, WritesAlone
  <2>3. ASSUME turn[s].wrote # <<>>, NEW j \in DOMAIN turn[s].wrote
        PROVE  turn[s].wrote[j] \in hidden' /\ log'[turn[s].wrote[j]] = turn[s].pending[j]
    <3>1. turn[s].wrote[j] \in hidden /\ hidden \subseteq Ids
      BY <1>0, <2>2, <2>3 DEF ConversationTypeOK
    <3>2. QED
      BY <1>0, <1>3, <2>2, <2>3, <3>1
  <2>4. ASSUME turn[s].wrote # <<>>, NEW i \in Ids', i > turn[s].wrote[1]
        PROVE  Wrote(s, i)' \/ (i \in Visible' /\ log'[i].unit = NoUnit)
    <3>1. CASE i = Len(log) + 1
      BY <1>1, <1>3, <1>6, <3>1
    <3>2. CASE i \in Ids
      BY <1>0, <1>3, <2>2, <2>4, <3>2 DEF Wrote
    <3>3. QED
      BY <1>3, <3>1, <3>2
  <2>5. WritesAlone(s)'
    BY <1>0, <2>2, <2>3, <2>4 DEF WritesAlone
  <2>6. QED
    BY <2>1, <2>5
<1>8. ASSUME NEW i \in Visible' \ Visible
      PROVE  ~InUnit(log'[i])
  <2>1. i = Len(log) + 1
    BY <1>0, <1>3, <1>8 DEF Visible
  <2>2. QED
    BY <1>1, <1>3, <2>1
<1>9. posts' \in 0 .. MaxPosts /\ lease' \in Turn \cup {NoTurn} /\ memory' = memory
  <2>1. posts \in 0 .. MaxPosts /\ posts < MaxPosts /\ posts' = posts + 1 /\ MaxPosts \in Nat
    BY <1>0, ConversationAssumption DEF ConversationTypeOK, Post
  <2>2. QED
    BY <1>0, <2>1 DEF ConversationTypeOK
<1>10. QED
  BY <1>0, <1>2, <1>4, <1>5, <1>7, <1>8, <1>9, ChatGrows

\* What is known of a turn that writes.
LEMMA WritingFacts ==
    ASSUME ConversationInv, NEW t \in Turn, Saves(t)
    PROVE  /\ turn[t] \in TurnState /\ lease = t /\ turn[t].at = "saving"
           /\ turn[t].wrote \in Seq(Ids) /\ Len(turn[t].wrote) \in Nat
           /\ DOMAIN turn[t].wrote = 1 .. Len(turn[t].wrote)
           /\ turn[t].pending \in Seq(Entry) /\ Len(turn[t].pending) \in Nat
           /\ Len(turn[t].wrote) < Len(turn[t].pending)
           /\ turn[t].pending[Len(turn[t].wrote) + 1] \in Entry
           /\ \A j \in 1 .. Len(turn[t].wrote) : /\ turn[t].wrote[j] \in hidden /\ turn[t].wrote[j] \in Ids
                                                 /\ log[turn[t].wrote[j]] = turn[t].pending[j]
           /\ \A j, l \in 1 .. Len(turn[t].wrote) : j < l => turn[t].wrote[j] < turn[t].wrote[l]
           /\ turn[t].wrote # <<>> => \A i \in Ids : i > turn[t].wrote[1] =>
                      (\E j \in 1 .. Len(turn[t].wrote) : turn[t].wrote[j] = i) \/ (i \in Visible /\ log[i].unit = NoUnit)
           /\ \A s \in Turn : s # t => turn[s].wrote = <<>>
<1>1. /\ turn[t] \in TurnState /\ lease = t /\ turn[t].at = "saving" /\ turn[t].pending # <<>>
      /\ WritesAlone(t) /\ \A s \in Turn : WritesAlone(s)
  BY TurnFacts DEF Saves, Refused
<1>2. PICK w \in Seq(Ids) : w = turn[t].wrote
  BY <1>1 DEF TurnState
<1>3. PICK p \in Seq(Entry) : p = turn[t].pending
  BY <1>1 DEF TurnState
<1>4. Len(w) \in Nat /\ DOMAIN w = 1 .. Len(w) /\ Len(p) \in Nat /\ \A j \in 1 .. Len(w) : w[j] \in Ids
  BY <1>2, <1>3
<1>5. Len(w) < Len(p)
  <2>1. CASE w = <<>>
    BY <1>1, <1>3, <2>1
  <2>2. CASE w # <<>>
    BY <1>1, <1>2, <1>3, <2>2 DEF WritesAlone
  <2>3. QED
    BY <2>1, <2>2
<1>6. p[Len(w) + 1] \in Entry
  <2>1. Len(w) + 1 \in 1 .. Len(p)
    BY <1>4, <1>5
  <2>2. QED
    BY <1>3, <2>1
<1>7. \A s \in Turn : s # t => turn[s].wrote = <<>>
  BY <1>1 DEF WritesAlone
<1>8. /\ \A j \in 1 .. Len(w) : w[j] \in hidden /\ log[w[j]] = p[j]
      /\ \A j, l \in 1 .. Len(w) : j < l => w[j] < w[l]
      /\ w # <<>> => \A i \in Ids : i > w[1] =>
                      (\E j \in 1 .. Len(w) : w[j] = i) \/ (i \in Visible /\ log[i].unit = NoUnit)
  <2>1. CASE w = <<>>
    BY <1>2, <2>1
  <2>2. CASE w # <<>>
    BY <1>1, <1>2, <1>3, <1>4, <2>2 DEF WritesAlone, Wrote
  <2>3. QED
    BY <2>1, <2>2
<1>9. QED
  BY <1>1, <1>2, <1>3, <1>4, <1>5, <1>6, <1>7, <1>8

\* One insert more, and others to come.
LEMMA InsertsKeep ==
    ASSUME ConversationInv, NEW t \in Turn, Saves(t), Len(turn[t].wrote) + 1 # Len(turn[t].pending)
    PROVE  ConversationInv'
<1> DEFINE o == turn[t]
           N == Len(log)
<1>0. /\ turn \in [Turn -> TurnState] /\ PendingInUnits /\ ConversationTypeOK /\ o \in TurnState
      /\ hidden' = hidden \cup {N + 1} /\ UNCHANGED <<memory, lease, posts>>
      /\ log' = Append(log, o.pending[Len(o.wrote) + 1])
      /\ turn' = [turn EXCEPT ![t].wrote = Append(o.wrote, N + 1)]
  BY TurnFacts DEF Saves, ConversationInv
<1>w. PICK w \in Seq(Ids) : w = o.wrote
  BY <1>0 DEF TurnState
<1>p. PICK p \in Seq(Entry) : p = o.pending
  BY <1>0 DEF TurnState
<1>1. /\ lease = t /\ o.at = "saving"
      /\ Len(w) \in Nat /\ DOMAIN w = 1 .. Len(w) /\ Len(p) \in Nat
      /\ Len(w) < Len(p) /\ p[Len(w) + 1] \in Entry
      /\ \A j \in 1 .. Len(w) : w[j] \in hidden /\ w[j] \in Ids /\ log[w[j]] = p[j]
      /\ \A j, l \in 1 .. Len(w) : j < l => w[j] < w[l]
      /\ w # <<>> => \A i \in Ids : i > w[1] =>
                      (\E j \in 1 .. Len(w) : w[j] = i) \/ (i \in Visible /\ log[i].unit = NoUnit)
      /\ \A s \in Turn : s # t => turn[s].wrote = <<>>
  BY <1>w, <1>p, WritingFacts
<1>2. PICK m \in Entry : m = p[Len(w) + 1]
  BY <1>1
<1>3. log' = Append(log, m) /\ hidden' \subseteq hidden \cup {N + 1}
  BY <1>0, <1>2, <1>w, <1>p
<1>4. /\ TurnState \subseteq TurnState' /\ Ids = 1 .. N /\ N \in Nat
      /\ Ids' = Ids \cup {N + 1} /\ Visible' \subseteq Ids' /\ N + 1 \in Ids' /\ Ids \subseteq Ids'
      /\ log'[N + 1] = m /\ N + 1 \notin Ids /\ Visible \subseteq Visible'
      /\ \A i \in Ids : log'[i] = log[i]
  BY <1>0, <1>2, <1>3, GrownFacts
<1>5. /\ Append(w, N + 1) \in Seq(Ids') /\ Len(Append(w, N + 1)) = Len(w) + 1
      /\ \A j \in 1 .. Len(w) : Append(w, N + 1)[j] = w[j]
      /\ Append(w, N + 1)[Len(w) + 1] = N + 1
  <2>1. w \in Seq(Ids')
    <3>1. w \in [1 .. Len(w) -> Ids']
      BY <1>1, <1>4
    <3>2. Len(w) \in Nat
      BY <1>1
    <3>3. QED
      BY <3>1, <3>2, SeqDef
  <2>2. QED
    BY <1>4, <2>1
<1>6. PICK v \in Seq(Ids') : v = Append(w, N + 1)
  BY <1>5
<1>7. /\ Len(v) = Len(w) + 1 /\ DOMAIN v = 1 .. Len(w) + 1
      /\ \A j \in 1 .. Len(w) : v[j] = w[j]
      /\ v[Len(w) + 1] = N + 1
  BY <1>1, <1>5, <1>6
<1>8. PICK x \in TurnState' : x = [o EXCEPT !.wrote = v]
  <2>1. o \in TurnState'
    BY <1>0, <1>4
  <2>2. QED
    BY <2>1 DEF TurnState
<1>9. x.at = "saving" /\ x.wrote = v /\ x.pending = p
  BY <1>0, <1>1, <1>8, <1>p DEF TurnState
<1>10. turn' = [turn EXCEPT ![t] = x]
  BY <1>0, <1>6, <1>8, <1>w
<1>11. turn'[t] = x /\ \A s \in Turn : s # t => turn'[s] = turn[s]
  BY <1>0, <1>10
<1>12. turn' \in [Turn -> TurnState']
  BY <1>0, <1>4, <1>10
<1>13. PendingInUnits'
  BY <1>0, <1>9, <1>11, <1>p DEF PendingInUnits
<1>14. ASSUME NEW s \in Turn, s # t
       PROVE  WritesAlone(s)' /\ LoopsFit(s)'
  <2>1. LoopsFit(s)'
    BY <1>11, <1>14 DEF ConversationInv, LoopsFit
  <2>2. WritesAlone(s)'
    BY <1>1, <1>11, <1>14 DEF WritesAlone
  <2>3. QED
    BY <2>1, <2>2
<1>15. LoopsFit(t)'
  BY <1>9, <1>11 DEF LoopsFit
<1>16. Visible' = Visible
  BY <1>0, <1>4 DEF Visible
<1>17. WritesAlone(t)'
  <2>1. Len(v) < Len(p)
    BY <1>0, <1>1, <1>7, <1>w, <1>p
  <2>2. ASSUME NEW j \in DOMAIN v
        PROVE  v[j] \in hidden' /\ log'[v[j]] = p[j]
    <3>1. CASE j = Len(w) + 1
      BY <1>0, <1>2, <1>4, <1>7, <3>1
    <3>2. CASE j # Len(w) + 1
      <4>1. j \in 1 .. Len(w)
        BY <1>1, <1>7, <2>2, <3>2
      <4>2. QED
        BY <1>0, <1>1, <1>4, <1>7, <4>1
    <3>3. QED
      BY <3>1, <3>2
  <2>3. ASSUME NEW j \in DOMAIN v, NEW l \in DOMAIN v, j < l
        PROVE  v[j] < v[l]
    <3>1. j \in 1 .. Len(w)
      BY <1>1, <1>7, <2>3
    <3>2. CASE l = Len(w) + 1
      <4>1. w[j] \in 1 .. N
        BY <1>1, <1>4, <3>1
      <4>2. QED
        BY <1>4, <1>7, <3>1, <3>2, <4>1
    <3>3. CASE l # Len(w) + 1
      <4>1. l \in 1 .. Len(w)
        BY <1>1, <1>7, <2>3, <3>3
      <4>2. QED
        BY <1>1, <1>7, <2>3, <3>1, <4>1
    <3>4. QED
      BY <3>2, <3>3
  <2>4. ASSUME NEW i \in Ids', i > v[1]
        PROVE  (\E j \in DOMAIN v : v[j] = i) \/ (i \in Visible' /\ log'[i].unit = NoUnit)
    <3>1. CASE i = N + 1
      BY <1>1, <1>7, <3>1
    <3>2. CASE i # N + 1
      <4>1. i \in Ids /\ i < N + 1
        BY <1>4, <2>4, <3>2
      <4>2. Len(w) # 0
        <5>1. ASSUME Len(w) = 0
              PROVE  FALSE
          <6>1. v[1] = N + 1
            BY <1>7, <5>1
          <6>2. i \in Int
            BY <1>4, <4>1
          <6>3. QED
            BY <1>4, <2>4, <4>1, <6>1, <6>2
        <5>2. QED
          BY <5>1
      <4>3. w # <<>> /\ 1 \in 1 .. Len(w) /\ v[1] = w[1]
        BY <1>1, <1>7, <4>2
      <4>4. (\E j \in 1 .. Len(w) : w[j] = i) \/ (i \in Visible /\ log[i].unit = NoUnit)
        BY <1>1, <2>4, <4>1, <4>3
      <4>5. \A j \in 1 .. Len(w) : j \in DOMAIN v /\ v[j] = w[j]
        BY <1>1, <1>7
      <4>6. QED
        BY <1>4, <1>16, <4>1, <4>4, <4>5
    <3>3. QED
      BY <3>1, <3>2
  <2>5. turn'[t].at = "saving" /\ turn'[t].wrote = v /\ turn'[t].pending = p /\ lease' = t
    BY <1>0, <1>1, <1>9, <1>11
  <2>6. \A i \in Ids' : i > v[1] => Wrote(t, i)' \/ (i \in Visible' /\ log'[i].unit = NoUnit)
    BY <2>4, <2>5 DEF Wrote
  <2>7. QED
    BY <2>1, <2>2, <2>3, <2>5, <2>6 DEF WritesAlone
<1>18. posts' \in 0 .. MaxPosts /\ lease' \in Turn \cup {NoTurn} /\ memory' = memory
  BY <1>0 DEF ConversationTypeOK
<1>19. \A s \in Turn : turn'[s].at = "summarising" => turn'[s] = turn[s]
  BY <1>9, <1>11
<1>20. \A s \in Turn : WritesAlone(s)' /\ LoopsFit(s)'
  BY <1>14, <1>15, <1>17
<1>21. QED
  BY <1>3, <1>12, <1>13, <1>16, <1>18, <1>19, <1>20, ChatGrows

\* The last insert: the rows of a turn appear, with what others posted between.
LEMMA CommitsKeep ==
    ASSUME ConversationInv, NEW t \in Turn, Saves(t), Len(turn[t].wrote) + 1 = Len(turn[t].pending)
    PROVE  ConversationInv'
<1> DEFINE o == turn[t]
           N == Len(log)
<1>0. /\ turn \in [Turn -> TurnState] /\ PendingInUnits /\ ConversationTypeOK /\ o \in TurnState
      /\ hidden' = {i \in hidden : \A j \in DOMAIN o.wrote : o.wrote[j] # i}
      /\ UNCHANGED <<memory, posts>> /\ lease' = NoTurn
      /\ log' = Append(log, o.pending[Len(o.wrote) + 1])
      /\ turn' = [turn EXCEPT ![t] = [Unused EXCEPT !.at = "ended"]]
      /\ MaxCalls \in Nat
  BY TurnFacts DEF Saves, ConversationInv, Ended
<1>w. PICK v \in Seq(Ids) : v = o.wrote
  BY <1>0 DEF TurnState
<1>p. PICK p \in Seq(Entry) : p = o.pending
  BY <1>0 DEF TurnState
<1>1. /\ Len(v) \in Nat /\ DOMAIN v = 1 .. Len(v) /\ Len(p) \in Nat
      /\ Len(p) = Len(v) + 1 /\ p[Len(v) + 1] \in Entry
      /\ \A j \in 1 .. Len(v) : v[j] \in hidden /\ v[j] \in Ids /\ log[v[j]] = p[j]
      /\ \A j, l \in 1 .. Len(v) : j < l => v[j] < v[l]
      /\ v # <<>> => \A i \in Ids : i > v[1] =>
                      (\E j \in 1 .. Len(v) : v[j] = i) \/ (i \in Visible /\ log[i].unit = NoUnit)
      /\ \A s \in Turn : s # t => turn[s].wrote = <<>>
  BY <1>w, <1>p, WritingFacts
<1>2. PICK m \in Entry : m = p[Len(v) + 1]
  BY <1>1
<1>3. log' = Append(log, m) /\ hidden' \subseteq hidden \cup {N + 1}
      /\ hidden' = {i \in hidden : \A j \in 1 .. Len(v) : v[j] # i}
  BY <1>0, <1>1, <1>2, <1>w, <1>p
<1>4. /\ TurnState \subseteq TurnState' /\ Ids = 1 .. N /\ N \in Nat
      /\ Ids' = Ids \cup {N + 1} /\ Visible' \subseteq Ids' /\ Ids \subseteq Ids'
      /\ log'[N + 1] = m /\ N + 1 \notin Ids /\ Visible \subseteq Visible' /\ Visible \subseteq Ids
      /\ \A i \in Ids : log'[i] = log[i]
      /\ hidden \subseteq Ids
  BY <1>0, <1>2, <1>3, GrownFacts DEF ConversationTypeOK, Visible
\* w: where the messages in memory are now.
<1>5. PICK w \in [1 .. Len(p) -> Ids'] :
         /\ \A j \in 1 .. Len(v) : w[j] = v[j]
         /\ w[Len(p)] = N + 1
  <2>1. [j \in 1 .. Len(p) |-> IF j = Len(p) THEN N + 1 ELSE v[j]] \in [1 .. Len(p) -> Ids']
    <3>1. \A j \in 1 .. Len(p) : j # Len(p) => j \in 1 .. Len(v)
      BY <1>1
    <3>2. QED
      BY <1>1, <1>4, <3>1
  <2>2. \A j \in 1 .. Len(v) : j \in 1 .. Len(p) /\ j # Len(p)
    BY <1>1
  <2>3. Len(p) \in 1 .. Len(p)
    BY <1>1
  <2>4. QED
    BY <2>1, <2>2, <2>3
<1>6. \A j \in 1 .. Len(p) : w[j] \in Visible' /\ w[j] \notin Visible /\ log'[w[j]] = p[j]
  <2>1. ASSUME NEW j \in 1 .. Len(p)
        PROVE  w[j] \in Visible' /\ w[j] \notin Visible /\ log'[w[j]] = p[j]
    <3>1. CASE j = Len(p)
      <4>1. N + 1 \notin hidden' /\ N + 1 \in Ids' /\ N + 1 \notin Ids
        BY <1>3, <1>4
      <4>2. QED
        BY <1>1, <1>2, <1>4, <1>5, <3>1, <4>1 DEF Visible
    <3>2. CASE j # Len(p)
      <4>1. j \in 1 .. Len(v)
        BY <1>1, <3>2
      <4>2. w[j] = v[j] /\ v[j] \in hidden /\ v[j] \in Ids /\ log[v[j]] = p[j] /\ v[j] \notin hidden'
        BY <1>1, <1>3, <1>5, <4>1
      <4>3. QED
        BY <1>4, <4>2 DEF Visible
    <3>3. QED
      BY <3>1, <3>2
  <2>2. QED
    BY <2>1
<1>7. \A j, l \in 1 .. Len(p) : j < l => w[j] < w[l]
  <2>1. ASSUME NEW j \in 1 .. Len(p), NEW l \in 1 .. Len(p), j < l
        PROVE  w[j] < w[l]
    <3>1. j \in 1 .. Len(v) /\ w[j] = v[j] /\ v[j] \in Ids
      BY <1>1, <1>5, <2>1
    <3>2. CASE l = Len(p)
      BY <1>4, <1>5, <3>1, <3>2
    <3>3. CASE l # Len(p)
      <4>1. l \in 1 .. Len(v)
        BY <1>1, <2>1, <3>3
      <4>2. QED
        BY <1>1, <1>5, <2>1, <3>1, <4>1
    <3>4. QED
      BY <3>2, <3>3
  <2>2. QED
    BY <2>1
<1>8. ASSUME NEW i \in Ids, i > w[1]
      PROVE  (\E j \in 1 .. Len(p) : w[j] = i) \/ (i \in Visible /\ log[i].unit = NoUnit)
  <2>1. CASE Len(v) = 0
    <3>1. w[1] = N + 1
      BY <1>1, <1>5, <2>1
    <3>2. QED
      BY <1>4, <1>8, <3>1
  <2>2. CASE Len(v) # 0
    <3>1. 1 \in 1 .. Len(v) /\ v # <<>> /\ w[1] = v[1]
      BY <1>1, <1>5, <2>2
    <3>2. (\E j \in 1 .. Len(v) : v[j] = i) \/ (i \in Visible /\ log[i].unit = NoUnit)
      BY <1>1, <1>8, <3>1
    <3>3. \A j \in 1 .. Len(v) : j \in 1 .. Len(p) /\ w[j] = v[j]
      BY <1>1, <1>5
    <3>4. QED
      BY <3>2, <3>3
  <2>3. QED
    BY <2>1, <2>2
<1>9. ASSUME NEW i \in Visible' \ Visible, InUnit(log'[i])
      PROVE  \E n \in 0 .. MaxCalls : \E r \in [0 .. n -> Visible'] :
                   /\ UnitRows(n, r)' /\ \E k \in 0 .. n : r[k] = i
                   /\ \A b \in Visible : IsBoundary(b) /\ r[0] <= b /\ b < r[n] => Interrupted(n, r)'
  <2>1. PICK j \in 1 .. Len(p) : w[j] = i
    <3>1. CASE i = N + 1
      <4>1. Len(p) \in 1 .. Len(p)
        BY <1>1
      <4>2. QED
        BY <1>5, <3>1, <4>1
    <3>2. CASE i # N + 1
      <4>1. i \in hidden /\ i \notin hidden'
        BY <1>4, <1>9, <3>2 DEF Visible
      <4>2. PICK j \in 1 .. Len(v) : v[j] = i
        BY <1>3, <4>1
      <4>3. j \in 1 .. Len(p) /\ w[j] = i
        BY <1>1, <1>5, <4>2
      <4>4. QED
        BY <4>3
    <3>3. QED
      BY <3>1, <3>2
  <2>2. InUnit(p[j])
    BY <1>6, <1>9, <2>1
  <2>3. InUnits(p)
    BY <1>0, <1>p DEF PendingInUnits
  <2>4. PICK c \in 1 .. j, n \in 0 .. MaxCalls : j <= c + n /\ UnitAt(p, c, n) /\ p[c].unit # NoUnit
    BY <2>1, <2>2, <2>3 DEF InUnits
  <2>5. /\ n \in Nat /\ c \in 1 .. Len(p) /\ c + n \in 1 .. Len(p) /\ j - c \in 0 .. n
        /\ \A k \in 0 .. n : c + k \in 1 .. Len(p)
    BY <1>0, <1>1, <2>1, <2>4, SMTT(30) DEF UnitAt
  <2>6. PICK r \in [0 .. n -> Visible'] : \A k \in 0 .. n : r[k] = w[c + k]
    <3>1. [k \in 0 .. n |-> w[c + k]] \in [0 .. n -> Visible']
      BY <1>6, <2>5
    <3>2. QED
      BY <3>1
  <2>7. /\ r[0] = w[c] /\ r[n] = w[c + n] /\ \E k \in 0 .. n : r[k] = i
    <3>1. 0 \in 0 .. n /\ n \in 0 .. n /\ c + 0 = c /\ c + (j - c) = j
      BY <2>5
    <3>2. QED
      BY <2>1, <2>5, <2>6, <3>1
  <2>8. \A x \in Visible' : x \in Int
    BY <1>4
  <2>9. w[c] \in Int /\ w[c + n] \in Int /\ w[1] \in Int /\ (w[c] = w[1] \/ w[1] < w[c])
    <3>1. 1 \in 1 .. Len(p)
      BY <1>1
    <3>2. \A k \in 1 .. Len(p) : w[k] \in Int
      BY <1>6, <2>8
    <3>3. QED
      BY <1>7, <2>5, <3>1, <3>2
  <2>10. ASSUME NEW x \in Ids', r[0] < x, x < r[n]
         PROVE  (\E k \in 0 .. n : x = r[k]) \/ (x \in Visible /\ log[x].unit = NoUnit)
    <3>1. x \in Ids /\ x \in Int
      <4>1. w[c + n] \in Ids'
        BY <1>5, <2>5
      <4>2. QED
        BY <1>4, <2>7, <2>9, <2>10, <4>1, SMTT(30)
    <3>2. x > w[1]
      BY <2>7, <2>9, <2>10, <3>1
    <3>3. ASSUME NEW l \in 1 .. Len(p), w[l] = x
          PROVE  \E k \in 0 .. n : x = r[k]
      <4>1. c < l
        <5>1. CASE l = c
          BY <2>7, <2>9, <2>10, <3>3, <5>1
        <5>2. CASE l < c
          <6>1. w[l] < w[c]
            BY <1>7, <2>5, <5>2
          <6>2. QED
            BY <2>7, <2>9, <2>10, <3>1, <3>3, <6>1
        <5>3. QED
          BY <2>5, <5>1, <5>2
      <4>2. l < c + n
        <5>1. CASE l = c + n
          BY <2>7, <2>9, <2>10, <3>3, <5>1
        <5>2. CASE l > c + n
          <6>1. w[c + n] < w[l]
            BY <1>7, <2>5, <5>2
          <6>2. QED
            BY <2>7, <2>9, <2>10, <3>1, <3>3, <6>1
        <5>3. QED
          BY <2>5, <5>1, <5>2
      <4>3. l - c \in 0 .. n /\ c + (l - c) = l
        BY <2>5, <4>1, <4>2
      <4>4. QED
        BY <2>6, <3>3, <4>3
    <3>4. QED
      BY <1>8, <3>1, <3>2, <3>3
  <2>11. UnitRows(n, r)'
    <3>1. log'[r[0]] = p[c] /\ p[c].kind = "call" /\ p[c].n = n /\ p[c].unit # NoUnit
      BY <1>6, <2>4, <2>5, <2>7 DEF UnitAt
    <3>2. ASSUME NEW k \in 1 .. n
          PROVE  log'[r[k]] = ResultOf(log'[r[0]], k)
      <4>1. k \in 0 .. n /\ c + k \in 1 .. Len(p) /\ r[k] = w[c + k]
        BY <2>5, <2>6
      <4>2. QED
        BY <1>6, <2>4, <3>1, <4>1 DEF UnitAt
    <3>3. ASSUME NEW k \in 0 .. n, NEW l \in 0 .. n, k < l
          PROVE  r[k] < r[l]
      <4>1. c + k < c + l
        BY <2>5, <3>3
      <4>2. QED
        BY <1>7, <2>5, <2>6, <4>1
    <3>4. ASSUME NEW x \in Ids', r[0] < x, x < r[n]
          PROVE  (\E k \in 0 .. n : x = r[k]) \/ (x \in Visible' /\ log'[x].unit = NoUnit)
      BY <1>4, <2>10, <3>4
    <3>5. QED
      BY <3>1, <3>2, <3>3, <3>4 DEF UnitRows
  <2>12. ASSUME NEW b \in Visible, r[0] <= b, b < r[n]
         PROVE  Interrupted(n, r)'
    <3>1. b \in Visible' /\ b \in Ids /\ b \in Ids' /\ log'[b] = log[b]
      BY <1>4
    <3>2. \A k \in 0 .. n : r[k] # b
      BY <1>6, <2>5, <2>6
    <3>3. r[0] < b
      <4>1. r[0] # b /\ r[0] \in Int /\ b \in Int
        BY <1>4, <2>5, <2>7, <2>9, <3>1, <3>2
      <4>2. QED
        BY <2>12, <4>1
    <3>4. log[b].unit = NoUnit
      BY <2>10, <2>12, <3>1, <3>2, <3>3
    <3>5. QED
      BY <2>12, <3>1, <3>3, <3>4 DEF Interrupted
  <2>13. QED
    BY <2>7, <2>11, <2>12
<1>10. PICK x \in TurnState : x = [Unused EXCEPT !.at = "ended"]
  BY EndedState
<1>11. x.at = "ended" /\ x.wrote = <<>> /\ InUnits(x.pending)
  BY <1>10, EndedState
<1>12. turn' = [turn EXCEPT ![t] = x]
  BY <1>0, <1>10
<1>13. turn'[t] = x /\ \A s \in Turn : s # t => turn'[s] = turn[s]
  BY <1>0, <1>12
<1>14. turn' \in [Turn -> TurnState']
  BY <1>0, <1>4, <1>12
<1>15. PendingInUnits'
  BY <1>0, <1>11, <1>13 DEF PendingInUnits
<1>16. ASSUME NEW s \in Turn
       PROVE  WritesAlone(s)' /\ LoopsFit(s)'
  <2>1. turn'[s].wrote = <<>>
    BY <1>1, <1>11, <1>13
  <2>2. LoopsFit(s)'
    BY <1>11, <1>13 DEF ConversationInv, LoopsFit
  <2>3. QED
    BY <2>1, <2>2 DEF WritesAlone
<1>17. posts' \in 0 .. MaxPosts /\ lease' \in Turn \cup {NoTurn} /\ memory' = memory
  BY <1>0 DEF ConversationTypeOK
<1>18. \A s \in Turn : turn'[s].at = "summarising" => turn'[s] = turn[s]
  BY <1>11, <1>13
<1>19. QED
  BY <1>3, <1>9, <1>14, <1>15, <1>16, <1>17, <1>18, ChatGrows

-----------------------------------------------------------------------------
(* The theorems. *)

\* The invariant holds at first.
LEMMA ConversationInvInit == ConversationInit => ConversationInv
<1> SUFFICES ASSUME ConversationInit
             PROVE  ConversationInv
  OBVIOUS
<1>0. Ids = {} /\ Visible = {} /\ 0 \in 0 .. MaxSteps /\ 0 \in 0 .. MaxFailed /\ 0 \in 0 .. MaxPosts
      /\ Recent + Candidates >= 0 /\ MaxFailed > 0
  BY ConversationAssumption DEF ConversationInit, Ids, Visible
<1>1. NoMemory \in Memory /\ memory = NoMemory
  BY DEF ConversationInit, NoMemory, Memory
<1>2. NoDraft \in [of : SUBSET Ids, was : Memory]
  BY <1>1 DEF NoDraft
<1> HIDE DEF NoDraft
<1>3. Unused = [at |-> "unused", pending |-> <<>>, steps |-> 0, failed |-> 0, wrote |-> <<>>, draft |-> NoDraft]
  BY DEF Unused
<1>4. <<>> \in Seq(Entry) /\ <<>> \in Seq(Ids)
  OBVIOUS
<1>5. Unused \in TurnState
  BY <1>0, <1>2, <1>3, <1>4 DEF TurnState
<1>6. ConversationTypeOK
  BY <1>0, <1>1, <1>4, <1>5 DEF ConversationInit, ConversationTypeOK, TurnState
<1>7. RowsComeInUnits
  BY <1>0 DEF RowsComeInUnits
<1>8. PendingInUnits
  BY <1>3 DEF ConversationInit, PendingInUnits, InUnits
<1>9. MemoryFits
  BY <1>0, <1>1 DEF MemoryFits, NothingSkipped, ConversationInit, NoMemory
<1>10. ASSUME NEW t \in Turn
       PROVE  WritesAlone(t) /\ LoopsFit(t) /\ DraftFits(t)
  <2>1. turn[t] = Unused
    BY DEF ConversationInit
  <2>2. QED
    BY <1>0, <1>3, <2>1 DEF WritesAlone, LoopsFit, DraftFits
<1>11. QED
  BY <1>6, <1>7, <1>8, <1>9, <1>10 DEF ConversationInv

\* It holds when nothing changes.
LEMMA ConversationInvStutter == ConversationInv /\ UNCHANGED conversationVars => ConversationInv'
<1> SUFFICES ASSUME ConversationInv, UNCHANGED conversationVars
             PROVE  ConversationInv'
  OBVIOUS
<1>0. UNCHANGED <<log, hidden, memory, lease, turn, posts>>
  BY DEF conversationVars
<1>1. Ids' = Ids /\ Visible' = Visible /\ Memory' = Memory
  BY <1>0 DEF Ids, Visible, Memory
<1>2. ConversationTypeOK'
  BY <1>0, <1>1 DEF ConversationInv, ConversationTypeOK
<1>3. PendingInUnits' /\ MemoryFits'
  BY <1>0, <1>1 DEF ConversationInv, PendingInUnits, MemoryFits, NothingSkipped, Small
<1>a. RowsComeInUnits'
  <2>1. \A n, r : UnitRows(n, r)' = UnitRows(n, r) /\ Interrupted(n, r)' = Interrupted(n, r)
    BY <1>0, <1>1 DEF UnitRows, Interrupted
  <2>2. \A b : IsBoundary(b)' = IsBoundary(b)
    BY <1>0 DEF IsBoundary, LastOfDraft
  <2>3. RowsComeInUnits /\ log' = log
    BY <1>0, SMTT(30) DEF ConversationInv
  <2>4. QED
    BY <1>1, <2>1, <2>2, <2>3 DEF RowsComeInUnits
<1>4. ASSUME NEW t \in Turn
      PROVE  WritesAlone(t)' /\ LoopsFit(t)' /\ DraftFits(t)'
  BY <1>0, <1>1 DEF ConversationInv, WritesAlone, Wrote, LoopsFit, DraftFits, LastOfDraft, Small,
                    Whole, Split, MessageAt
<1>5. QED
  BY <1>2, <1>3, <1>a, <1>4 DEF ConversationInv

\* Every step keeps it.
LEMMA ConversationInvStep == ConversationInv /\ [ConversationNext]_conversationVars => ConversationInv'
<1> SUFFICES ASSUME ConversationInv, [ConversationNext]_conversationVars
             PROVE  ConversationInv'
  OBVIOUS
<1>1. CASE UNCHANGED conversationVars
  BY <1>1, ConversationInvStutter
<1>2. CASE ConversationNext
  <2>1. ASSUME NEW t \in Turn, TurnStarts(t)
        PROVE  ConversationInv'
    BY <2>1, StartsKeep
  <2>2. ASSUME NEW t \in Turn, OutOfSteps(t) \/ StepStarts(t) \/ CompactionFails(t) \/ GivesUp(t)
        PROVE  ConversationInv'
    BY <2>2, LoopStepsKeep
  <2>3. ASSUME NEW t \in Turn, CompactionReads(t)
        PROVE  ConversationInv'
    BY <2>3, ReadsKeep
  <2>4. ASSUME NEW t \in Turn, CompactionWrites(t)
        PROVE  ConversationInv'
    BY <2>4, WritesSummaryKeeps
  <2>5. ASSUME NEW t \in Turn, GivesAnswer(t)
        PROVE  ConversationInv'
    BY <2>5, AnswersKeep
  <2>6. ASSUME NEW t \in Turn, TurnFails(t) \/ SavesNothing(t)
        PROVE  ConversationInv'
    BY <2>6, EndingsKeep
  <2>7. ASSUME NEW t \in Turn, NEW n \in 1 .. MaxCalls, NEW how \in {"ok", "failed", "approval"},
               CallsTools(t, n, how)
        PROVE  ConversationInv'
    BY <2>7, CallsKeep
  <2>8. ASSUME NEW t \in Turn, Saves(t)
        PROVE  ConversationInv'
    BY <2>8, InsertsKeep, CommitsKeep
  <2>9. CASE Post
    BY <2>9, PostsKeep
  <2>10. QED
    BY <1>2, <2>1, <2>2, <2>3, <2>4, <2>5, <2>6, <2>7, <2>8, <2>9 DEF ConversationNext
<1>3. QED
  BY <1>1, <1>2

\* The inductive invariant holds for every turn, window and chat.
THEOREM ConversationInvariant == ConversationSpec => []ConversationInv
BY ConversationInvInit, ConversationInvStep, PTL DEF ConversationSpec

\* What the model is sent is legal, and nothing is missing from the summary,
\* whichever turns write, post and summarise at the same time, for any number
\* of turns, any windows and bounds and a chat of any length (ModelSeesWholeChat).
THEOREM ChatsAreSeenWhole == ConversationSpec => []ModelSeesWholeChat
<1>1. ConversationInv => ModelSeesWholeChat
  <2> SUFFICES ASSUME ConversationInv
               PROVE  ModelSeesWholeChat
    OBVIOUS
  <2>1. \A t \in Turn : Whole(t, History(t))
    BY HistoriesAreWhole
  <2>2. \A t \in Turn : turn[t].at = "summarising" => Whole(t, turn[t].draft.of)
    BY DEF ConversationInv, DraftFits
  <2>3. Len(log) <= Recent + Candidates => NothingSkipped
    BY DEF ConversationInv, MemoryFits, Small
  <2>4. QED
    BY <2>1, <2>2, <2>3 DEF ModelSeesWholeChat
<1>2. QED
  BY <1>1, ConversationInvariant, PTL
=============================================================================
