------------------------ MODULE OrphanDeploymentsProofs ------------------------
(***************************************************************************)
(* What the orphan errand promises, proved for any plans, instances and    *)
(* page size: it misses no orphan, and reports no instance that stays      *)
(* where it is, in a list that is read page by page while it changes.      *)
(***************************************************************************)
EXTENDS OrphanDeployments, SequenceTheorems, TLAPS

(***************************************************************************)
(* The inductive invariant.                                                *)
(***************************************************************************)

\* A deployment without a record all along is still there, and no list the errand has
\* read names it; when the errand is done, it is in the report.
ForgottenStay ==
  /\ forgotten \subseteq deployments
  /\ forgotten \cap Recorded = {} /\ forgotten \cap instanceIDs = {}
  /\ OrphansAreReported

\* The place of a record the errand has still to read: its plan is to be listed, and if that
\* is the plan it lists now, the record is behind the pages that were read.
StillToRead(p, k) ==
  /\ errand = "list" /\ p \in unread
  /\ page # NoPage /\ page[1] = p => k > (page[2] - 1) * PageSize

\* An instance that stays where it is has been read or is still to be, unless its plan lost an
\* instance between two pages.
NoneSkipped ==
  \A p \in Plans : \A k \in DOMAIN records[p] :
    records[p][k] \in throughout =>
      records[p][k] \in instanceIDs \/ p \in shrunk \/ StillToRead(p, k)

\* The errand has read nothing before it begins, and lists no plan when it is not listing.
\* Who has been recorded all along still is, and a record is never made twice.
Phases ==
  /\ errand = "idle" => instanceIDs = {}
  /\ errand # "list" => page = NoPage /\ unread = {}
  /\ throughout \subseteq Recorded /\ Recorded \subseteq recordedOnce
  /\ errand = "done" => orphans \cap Foreign = {} /\ orphans \cap instanceIDs = {}

IInv == TypeOK /\ ForgottenStay /\ NoneSkipped /\ Phases
-----------------------------------------------------------------------------
(***************************************************************************)
(* The lists of Cloud Foundry.                                             *)
(***************************************************************************)

\* Taking an element from a list moves those behind it forward by one place.
LEMMA RemoveAtPlaces ==
  ASSUME NEW S, NEW s \in Seq(S), NEW k \in 1..Len(s)
  PROVE  /\ RemoveAt(s, k) \in Seq(S)
         /\ Len(RemoveAt(s, k)) = Len(s) - 1
         /\ \A j \in 1..Len(s) - 1 : RemoveAt(s, k)[j] = IF j < k THEN s[j] ELSE s[j + 1]
<1>1. PICK front : front = SubSeq(s, 1, k - 1)
  OBVIOUS
<1>2. PICK back : back = SubSeq(s, k + 1, Len(s))
  OBVIOUS
<1>3. /\ Len(s) \in Nat /\ k \in Nat /\ k >= 1 /\ k <= Len(s)
      /\ \A j \in 1..Len(s) : s[j] \in S
  BY LenProperties, ElementOfSeq
<1>4. /\ front \in Seq(S) /\ Len(front) = k - 1 /\ \A j \in 1..k - 1 : front[j] = s[j]
  <2>1. \A j \in 1..k - 1 : s[j] \in S
    BY <1>3
  <2>2. /\ front \in Seq(S) /\ Len(front) = IF 1 <= k - 1 THEN k - 1 - 1 + 1 ELSE 0
        /\ \A j \in 1..k - 1 - 1 + 1 : front[j] = s[1 + j - 1]
    <3>1. 1 \in Int /\ k - 1 \in Int
      BY <1>3
    <3>2. QED
      BY <1>1, <2>1, <3>1, SubSeqProperties
  <2>3. QED
    BY <1>3, <2>2
<1>5. /\ back \in Seq(S) /\ Len(back) = Len(s) - k /\ \A j \in 1..Len(s) - k : back[j] = s[k + j]
  <2>1. \A j \in k + 1..Len(s) : s[j] \in S
    BY <1>3
  <2>2. /\ back \in Seq(S) /\ Len(back) = IF k + 1 <= Len(s) THEN Len(s) - (k + 1) + 1 ELSE 0
        /\ \A j \in 1..Len(s) - (k + 1) + 1 : back[j] = s[k + 1 + j - 1]
    <3>1. k + 1 \in Int /\ Len(s) \in Int
      BY <1>3
    <3>2. QED
      BY <1>2, <2>1, <3>1, SubSeqProperties
  <2>3. QED
    BY <1>3, <2>2
<1>6. Len(s) \in Int /\ k \in Int /\ k >= 1 /\ k <= Len(s)
  BY <1>3
<1>7. front \in Seq(S) /\ Len(front) \in Int /\ Len(front) = k - 1
  BY <1>4, <1>6
<1>8. back \in Seq(S) /\ Len(back) \in Int /\ Len(back) = Len(s) - k
  BY <1>5, <1>6
<1>9. Len(front) + Len(back) = Len(s) - 1
  BY <1>6, <1>7, <1>8
<1>10. /\ front \o back \in Seq(S) /\ Len(front \o back) = Len(front) + Len(back)
       /\ \A j \in 1..Len(front) + Len(back) :
            (front \o back)[j] = IF j <= Len(front) THEN front[j] ELSE back[j - Len(front)]
  BY <1>7, <1>8, ConcatProperties, Zenon
<1>11. RemoveAt(s, k) = front \o back
  BY <1>1, <1>2 DEF RemoveAt
<1>12. PICK w : w = RemoveAt(s, k)
  OBVIOUS
<1>13. w \in Seq(S) /\ Len(w) = Len(s) - 1
  BY <1>9, <1>10, <1>11, <1>12
<1>14. ASSUME NEW j \in 1..Len(s) - 1
       PROVE  w[j] = IF j < k THEN s[j] ELSE s[j + 1]
  <2>1. w[j] = IF j <= Len(front) THEN front[j] ELSE back[j - Len(front)]
    BY <1>9, <1>10, <1>11, <1>12
  <2>2. CASE j < k
    <3>1. j <= Len(front) /\ j \in 1..k - 1
      BY <1>6, <1>7, <2>2
    <3>2. front[j] = s[j]
      BY <1>4, <3>1
    <3>3. QED
      BY <2>1, <2>2, <3>1, <3>2
  <2>3. CASE ~(j < k)
    <3>1. /\ ~(j <= Len(front)) /\ j - Len(front) \in 1..Len(s) - k
          /\ k + (j - Len(front)) = j + 1
      BY <1>6, <1>7, <2>3
    <3>2. back[j - Len(front)] = s[k + (j - Len(front))]
      BY <1>5, <3>1
    <3>3. QED
      BY <2>1, <2>3, <3>1, <3>2
  <2>4. QED
    BY <2>2, <2>3
<1>15. QED
  BY <1>12, <1>13, <1>14

\* A plan without one of its instances: every other keeps its place or moves forward.
LEMMA WithoutPlaces ==
  ASSUME TypeOK, NEW p \in Plans, NEW i \in ToSet(records[p])
  PROVE  /\ Without(i, p) \in Seq(Instances)
         /\ \A j \in DOMAIN Without(i, p) : \E m \in DOMAIN records[p] : Without(i, p)[j] = records[p][m]
         /\ \A m \in DOMAIN records[p] :
              records[p][m] # i => \E j \in DOMAIN Without(i, p) : Without(i, p)[j] = records[p][m]
<1>1. records[p] \in Seq(Instances)
  BY DEF TypeOK
<1>2. DOMAIN records[p] = 1..Len(records[p]) /\ Len(records[p]) \in Nat
  BY <1>1, LenProperties
<1>3. PICK k \in DOMAIN records[p] : k = CHOOSE m \in DOMAIN records[p] : records[p][m] = i
  BY DEF ToSet
<1>4. records[p][k] = i
  BY <1>3 DEF ToSet
<1>5. PICK w : w = Without(i, p)
  OBVIOUS
<1>6. w = RemoveAt(records[p], k)
  BY <1>3, <1>5 DEF Without
<1>7. /\ w \in Seq(Instances) /\ Len(w) = Len(records[p]) - 1
      /\ \A j \in 1..Len(records[p]) - 1 :
           w[j] = IF j < k THEN records[p][j] ELSE records[p][j + 1]
  BY <1>1, <1>2, <1>6, RemoveAtPlaces
<1>8. DOMAIN w = 1..Len(records[p]) - 1
  BY <1>7, LenProperties
<1>9. \A j \in DOMAIN w : \E m \in DOMAIN records[p] : w[j] = records[p][m]
  <2> SUFFICES ASSUME NEW j \in DOMAIN w
               PROVE  \E m \in DOMAIN records[p] : w[j] = records[p][m]
    OBVIOUS
  <2>1. j \in DOMAIN records[p] /\ j + 1 \in DOMAIN records[p]
    BY <1>2, <1>8
  <2>2. w[j] = records[p][j] \/ w[j] = records[p][j + 1]
    BY <1>7, <1>8
  <2>3. QED
    BY <2>1, <2>2
<1>10. \A m \in DOMAIN records[p] : records[p][m] # i => \E j \in DOMAIN w : w[j] = records[p][m]
  <2> SUFFICES ASSUME NEW m \in DOMAIN records[p], records[p][m] # i
               PROVE  \E j \in DOMAIN w : w[j] = records[p][m]
    OBVIOUS
  <2>1. m # k
    BY <1>4
  <2>2. CASE m < k
    <3>1. m \in DOMAIN w /\ w[m] = records[p][m]
      BY <1>2, <1>3, <1>7, <1>8, <2>2
    <3>2. QED
      BY <3>1
  <2>3. CASE m > k
    <3>1. m - 1 \in DOMAIN w /\ ~(m - 1 < k) /\ m - 1 + 1 = m
      BY <1>2, <1>3, <1>8, <2>3
    <3>2. w[m - 1] = records[p][m]
      BY <1>7, <1>8, <3>1
    <3>3. QED
      BY <3>1, <3>2
  <2>4. QED
    BY <1>2, <1>3, <2>1, <2>2, <2>3
<1>11. QED
  BY <1>5, <1>7, <1>9, <1>10

\* What is recorded is in some place of some plan's list.
LEMMA RecordedHasPlace ==
  ASSUME NEW d
  PROVE  d \in Recorded <=> \E p \in Plans : \E k \in DOMAIN records[p] : records[p][k] = d
BY DEF Recorded, ToSet

\* A list with an instance more: the others stay where they are.
LEMMA AppendPlaces ==
  ASSUME NEW s \in Seq(Instances), NEW i \in Instances
  PROVE  /\ Append(s, i) \in Seq(Instances)
         /\ \A j \in DOMAIN Append(s, i) :
              Append(s, i)[j] = i \/ (j \in DOMAIN s /\ Append(s, i)[j] = s[j])
         /\ \A j \in DOMAIN s : j \in DOMAIN Append(s, i) /\ Append(s, i)[j] = s[j]
         /\ \E j \in DOMAIN Append(s, i) : Append(s, i)[j] = i
<1>1. PICK t : t = Append(s, i)
  OBVIOUS
<1>2. /\ t \in Seq(Instances) /\ Len(t) = Len(s) + 1
      /\ \A j \in 1..Len(s) : t[j] = s[j]
      /\ t[Len(s) + 1] = i
  BY <1>1, AppendProperties
<1>3. /\ Len(s) \in Nat /\ DOMAIN s = 1..Len(s)
  BY LenProperties
<1>4. DOMAIN t = 1..Len(s) + 1
  BY <1>2, LenProperties
<1>5. \A j \in DOMAIN t : j = Len(s) + 1 \/ j \in DOMAIN s
  BY <1>3, <1>4
<1>6. Len(s) + 1 \in DOMAIN t /\ \A j \in DOMAIN s : j \in DOMAIN t
  BY <1>3, <1>4
<1>7. QED
  BY <1>1, <1>2, <1>3, <1>5, <1>6

\* What the two steps that take an instance from a plan do to the lists: it is gone from this
\* plan and may be in another, and everybody else is where they were, or in this plan further
\* to the front.
LosesOne(i, p) ==
  /\ i \in Recorded
  /\ records' \in [Plans -> Seq(Instances)]
  /\ \A q \in Plans : \A j \in DOMAIN records'[q] :
       records'[q][j] = i
       \/ \E m \in DOMAIN records[q] : records'[q][j] = records[q][m] /\ (q # p => m = j)
  /\ \A q \in Plans : \A m \in DOMAIN records[q] :
       records[q][m] = i \/ \E j \in DOMAIN records'[q] : records'[q][j] = records[q][m]
  /\ throughout' = throughout \ {i} /\ shrunk' = Shrinks(p)
  /\ UNCHANGED <<deployments, idVars, errandVars, forgotten>>

\* A record that goes is such a step.
LEMMA ForgetLosesOne ==
  ASSUME TypeOK, NEW i \in Instances, NEW p \in Plans, Forget(i, p)
  PROVE  LosesOne(i, p)
<1>1. i \in ToSet(records[p]) /\ i \in Recorded
  BY DEF Forget, Recorded
<1>2. PICK w : w = Without(i, p)
  OBVIOUS
<1>3. /\ w \in Seq(Instances)
      /\ \A j \in DOMAIN w : \E m \in DOMAIN records[p] : w[j] = records[p][m]
      /\ \A m \in DOMAIN records[p] : records[p][m] # i => \E j \in DOMAIN w : w[j] = records[p][m]
  BY <1>1, <1>2, WithoutPlaces
<1>4. records \in [Plans -> Seq(Instances)]
  BY DEF TypeOK
<1>5. records' = [records EXCEPT ![p] = w]
  BY <1>2 DEF Forget
<1>6. records' \in [Plans -> Seq(Instances)]
  BY <1>3, <1>4, <1>5
<1>7. \A q \in Plans : records'[q] = IF q = p THEN w ELSE records[q]
  BY <1>4, <1>5
<1>8. /\ throughout' = throughout \ {i} /\ shrunk' = Shrinks(p)
      /\ UNCHANGED <<deployments, idVars, errandVars, forgotten>>
  BY DEF Forget
<1>9. ASSUME NEW q \in Plans, NEW j \in DOMAIN records'[q]
      PROVE  \E m \in DOMAIN records[q] : records'[q][j] = records[q][m] /\ (q # p => m = j)
  BY <1>3, <1>7, <1>9
<1>10. ASSUME NEW q \in Plans, NEW m \in DOMAIN records[q], records[q][m] # i
       PROVE  \E j \in DOMAIN records'[q] : records'[q][j] = records[q][m]
  BY <1>3, <1>7, <1>10
<1>11. QED
  BY <1>1, <1>6, <1>8, <1>9, <1>10 DEF LosesOne

\* And so is a change of plan.
LEMMA ChangePlanLosesOne ==
  ASSUME TypeOK, NEW i \in Instances, NEW p \in Plans, NEW r \in Plans, ChangePlan(i, p, r)
  PROVE  LosesOne(i, p)
<1>1. i \in ToSet(records[p]) /\ i \in Recorded /\ p # r
  BY DEF ChangePlan, Recorded
<1>2. PICK w : w = Without(i, p)
  OBVIOUS
<1>3. /\ w \in Seq(Instances)
      /\ \A j \in DOMAIN w : \E m \in DOMAIN records[p] : w[j] = records[p][m]
      /\ \A m \in DOMAIN records[p] : records[p][m] # i => \E j \in DOMAIN w : w[j] = records[p][m]
  BY <1>1, <1>2, WithoutPlaces
<1>4. records \in [Plans -> Seq(Instances)]
  BY DEF TypeOK
<1>5. PICK t : t = Append(records[r], i)
  OBVIOUS
<1>6. /\ t \in Seq(Instances)
      /\ \A j \in DOMAIN t : t[j] = i \/ (j \in DOMAIN records[r] /\ t[j] = records[r][j])
      /\ \A j \in DOMAIN records[r] : j \in DOMAIN t /\ t[j] = records[r][j]
  BY <1>4, <1>5, AppendPlaces
<1>7. records' = [records EXCEPT ![p] = w, ![r] = t]
  BY <1>1, <1>2, <1>4, <1>5 DEF ChangePlan
<1>8. records' \in [Plans -> Seq(Instances)]
  BY <1>3, <1>4, <1>6, <1>7
<1>9. \A q \in Plans : records'[q] = IF q = p THEN w ELSE IF q = r THEN t ELSE records[q]
  BY <1>1, <1>4, <1>7
<1>10. /\ throughout' = throughout \ {i} /\ shrunk' = Shrinks(p)
       /\ UNCHANGED <<deployments, idVars, errandVars, forgotten>>
  BY DEF ChangePlan
<1>11. ASSUME NEW q \in Plans, NEW j \in DOMAIN records'[q], records'[q][j] # i
       PROVE  \E m \in DOMAIN records[q] : records'[q][j] = records[q][m] /\ (q # p => m = j)
  <2>1. CASE q = p
    BY <1>3, <1>9, <2>1
  <2>2. CASE q = r
    BY <1>1, <1>6, <1>9, <1>11, <2>2
  <2>3. CASE q # p /\ q # r
    BY <1>9, <2>3
  <2>4. QED
    BY <2>1, <2>2, <2>3
<1>12. ASSUME NEW q \in Plans, NEW m \in DOMAIN records[q], records[q][m] # i
       PROVE  \E j \in DOMAIN records'[q] : records'[q][j] = records[q][m]
  <2>1. CASE q = p
    BY <1>3, <1>9, <1>12, <2>1
  <2>2. CASE q = r
    BY <1>1, <1>6, <1>9, <2>2
  <2>3. CASE q # p /\ q # r
    BY <1>9, <2>3
  <2>4. QED
    BY <2>1, <2>2, <2>3
<1>13. QED
  BY <1>1, <1>8, <1>10, <1>11, <1>12 DEF LosesOne
-----------------------------------------------------------------------------
(***************************************************************************)
(* The invariant is kept, one lemma per kind of step.                      *)
(***************************************************************************)

\* A step that takes one instance from a plan keeps it: who is behind that instance moves to the
\* front, but then the plan is not being listed, or is marked as shrunk.
LEMMA LosesOneKeeps ==
  ASSUME IInv, NEW i \in Instances, NEW p \in Plans, LosesOne(i, p)
  PROVE  IInv'
<1> USE DEF IInv
<1>1. /\ throughout' = throughout \ {i} /\ shrunk' = Shrinks(p)
      /\ UNCHANGED <<deployments, idVars, errandVars, forgotten>>
  BY DEF LosesOne
<1>2. shrunk \subseteq shrunk' /\ shrunk' \subseteq shrunk \cup {p}
  BY <1>1 DEF Shrinks
<1>3. TypeOK'
  <2>1. records' \in [Plans -> Seq(Instances)]
    BY DEF LosesOne
  <2>2. QED
    BY <1>1, <1>2, <2>1 DEF TypeOK, errandVars, idVars
<1>4. Recorded' \subseteq Recorded
  <2> SUFFICES ASSUME NEW d \in Recorded'
               PROVE  d \in Recorded
    OBVIOUS
  <2>1. PICK q \in Plans : \E j \in DOMAIN records'[q] : records'[q][j] = d
    BY DEF Recorded, ToSet
  <2>2. PICK j \in DOMAIN records'[q] : records'[q][j] = d
    BY <2>1
  <2>3. d = i \/ \E m \in DOMAIN records[q] : d = records[q][m]
    BY <2>2 DEF LosesOne
  <2>4. QED
    BY <2>3, RecordedHasPlace DEF LosesOne
<1>5. ForgottenStay'
  BY <1>1, <1>4 DEF ForgottenStay, OrphansAreReported, errandVars
<1>6. NoneSkipped'
  <2> SUFFICES ASSUME NEW q \in Plans, NEW j \in DOMAIN records'[q], records'[q][j] \in throughout'
               PROVE  records'[q][j] \in instanceIDs' \/ q \in shrunk' \/ StillToRead(q, j)'
    BY DEF NoneSkipped
  <2>1. records'[q][j] # i /\ records'[q][j] \in throughout
    BY <1>1
  <2>2. PICK m \in DOMAIN records[q] : records'[q][j] = records[q][m] /\ (q # p => m = j)
    BY <2>1 DEF LosesOne
  <2>3. records[q][m] \in instanceIDs \/ q \in shrunk \/ StillToRead(q, m)
    BY <2>1, <2>2 DEF NoneSkipped
  <2>4. CASE records[q][m] \in instanceIDs \/ q \in shrunk
    BY <1>1, <1>2, <2>2, <2>4 DEF errandVars
  <2>5. CASE StillToRead(q, m)
    <3>1. CASE page # NoPage /\ page[1] = q /\ q = p
      BY <1>1, <3>1 DEF Shrinks
    <3>2. CASE ~(page # NoPage /\ page[1] = q)
      BY <1>1, <2>5, <3>2 DEF StillToRead, errandVars
    <3>3. CASE q # p
      BY <1>1, <2>2, <2>5, <3>3 DEF StillToRead, errandVars
    <3>4. QED
      BY <3>1, <3>2, <3>3
  <2>6. QED
    BY <2>3, <2>4, <2>5
<1>7. Phases'
  <2>1. throughout' \subseteq Recorded'
    <3> SUFFICES ASSUME NEW d \in throughout'
                 PROVE  d \in Recorded'
      OBVIOUS
    <3>1. d # i /\ d \in Recorded
      BY <1>1 DEF Phases
    <3>2. PICK q \in Plans : \E m \in DOMAIN records[q] : records[q][m] = d
      BY <3>1, RecordedHasPlace
    <3>3. \E j \in DOMAIN records'[q] : records'[q][j] = d
      BY <3>1, <3>2 DEF LosesOne
    <3>4. QED
      BY <3>3 DEF Recorded, ToSet
  <2>2. QED
    BY <1>1, <1>4, <2>1 DEF Phases, errandVars, idVars
<1>8. QED
  BY <1>3, <1>5, <1>6, <1>7

\* A record that is added comes last in its plan's list, and is of no deployment that has been
\* without one all along.
LEMMA RecordKeeps ==
  ASSUME IInv, NEW i \in Instances, NEW p \in Plans, Record(i, p)
  PROVE  IInv'
<1> USE DEF IInv
<1>1. PICK t : t = Append(records[p], i)
  OBVIOUS
<1>2. records \in [Plans -> Seq(Instances)]
  BY DEF TypeOK
<1>3. /\ t \in Seq(Instances)
      /\ \A j \in DOMAIN t : t[j] = i \/ (j \in DOMAIN records[p] /\ t[j] = records[p][j])
      /\ \A j \in DOMAIN records[p] : j \in DOMAIN t /\ t[j] = records[p][j]
  BY <1>1, <1>2, AppendPlaces
<1>4. records' = [records EXCEPT ![p] = t]
  BY <1>1 DEF Record
<1>5. /\ records' \in [Plans -> Seq(Instances)]
      /\ \A q \in Plans : records'[q] = IF q = p THEN t ELSE records[q]
  BY <1>2, <1>3, <1>4
<1>6. /\ recordedOnce' = recordedOnce \cup {i} /\ forgotten' = forgotten \ {i}
      /\ UNCHANGED <<deployments, deployedOnce, errandVars, throughout, shrunk>>
  BY DEF Record
<1>7. TypeOK'
  BY <1>5, <1>6 DEF TypeOK, errandVars
<1>8. /\ \A q \in Plans : \A j \in DOMAIN records'[q] :
           records'[q][j] = i \/ (j \in DOMAIN records[q] /\ records'[q][j] = records[q][j])
      /\ \A q \in Plans : \A j \in DOMAIN records[q] :
           j \in DOMAIN records'[q] /\ records'[q][j] = records[q][j]
  BY <1>3, <1>5
<1>9. Recorded' \subseteq Recorded \cup {i}
  BY <1>8 DEF Recorded, ToSet
<1>10. Recorded \subseteq Recorded'
  BY <1>8 DEF Recorded, ToSet
<1>11. ForgottenStay'
  BY <1>6, <1>9 DEF ForgottenStay, OrphansAreReported, errandVars
<1>12. i \notin throughout
  BY DEF Phases, Record
<1>13. NoneSkipped'
  <2> SUFFICES ASSUME NEW q \in Plans, NEW j \in DOMAIN records'[q], records'[q][j] \in throughout'
               PROVE  records'[q][j] \in instanceIDs' \/ q \in shrunk' \/ StillToRead(q, j)'
    BY DEF NoneSkipped
  <2>1. j \in DOMAIN records[q] /\ records'[q][j] = records[q][j]
    BY <1>6, <1>8, <1>12
  <2>2. records[q][j] \in instanceIDs \/ q \in shrunk \/ StillToRead(q, j)
    BY <1>6, <2>1 DEF NoneSkipped
  <2>3. QED
    BY <1>6, <2>1, <2>2 DEF StillToRead, errandVars
<1>14. Phases'
  BY <1>6, <1>9, <1>10 DEF Phases, errandVars
<1>15. QED
  BY <1>7, <1>11, <1>13, <1>14

\* A page the errand reads holds records only, so no deployment that has been without one.
LEMMA PageIsRecorded ==
  ASSUME NEW p \in Plans, NEW n
  PROVE  PageOf(p, n) \subseteq Recorded
BY DEF PageOf, Recorded, ToSet

\* What is on none of a plan's pages up to the n-th is behind them: either the page it reads
\* has it, or a later one will, if there are more.
LEMMA PageDivides ==
  ASSUME TypeOK, NEW p \in Plans, NEW n \in Nat \ {0}, NEW k \in DOMAIN records[p],
         k > (n - 1) * PageSize, records[p][k] \notin PageOf(p, n)
  PROVE  k > n * PageSize /\ Len(records[p]) > n * PageSize
<1>1. records[p] \in Seq(Instances)
  BY DEF TypeOK
<1>2. k \in 1..Len(records[p]) /\ Len(records[p]) \in Nat
  BY <1>1, LenProperties
<1>3. ~(k <= n * PageSize)
  BY DEF PageOf
<1>4. PICK m \in Nat : m = n * PageSize
  BY OrphanAssumption
<1>5. QED
  BY <1>2, <1>3, <1>4

\* Reading a page.
LEMMA getInstancesKeeps ==
  ASSUME IInv, getInstances
  PROVE  IInv'
<1> USE DEF IInv
<1>1. PICK p \in unread :
        LET n == IF page = NoPage THEN 1 ELSE page[2]
        IN  /\ page # NoPage => page[1] = p
            /\ instanceIDs' = instanceIDs \cup PageOf(p, n)
            /\ IF Len(records[p]) > n * PageSize
               THEN page' = <<p, n + 1>> /\ UNCHANGED unread
               ELSE page' = NoPage /\ unread' = unread \ {p}
  BY DEF getInstances
<1>2. PICK n : n = IF page = NoPage THEN 1 ELSE page[2]
  OBVIOUS
<1>3. /\ errand = "list"
      /\ UNCHANGED <<records, deployments, idVars, errand, orphans, historyVars>>
  BY DEF getInstances
<1>4. /\ page # NoPage => page[1] = p
      /\ instanceIDs' = instanceIDs \cup PageOf(p, n)
      /\ IF Len(records[p]) > n * PageSize
         THEN page' = <<p, n + 1>> /\ UNCHANGED unread
         ELSE page' = NoPage /\ unread' = unread \ {p}
  BY <1>1, <1>2
<1>5. p \in Plans /\ n \in Nat \ {0} /\ n + 1 \in Nat \ {0, 1}
  <2>1. p \in Plans
    BY DEF TypeOK
  <2>2. page = NoPage \/ page[2] \in Nat \ {0, 1}
    BY DEF TypeOK
  <2>3. n \in Nat \ {0}
    BY <1>2, <2>2
  <2>4. QED
    BY <2>1, <2>3
<1>6. PageOf(p, n) \subseteq Recorded /\ PageOf(p, n) \subseteq Instances
  <2>1. Recorded \subseteq Instances
    BY DEF Phases, TypeOK
  <2>2. QED
    BY <1>5, <2>1, PageIsRecorded
<1>7. TypeOK'
  <2>1. page' \in {NoPage} \cup (unread' \X (Nat \ {0, 1}))
    BY <1>4, <1>5
  <2>2. unread' \subseteq Plans /\ instanceIDs' \subseteq Instances
    BY <1>4, <1>6 DEF TypeOK
  <2>3. QED
    BY <1>3, <2>1, <2>2 DEF TypeOK, idVars, historyVars
<1>8. ForgottenStay'
  BY <1>3, <1>4, <1>6 DEF ForgottenStay, OrphansAreReported, Recorded, historyVars
<1>9. NoneSkipped'
  <2> SUFFICES ASSUME NEW q \in Plans, NEW k \in DOMAIN records[q], records[q][k] \in throughout
               PROVE  records[q][k] \in instanceIDs' \/ q \in shrunk' \/ StillToRead(q, k)'
    BY <1>3 DEF NoneSkipped, historyVars
  <2>1. records[q][k] \in instanceIDs \/ q \in shrunk \/ StillToRead(q, k)
    BY DEF NoneSkipped
  <2>2. CASE records[q][k] \in instanceIDs \/ q \in shrunk
    BY <1>3, <1>4, <2>2 DEF historyVars
  <2>3. CASE StillToRead(q, k) /\ q # p
    <3>1. errand' = "list" /\ q \in unread'
      BY <1>3, <1>4, <2>3 DEF StillToRead
    <3>2. ~(page' # NoPage /\ page'[1] = q)
      BY <1>4, <2>3 DEF NoPage
    <3>3. QED
      BY <3>1, <3>2 DEF StillToRead
  <2>4. CASE StillToRead(q, k) /\ q = p /\ records[q][k] \in PageOf(p, n)
    BY <1>4, <2>4
  <2>5. CASE StillToRead(q, k) /\ q = p /\ records[q][k] \notin PageOf(p, n)
    <3>1. k > (n - 1) * PageSize
      <4>1. CASE page = NoPage
        <5>1. n - 1 = 0 /\ k \in Nat \ {0}
          <6>1. records[q] \in Seq(Instances)
            BY DEF TypeOK
          <6>2. QED
            BY <1>2, <4>1, <6>1, LenProperties
        <5>2. (n - 1) * PageSize = 0
          BY <5>1, OrphanAssumption
        <5>3. QED
          BY <5>1, <5>2
      <4>2. CASE page # NoPage
        BY <1>2, <1>4, <2>5, <4>2 DEF StillToRead
      <4>3. QED
        BY <4>1, <4>2
    <3>2. k > n * PageSize /\ Len(records[p]) > n * PageSize
      BY <1>5, <2>5, <3>1, PageDivides
    <3>3. page' = <<p, n + 1>> /\ unread' = unread
      BY <1>4, <3>2
    <3>4. page'[1] = q /\ page'[2] - 1 = n
      BY <1>5, <2>5, <3>3
    <3>5. k > (page'[2] - 1) * PageSize
      BY <3>2, <3>4
    <3>6. errand' = "list" /\ q \in unread'
      BY <1>3, <2>5, <3>3 DEF StillToRead
    <3>7. QED
      BY <3>5, <3>6 DEF StillToRead
  <2>6. QED
    BY <2>1, <2>2, <2>3, <2>4, <2>5
<1>10. Phases'
  BY <1>3, <1>4, <1>7 DEF Phases, Recorded, historyVars, idVars
<1>11. QED
  BY <1>7, <1>8, <1>9, <1>10

\* BOSH's deployments come and go.
LEMMA DeployKeeps ==
  ASSUME IInv, NEW i \in Instances, Deploy(i)
  PROVE  IInv'
<1> USE DEF IInv, Deploy
<1>1. TypeOK'
  BY DEF TypeOK, errandVars, historyVars
<1>2. ForgottenStay'
  BY DEF ForgottenStay, OrphansAreReported, Recorded, errandVars, historyVars
<1>3. NoneSkipped'
  BY DEF NoneSkipped, StillToRead, errandVars, historyVars
<1>4. Phases'
  BY DEF Phases, Recorded, errandVars, historyVars
<1>5. QED
  BY <1>1, <1>2, <1>3, <1>4

\* A deployment that goes is no orphan any more.
LEMMA DeleteKeeps ==
  ASSUME IInv, NEW i \in Instances, Delete(i)
  PROVE  IInv'
<1> USE DEF IInv, Delete
<1>1. TypeOK'
  BY DEF TypeOK, errandVars, idVars
<1>2. ForgottenStay'
  BY DEF ForgottenStay, OrphansAreReported, Recorded, errandVars
<1>3. NoneSkipped'
  BY DEF NoneSkipped, StillToRead, errandVars
<1>4. Phases'
  BY DEF Phases, Recorded, errandVars, idVars
<1>5. QED
  BY <1>1, <1>2, <1>3, <1>4

\* The errand begins with every plan still to be listed.
LEMMA GetServiceInstancesKeeps ==
  ASSUME IInv, GetServiceInstances
  PROVE  IInv'
<1> USE DEF IInv, GetServiceInstances
<1>1. Recorded \subseteq Instances /\ instanceIDs = {} /\ page = NoPage
  BY DEF Phases, TypeOK
<1>2. TypeOK'
  BY <1>1 DEF TypeOK, idVars
<1>3. ForgottenStay'
  BY <1>1 DEF ForgottenStay, OrphansAreReported, Recorded
<1>4. NoneSkipped'
  BY <1>1 DEF NoneSkipped, StillToRead
<1>5. Phases'
  BY DEF Phases, Recorded, idVars
<1>6. QED
  BY <1>2, <1>3, <1>4, <1>5

\* When all plans are listed, no record is still to be read.
LEMMA ListedKeeps ==
  ASSUME IInv, Listed
  PROVE  IInv'
<1> USE DEF IInv, Listed
<1>1. page = NoPage
  BY DEF TypeOK
<1>2. TypeOK'
  BY <1>1 DEF TypeOK, idVars, historyVars
<1>3. ForgottenStay'
  BY DEF ForgottenStay, OrphansAreReported, Recorded, historyVars
<1>4. NoneSkipped'
  BY DEF NoneSkipped, StillToRead, historyVars
<1>5. Phases'
  BY <1>1 DEF Phases, Recorded, idVars, historyVars
<1>6. QED
  BY <1>2, <1>3, <1>4, <1>5

\* The comparison of the lists.
LEMMA OrphanDeploymentsKeeps ==
  ASSUME IInv, OrphanDeployments
  PROVE  IInv'
<1> USE DEF IInv, OrphanDeployments
<1>1. TypeOK'
  BY DEF TypeOK, idVars, historyVars
<1>2. ForgottenStay'
  BY DEF ForgottenStay, OrphansAreReported, Recorded, historyVars
<1>3. NoneSkipped'
  BY DEF NoneSkipped, StillToRead, historyVars
<1>4. Phases'
  BY DEF Phases, Recorded, idVars, historyVars
<1>5. QED
  BY <1>1, <1>2, <1>3, <1>4

\* A call that fails ends the errand.
LEMMA FailKeeps ==
  ASSUME IInv, Fail
  PROVE  IInv'
<1> USE DEF IInv, Fail
<1>1. TypeOK'
  BY DEF TypeOK, idVars
<1>2. ForgottenStay'
  BY DEF ForgottenStay, OrphansAreReported, Recorded
<1>3. NoneSkipped'
  BY DEF NoneSkipped
<1>4. Phases'
  BY DEF Phases, Recorded, idVars
<1>5. QED
  BY <1>1, <1>2, <1>3, <1>4
-----------------------------------------------------------------------------
\* The broker starts with nothing recorded.
LEMMA InitSatisfies == Init => IInv
<1> SUFFICES ASSUME Init
             PROVE  IInv
  OBVIOUS
<1> USE DEF Init
<1>1. Recorded = {}
  BY DEF Recorded, ToSet
<1>2. \A p \in Plans : records[p] = <<>> /\ DOMAIN records[p] = {}
  OBVIOUS
<1>3. TypeOK
  BY EmptySeq DEF TypeOK
<1>4. ForgottenStay /\ Phases
  BY <1>1 DEF ForgottenStay, Phases, OrphansAreReported
<1>5. NoneSkipped
  BY <1>2 DEF NoneSkipped
<1>6. QED
  BY <1>3, <1>4, <1>5 DEF IInv

\* The inductive invariant: what the errand has read, what it has still to read, and what moved
\* meanwhile (cf/service_instances.go:155, broker/orphan_deployments.go:14).
THEOREM IInvHolds == Spec => []IInv
<1>1. ASSUME IInv, [Next]_vars
      PROVE  IInv'
  <2>1. CASE \E i \in Instances : Deploy(i) \/ Delete(i)
    BY <1>1, <2>1, DeployKeeps, DeleteKeeps
  <2>2. CASE \E i \in Instances, p \in Plans : Record(i, p) \/ Forget(i, p)
    BY <1>1, <2>2, RecordKeeps, ForgetLosesOne, LosesOneKeeps DEF IInv
  <2>3. CASE \E i \in Instances, p, q \in Plans : ChangePlan(i, p, q)
    BY <1>1, <2>3, ChangePlanLosesOne, LosesOneKeeps DEF IInv
  <2>4. CASE GetServiceInstances \/ getInstances \/ Listed \/ OrphanDeployments \/ Fail
    BY <1>1, <2>4, GetServiceInstancesKeeps, getInstancesKeeps, ListedKeeps,
       OrphanDeploymentsKeeps, FailKeeps
  <2>5. CASE UNCHANGED vars
    BY <1>1, <2>5 DEF IInv, TypeOK, ForgottenStay, OrphansAreReported, NoneSkipped, StillToRead,
       Phases, Recorded, vars, errandVars, historyVars, idVars
  <2>6. QED
    BY <1>1, <2>1, <2>2, <2>3, <2>4, <2>5 DEF Next
<1>2. QED
  BY <1>1, InitSatisfies, PTL DEF Spec

\* The lists, what was read and the report stay typed: a page is only ever asked of a plan that
\* is still to be listed, and not after an error either (cf/service_instances.go:155).
THEOREM TypeCorrect == Spec => []TypeOK
<1>1. IInv => TypeOK
  BY DEF IInv
<1>2. QED
  BY <1>1, IInvHolds, PTL

\* What has no record all the time the errand runs is in its report
\* (broker/orphan_deployments.go:14).
THEOREM OrphansReported == Spec => []OrphansAreReported
<1>1. IInv => OrphansAreReported
  BY DEF IInv, ForgottenStay
<1>2. QED
  BY <1>1, IInvHolds, PTL

\* The deployment of an instance that stays where it is, is not in the report, unless the plan
\* of the instance lost another one between two of its pages, nor is somebody else's
\* (broker/orphan_deployments.go:14, cf/service_instances.go:155).
THEOREM InstancesNotReported == Spec => []InstancesAreNotReported
<1>1. ASSUME IInv
      PROVE  InstancesAreNotReported
  <2> SUFFICES ASSUME errand = "done", NEW d \in orphans
               PROVE  d \notin Foreign /\ (d \in throughout => \E p \in shrunk : d \in ToSet(records[p]))
    BY DEF InstancesAreNotReported
  <2>1. d \notin Foreign /\ d \notin instanceIDs
    BY <1>1 DEF IInv, Phases
  <2>2. ASSUME d \in throughout
        PROVE  \E p \in shrunk : d \in ToSet(records[p])
    <3>1. d \in Recorded
      BY <1>1, <2>2 DEF IInv, Phases
    <3>2. PICK p \in Plans : \E k \in DOMAIN records[p] : records[p][k] = d
      BY <3>1, RecordedHasPlace
    <3>3. p \in shrunk
      BY <1>1, <2>1, <2>2, <3>2 DEF IInv, NoneSkipped, StillToRead
    <3>4. QED
      BY <3>2, <3>3 DEF ToSet
  <2>3. QED
    BY <2>1, <2>2
<1>2. QED
  BY <1>1, IInvHolds, PTL
=============================================================================
