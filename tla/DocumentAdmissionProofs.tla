----------------------- MODULE DocumentAdmissionProofs -----------------------
(***************************************************************************)
(* Theorems about DocumentAdmission, for every set of runs, candidates,    *)
(* facts and processes and every number of deliveries, deaths and refused  *)
(* sends.                                                                  *)
(***************************************************************************)
EXTENDS DocumentAdmission, FiniteSetTheorems, SequenceTheorems, TLAPS

-----------------------------------------------------------------------------
(* Human review. *)

EventTypes == {"CASE_OPENED", "CASE_ASSIGNED", "REVIEW_STARTED", "EVIDENCE_REQUESTED",
               "RESOLUTION_RECORDED", "CASE_CLOSED"}

EventSet == [type : EventTypes,
             by : Reviewers \cup {NoReviewer},
             why : Whys \cup {NoWhy}]

CaseRow == [state : {"ABSENT", "OPEN", "MORE_EVIDENCE_REQUIRED", "RESOLVED"},
            reviewer : Reviewers \cup {NoReviewer},
            resolution : Resolutions \cup {"NONE"},
            why : Whys \cup {NoWhy},
            events : Seq(EventSet)]

\* CaseHistory, said of each event by its number, with what it leaves implicit: a case that
\* is not open yet is an empty row, a resolution closes its case, a started one has a reviewer.
Story(f, closing, who) ==
  /\ Len(f) >= 3 + closing
  /\ f[1].type = "CASE_OPENED" /\ f[2].type = "CASE_ASSIGNED" /\ f[3].type = "REVIEW_STARTED"
  /\ \A i \in 4..(Len(f) - closing) : f[i].type = "EVIDENCE_REQUESTED"
  /\ closing = 2 => f[Len(f) - 1].type = "RESOLUTION_RECORDED" /\ f[Len(f)].type = "CASE_CLOSED"
  /\ \A i \in 2..Len(f) : f[i].by = who
  /\ \A i, j \in 4..(Len(f) - closing) : f[i] = f[j] => i = j

CaseShape(row) ==
  /\ row \in CaseRow
  /\ row.state = "ABSENT" => row = NoCase
  /\ row.state = "OPEN" => /\ Len(row.events) = 1
                           /\ row.events[1].type = "CASE_OPENED"
                           /\ row.reviewer = NoReviewer
  /\ row.state = "MORE_EVIDENCE_REQUIRED" => row.reviewer \in Reviewers /\ Story(row.events, 0, row.reviewer)
  /\ row.state = "RESOLVED" => row.reviewer \in Reviewers /\ Story(row.events, 2, row.reviewer)
  /\ row.state = "RESOLVED" <=> row.resolution # "NONE"

CasesShaped == review = [k \in Cases |-> review[k]] /\ \A k \in Cases : CaseShape(review[k])

\* A short sequence is the tuple of its elements.
LEMMA TwoElements ==
  ASSUME NEW S, NEW s \in Seq(S), Len(s) = 2
  PROVE  s = <<s[1], s[2]>>
<1>1. s[1] \in S /\ s[2] \in S
  BY ElementOfSeq
<1>2. <<s[1], s[2]>> \in Seq(S) /\ Len(<<s[1], s[2]>>) = 2
  BY <1>1
<1>3. QED
  BY <1>2, SeqEqual

LEMMA ThreeElements ==
  ASSUME NEW S, NEW s \in Seq(S), Len(s) = 3
  PROVE  s = <<s[1], s[2], s[3]>>
<1>1. \A i \in 1..3 : s[i] \in S
  BY ElementOfSeq
<1>2. <<s[1], s[2], s[3]>> \in Seq(S) /\ Len(<<s[1], s[2], s[3]>>) = 3
  BY <1>1
<1>3. QED
  BY <1>2, SeqEqual

\* A row of this shape has the history it should.
LEMMA ShapeIsHistory == CasesShaped => CaseHistory
<1> SUFFICES ASSUME CasesShaped, NEW k \in Cases
             PROVE  LET events == review[k].events
                        asked == {i \in DOMAIN events : events[i].type = "EVIDENCE_REQUESTED"}
                        closing == IF review[k].state = "RESOLVED" THEN 2 ELSE 0
                        n == Len(events)
                    IN CASE review[k].state = "ABSENT" -> n = 0
                         [] review[k].state = "OPEN" -> TypesOf(k) = <<"CASE_OPENED">> /\ review[k].reviewer = NoReviewer
                         [] OTHER ->
                              /\ SubSeq(TypesOf(k), 1, 3) = <<"CASE_OPENED", "CASE_ASSIGNED", "REVIEW_STARTED">>
                              /\ asked = 4..(n - closing)
                              /\ closing = 2 => SubSeq(TypesOf(k), n - 1, n) = <<"RESOLUTION_RECORDED", "CASE_CLOSED">>
                              /\ \A i \in 2..n : events[i].by = review[k].reviewer
                              /\ \A i, j \in asked : events[i] = events[j] => i = j
  BY DEF CaseHistory
<1> DEFINE events == review[k].events
           asked == {i \in DOMAIN events : events[i].type = "EVIDENCE_REQUESTED"}
           closing == IF review[k].state = "RESOLVED" THEN 2 ELSE 0
           n == Len(events)
<1>1. CaseShape(review[k]) /\ review[k] \in CaseRow
  BY DEF CasesShaped, CaseShape
<1>2. events \in Seq(EventSet) /\ n \in Nat /\ DOMAIN events = 1..n
  BY <1>1, LenProperties DEF CaseRow
<1>3. TypesOf(k) = [i \in 1..n |-> events[i].type]
  BY <1>2 DEF TypesOf
<1>4. CASE review[k].state = "ABSENT"
  BY <1>1, <1>4 DEF CaseShape, NoCase
<1>5. CASE review[k].state = "OPEN"
  <2>1. n = 1 /\ events[1].type = "CASE_OPENED" /\ review[k].reviewer = NoReviewer
    BY <1>1, <1>5 DEF CaseShape
  <2>2. TypesOf(k) = [i \in 1..1 |-> "CASE_OPENED"]
    BY <1>3, <2>1
  <2>3. [i \in 1..1 |-> "CASE_OPENED"] = <<"CASE_OPENED">>
    OBVIOUS
  <2>4. QED
    BY <1>5, <2>1, <2>2, <2>3
<1>6. CASE review[k].state \in {"MORE_EVIDENCE_REQUIRED", "RESOLVED"}
  <2>1. Story(events, closing, review[k].reviewer)
    BY <1>1, <1>6 DEF CaseShape
  <2> HIDE DEF events, n, closing
  <2>2. closing \in {0, 2} /\ n >= 3 + closing
    BY <1>6, <2>1 DEF Story, n, closing
  <2>3. /\ events[1].type = "CASE_OPENED" /\ events[2].type = "CASE_ASSIGNED" /\ events[3].type = "REVIEW_STARTED"
        /\ \A i \in 4..(n - closing) : events[i].type = "EVIDENCE_REQUESTED"
        /\ closing = 2 => events[n - 1].type = "RESOLUTION_RECORDED" /\ events[n].type = "CASE_CLOSED"
    BY <2>1 DEF Story, n
  <2>4. SubSeq(TypesOf(k), 1, 3) = <<"CASE_OPENED", "CASE_ASSIGNED", "REVIEW_STARTED">>
    <3>1. TypesOf(k)[1] = "CASE_OPENED" /\ TypesOf(k)[2] = "CASE_ASSIGNED" /\ TypesOf(k)[3] = "REVIEW_STARTED"
      BY <1>2, <1>3, <2>2, <2>3
    <3>2. \A i \in 1..3 : TypesOf(k)[i] \in EventTypes
      BY <3>1 DEF EventTypes
    <3>3. /\ SubSeq(TypesOf(k), 1, 3) \in Seq(EventTypes) /\ Len(SubSeq(TypesOf(k), 1, 3)) = 3
          /\ \A i \in 1..3 : SubSeq(TypesOf(k), 1, 3)[i] = TypesOf(k)[i]
      BY <3>2, SubSeqProperties
    <3> DEFINE t == SubSeq(TypesOf(k), 1, 3)
    <3> HIDE DEF t
    <3>4. t = <<t[1], t[2], t[3]>>
      BY <3>3, ThreeElements DEF t
    <3>5. t[1] = "CASE_OPENED" /\ t[2] = "CASE_ASSIGNED" /\ t[3] = "REVIEW_STARTED"
      BY <3>1, <3>3 DEF t
    <3>6. QED
      BY <3>4, <3>5 DEF t
  <2>5. asked = 4..(n - closing)
    BY <1>2, <2>2, <2>3
  <2>6. ASSUME closing = 2 PROVE SubSeq(TypesOf(k), n - 1, n) = <<"RESOLUTION_RECORDED", "CASE_CLOSED">>
    <3>1. TypesOf(k)[n - 1] = "RESOLUTION_RECORDED" /\ TypesOf(k)[n] = "CASE_CLOSED"
      BY <1>2, <1>3, <2>2, <2>3, <2>6
    <3>2. \A i \in (n - 1)..n : TypesOf(k)[i] \in EventTypes
      BY <1>2, <3>1 DEF EventTypes
    <3>3. /\ SubSeq(TypesOf(k), n - 1, n) \in Seq(EventTypes) /\ Len(SubSeq(TypesOf(k), n - 1, n)) = 2
          /\ \A i \in 1..2 : SubSeq(TypesOf(k), n - 1, n)[i] = TypesOf(k)[n - 2 + i]
      <4>1. n - 1 \in Int /\ n \in Int /\ n - 1 <= n /\ n - (n - 1) + 1 = 2
        BY <1>2
      <4>2. \A i \in 1..2 : (n - 1) + i - 1 = n - 2 + i
        BY <1>2
      <4>3. QED
        BY <3>2, <4>1, <4>2, SubSeqProperties
    <3> DEFINE t == SubSeq(TypesOf(k), n - 1, n)
    <3> HIDE DEF t
    <3>4. t = <<t[1], t[2]>>
      BY <3>3, TwoElements DEF t
    <3>5. t[1] = "RESOLUTION_RECORDED" /\ t[2] = "CASE_CLOSED"
      BY <1>2, <3>1, <3>3 DEF t
    <3>6. QED
      BY <3>4, <3>5 DEF t
  <2>7. \A i \in 2..n : events[i].by = review[k].reviewer
    BY <2>1 DEF Story, n
  <2>8. \A i, j \in 4..(n - closing) : events[i] = events[j] => i = j
    BY <2>1 DEF Story, n
  <2>9. QED
    BY <1>6, <2>4, <2>5, <2>6, <2>7, <2>8 DEF events, n, closing
<1>7. QED
  BY <1>1, <1>4, <1>5, <1>6 DEF CaseRow

\* What the first action of a reviewer, and a later one, append to the events of a case.
LEMMA FirstActionEvents ==
  ASSUME NEW e \in Seq(EventSet), Len(e) = 1, NEW a \in EventSet, NEW b \in EventSet,
         NEW rest \in Seq(EventSet)
  PROVE  LET x == e \o <<a, b>> \o rest IN
         /\ x \in Seq(EventSet) /\ Len(x) = 3 + Len(rest)
         /\ x[1] = e[1] /\ x[2] = a /\ x[3] = b
         /\ \A i \in 1..Len(rest) : x[3 + i] = rest[i]
<1> DEFINE two == <<a, b>>
           x == e \o two \o rest
<1>1. two \in Seq(EventSet) /\ Len(two) = 2 /\ two[1] = a /\ two[2] = b
  OBVIOUS
<1> HIDE DEF two
<1> DEFINE y == e \o two
<1>2. /\ y \in Seq(EventSet) /\ Len(y) = 3
      /\ \A i \in 1..3 : y[i] = IF i <= 1 THEN e[i] ELSE two[i - 1]
  <2>1. y \in Seq(EventSet) /\ Len(y) = Len(e) + Len(two)
        /\ \A i \in 1..(Len(e) + Len(two)) : y[i] = IF i <= Len(e) THEN e[i] ELSE two[i - Len(e)]
    BY <1>1, ConcatProperties
  <2>2. Len(e) + Len(two) = 3
    BY <1>1
  <2>3. QED
    BY <2>1, <2>2
<1>3. y[1] = e[1] /\ y[2] = a /\ y[3] = b
  BY <1>1, <1>2
<1> HIDE DEF y
<1>4. Len(rest) \in Nat
  BY LenProperties
<1>5. /\ x \in Seq(EventSet) /\ Len(x) = 3 + Len(rest)
      /\ \A i \in 1..(3 + Len(rest)) : x[i] = IF i <= 3 THEN y[i] ELSE rest[i - 3]
  BY <1>2, ConcatProperties DEF y, two
<1>6. x[1] = y[1] /\ x[2] = y[2] /\ x[3] = y[3]
  BY <1>4, <1>5
<1>7. ASSUME NEW i \in 1..Len(rest) PROVE x[3 + i] = rest[i]
  BY <1>4, <1>5
<1>8. x[1] = e[1] /\ x[2] = a /\ x[3] = b
  BY <1>3, <1>6
<1> HIDE DEF x
<1>9. QED
  BY <1>5, <1>7, <1>8 DEF x, two

LEMMA LaterActionEvents ==
  ASSUME NEW e \in Seq(EventSet), NEW rest \in Seq(EventSet)
  PROVE  LET x == e \o <<>> \o rest IN
         /\ x \in Seq(EventSet) /\ Len(x) = Len(e) + Len(rest)
         /\ \A i \in 1..Len(e) : x[i] = e[i]
         /\ \A i \in 1..Len(rest) : x[Len(e) + i] = rest[i]
<1> DEFINE x == e \o <<>> \o rest
<1>1. e \o <<>> = e
  BY ConcatEmptySeq
<1>2. Len(e) \in Nat /\ Len(rest) \in Nat
  BY LenProperties
<1>3. /\ x \in Seq(EventSet) /\ Len(x) = Len(e) + Len(rest)
      /\ \A i \in 1..(Len(e) + Len(rest)) : x[i] = IF i <= Len(e) THEN e[i] ELSE rest[i - Len(e)]
  BY <1>1, ConcatProperties
<1>4. ASSUME NEW i \in 1..Len(rest) PROVE x[Len(e) + i] = rest[i]
  <2>1. Len(e) + i \in 1..(Len(e) + Len(rest)) /\ ~(Len(e) + i <= Len(e)) /\ (Len(e) + i) - Len(e) = i
    BY <1>2
  <2>2. QED
    BY <1>3, <2>1
<1>5. QED
  BY <1>2, <1>3, <1>4

\* A story that goes on with a request not made before.
LEMMA StoryAsks ==
  ASSUME NEW e, NEW f, NEW who \in Reviewers, Story(e, 0, who), Len(e) \in Nat,
         Len(f) = Len(e) + 1,
         \A i \in 1..Len(e) : f[i] = e[i] /\ e[i] # f[Len(e) + 1],
         f[Len(e) + 1].type = "EVIDENCE_REQUESTED", f[Len(e) + 1].by = who
  PROVE  Story(f, 0, who)
<1> DEFINE n == Len(e)
<1>1. n \in Nat /\ n >= 3 /\ Len(f) = n + 1
  BY DEF Story
<1>2. \A i \in 1..n : f[i] = e[i] /\ e[i] # f[n + 1]
  OBVIOUS
<1>3. /\ e[1].type = "CASE_OPENED" /\ e[2].type = "CASE_ASSIGNED" /\ e[3].type = "REVIEW_STARTED"
      /\ \A i \in 4..n : e[i].type = "EVIDENCE_REQUESTED"
      /\ \A i \in 2..n : e[i].by = who
      /\ \A i, j \in 4..n : e[i] = e[j] => i = j
  BY <1>1 DEF Story
<1>4. f[n + 1].type = "EVIDENCE_REQUESTED" /\ f[n + 1].by = who
  OBVIOUS
<1> HIDE DEF n
<1>5. \A i \in 4..(n + 1) : f[i].type = "EVIDENCE_REQUESTED"
  <2> TAKE i \in 4..(n + 1)
  <2>1. i = n + 1 \/ i \in 4..n
    BY <1>1
  <2>2. QED
    BY <1>1, <1>2, <1>3, <1>4, <2>1
<1>6. \A i \in 2..(n + 1) : f[i].by = who
  <2> TAKE i \in 2..(n + 1)
  <2>1. i = n + 1 \/ i \in 2..n
    BY <1>1
  <2>2. QED
    BY <1>1, <1>2, <1>3, <1>4, <2>1
<1>7. \A i, j \in 4..(n + 1) : f[i] = f[j] => i = j
  <2> TAKE i, j \in 4..(n + 1)
  <2>1. (i = n + 1 \/ i \in 4..n) /\ (j = n + 1 \/ j \in 4..n)
    BY <1>1
  <2>2. QED
    BY <1>1, <1>2, <1>3, <2>1
<1>8. f[1].type = "CASE_OPENED" /\ f[2].type = "CASE_ASSIGNED" /\ f[3].type = "REVIEW_STARTED"
  BY <1>1, <1>2, <1>3
<1>9. QED
  BY <1>1, <1>5, <1>6, <1>7, <1>8 DEF Story

\* A story that ends with a resolution.
LEMMA StoryEnds ==
  ASSUME NEW e, NEW f, NEW who \in Reviewers, Story(e, 0, who), Len(e) \in Nat,
         Len(f) = Len(e) + 2,
         \A i \in 1..Len(e) : f[i] = e[i],
         f[Len(e) + 1].type = "RESOLUTION_RECORDED", f[Len(e) + 1].by = who,
         f[Len(e) + 2].type = "CASE_CLOSED", f[Len(e) + 2].by = who
  PROVE  Story(f, 2, who)
<1> DEFINE n == Len(e)
<1>1. n \in Nat /\ n >= 3 /\ Len(f) = n + 2
  BY DEF Story
<1>2. \A i \in 1..n : f[i] = e[i]
  OBVIOUS
<1>3. /\ e[1].type = "CASE_OPENED" /\ e[2].type = "CASE_ASSIGNED" /\ e[3].type = "REVIEW_STARTED"
      /\ \A i \in 4..n : e[i].type = "EVIDENCE_REQUESTED"
      /\ \A i \in 2..n : e[i].by = who
      /\ \A i, j \in 4..n : e[i] = e[j] => i = j
  BY <1>1 DEF Story
<1>4. /\ f[n + 1].type = "RESOLUTION_RECORDED" /\ f[n + 1].by = who
      /\ f[n + 2].type = "CASE_CLOSED" /\ f[n + 2].by = who
  OBVIOUS
<1> HIDE DEF n
<1>5. \A i \in 2..(n + 2) : f[i].by = who
  <2> TAKE i \in 2..(n + 2)
  <2>1. i = n + 2 \/ i = n + 1 \/ i \in 2..n
    BY <1>1
  <2>2. QED
    BY <1>1, <1>2, <1>3, <1>4, <2>1
<1>6. /\ f[1].type = "CASE_OPENED" /\ f[2].type = "CASE_ASSIGNED" /\ f[3].type = "REVIEW_STARTED"
      /\ \A i \in 4..n : f[i].type = "EVIDENCE_REQUESTED"
      /\ \A i, j \in 4..n : f[i] = f[j] => i = j
  BY <1>1, <1>2, <1>3
<1>7. Len(f) - 2 = n /\ Len(f) - 1 = n + 1 /\ Len(f) >= 3 + 2
  BY <1>1
<1>8. QED
  BY <1>1, <1>4, <1>5, <1>6, <1>7 DEF Story

\* What an action of a reviewer records: a request not made before, or a resolution.
Deed(rest, closing, who, before) ==
  /\ rest \in Seq(EventSet)
  /\ \A i \in 1..Len(rest) : rest[i].by = who
  /\ \/ /\ closing = 0 /\ Len(rest) = 1
        /\ rest[1].type = "EVIDENCE_REQUESTED"
        /\ \A i \in DOMAIN before : before[i] # rest[1]
     \/ /\ closing = 2 /\ Len(rest) = 2
        /\ rest[1].type = "RESOLUTION_RECORDED" /\ rest[2].type = "CASE_CLOSED"

\* The events after an action of a reviewer, whose case was open or waiting for evidence.
LEMMA ActionStory ==
  ASSUME NEW k \in Cases, NEW v \in Reviewers, NEW why \in Whys, CaseShape(review[k]), OpenFor(k, v),
         NEW closing, NEW rest, Deed(rest, closing, v, review[k].events)
  PROVE  LET f == review[k].events \o Assignment(k, v, why) \o rest
         IN  f \in Seq(EventSet) /\ Story(f, closing, v)
<1> DEFINE e == review[k].events
           a == Event("CASE_ASSIGNED", v, why)
           b == Event("REVIEW_STARTED", v, why)
           f == e \o Assignment(k, v, why) \o rest
<1>1. e \in Seq(EventSet) /\ Len(e) \in Nat /\ DOMAIN e = 1..Len(e)
  BY LenProperties DEF CaseShape, CaseRow
<1>2. a \in EventSet /\ b \in EventSet /\ a.type = "CASE_ASSIGNED" /\ b.type = "REVIEW_STARTED" /\ a.by = v /\ b.by = v
  BY DEF Event, EventSet, EventTypes
<1>3. rest \in Seq(EventSet)
  BY DEF Deed
<1>4. CASE review[k].state = "OPEN"
  <2>1. Len(e) = 1 /\ e[1].type = "CASE_OPENED" /\ review[k].reviewer = NoReviewer
    BY <1>4 DEF CaseShape
  <2>2. f = e \o <<a, b>> \o rest
    BY <2>1 DEF Assignment
  <2> HIDE DEF e, a, b, f
  <2>3. /\ f \in Seq(EventSet) /\ Len(f) = 3 + Len(rest)
        /\ f[1] = e[1] /\ f[2] = a /\ f[3] = b
        /\ \A i \in 1..Len(rest) : f[3 + i] = rest[i]
    BY <1>1, <1>2, <1>3, <2>1, <2>2, FirstActionEvents
  <2>4. \A i \in 2..Len(f) : f[i].by = v
    <3> TAKE i \in 2..Len(f)
    <3>1. Len(rest) \in Nat
      BY DEF Deed
    <3>2. i = 2 \/ i = 3 \/ (i - 3 \in 1..Len(rest) /\ 3 + (i - 3) = i)
      BY <2>3, <3>1
    <3>3. QED
      BY <1>2, <2>3, <3>2 DEF Deed
  <2>5. ASSUME closing = 0 PROVE Story(f, closing, v)
    <3>1. Len(rest) = 1 /\ rest[1].type = "EVIDENCE_REQUESTED"
      BY <2>5 DEF Deed
    <3>2. f[3 + 1] = rest[1]
      BY <2>3, <3>1
    <3>3. Len(f) = 4 /\ f[4].type = "EVIDENCE_REQUESTED"
      BY <2>3, <3>1, <3>2
    <3>4. Len(f) - 0 = 4 /\ Len(f) >= 3 + 0 /\ \A i \in 4..4 : i = 4
      BY <3>3
    <3>5. f[1].type = "CASE_OPENED" /\ f[2].type = "CASE_ASSIGNED" /\ f[3].type = "REVIEW_STARTED"
      BY <1>2, <2>1, <2>3
    <3>6. Story(f, 0, v)
      BY <2>4, <3>3, <3>4, <3>5 DEF Story
    <3>7. QED
      BY <2>5, <3>6
  <2>6. ASSUME closing = 2 PROVE Story(f, closing, v)
    <3>1. Len(rest) = 2 /\ rest[1].type = "RESOLUTION_RECORDED" /\ rest[2].type = "CASE_CLOSED"
      BY <2>6 DEF Deed
    <3>2. f[3 + 1] = rest[1] /\ f[3 + 2] = rest[2]
      BY <2>3, <3>1
    <3>3. Len(f) = 5 /\ f[4].type = "RESOLUTION_RECORDED" /\ f[5].type = "CASE_CLOSED"
      BY <2>3, <3>1, <3>2
    <3>4. Len(f) - 2 = 3 /\ Len(f) - 1 = 4 /\ Len(f) >= 3 + 2 /\ 4..3 = {}
      BY <3>3
    <3>5. f[1].type = "CASE_OPENED" /\ f[2].type = "CASE_ASSIGNED" /\ f[3].type = "REVIEW_STARTED"
      BY <1>2, <2>1, <2>3
    <3>6. Story(f, 2, v)
      BY <2>4, <3>3, <3>4, <3>5 DEF Story
    <3>7. QED
      BY <2>6, <3>6
  <2>7. QED
    BY <2>3, <2>5, <2>6 DEF Deed, f, e
<1>5. CASE review[k].state = "MORE_EVIDENCE_REQUIRED"
  <2>1. Story(e, 0, v) /\ review[k].reviewer = v /\ v # NoReviewer
    BY <1>5, AdmissionAssumption DEF CaseShape, OpenFor
  <2>2. f = e \o <<>> \o rest
    BY <2>1 DEF Assignment
  <2>3. closing = 0 => \A i \in 1..Len(e) : e[i] # rest[1]
    BY <1>1 DEF Deed
  <2> HIDE DEF e, a, b, f
  <2>4. /\ f \in Seq(EventSet) /\ Len(f) = Len(e) + Len(rest)
        /\ \A i \in 1..Len(e) : f[i] = e[i]
        /\ \A i \in 1..Len(rest) : f[Len(e) + i] = rest[i]
    BY <1>1, <1>3, <2>2, LaterActionEvents
  <2>5. ASSUME closing = 0 PROVE Story(f, closing, v)
    <3>1. Len(rest) = 1 /\ rest[1].type = "EVIDENCE_REQUESTED" /\ rest[1].by = v
      BY <2>5 DEF Deed
    <3>2. f[Len(e) + 1] = rest[1] /\ Len(f) = Len(e) + 1
      BY <2>4, <3>1
    <3>3. \A i \in 1..Len(e) : f[i] = e[i] /\ e[i] # f[Len(e) + 1]
      BY <2>3, <2>4, <2>5, <3>2
    <3>4. f[Len(e) + 1].type = "EVIDENCE_REQUESTED" /\ f[Len(e) + 1].by = v
      BY <3>1, <3>2
    <3>5. Story(f, 0, v)
      BY <1>1, <2>1, <3>2, <3>3, <3>4, StoryAsks
    <3>6. QED
      BY <2>5, <3>5
  <2>6. ASSUME closing = 2 PROVE Story(f, closing, v)
    <3>1. /\ Len(rest) = 2 /\ rest[1].type = "RESOLUTION_RECORDED" /\ rest[2].type = "CASE_CLOSED"
          /\ rest[1].by = v /\ rest[2].by = v
      BY <2>6 DEF Deed
    <3>2. f[Len(e) + 1] = rest[1] /\ f[Len(e) + 2] = rest[2] /\ Len(f) = Len(e) + 2
      BY <2>4, <3>1
    <3>3. Story(f, 2, v)
      <4>1. /\ f[Len(e) + 1].type = "RESOLUTION_RECORDED" /\ f[Len(e) + 1].by = v
            /\ f[Len(e) + 2].type = "CASE_CLOSED" /\ f[Len(e) + 2].by = v
        BY <3>1, <3>2
      <4>2. QED
        BY <1>1, <2>1, <2>4, <3>2, <4>1, StoryEnds
    <3>4. QED
      BY <2>6, <3>3
  <2>7. QED
    BY <2>4, <2>5, <2>6 DEF Deed, f, e
<1>6. QED
  BY <1>4, <1>5 DEF OpenFor

\* request_more_evidence keeps the shape of its case.
LEMMA RequestShape ==
  ASSUME CasesShaped, NEW k \in Cases, NEW v \in Reviewers, NEW why \in Whys, RequestMoreEvidence(k, v, why)
  PROVE  /\ CasesShaped'
         /\ \A j \in Cases : /\ review'[j].state = "ABSENT" <=> review[j].state = "ABSENT"
                             /\ review'[j].resolution = review[j].resolution
<1> DEFINE rest == <<Event("EVIDENCE_REQUESTED", v, why)>>
           f == review[k].events \o Assignment(k, v, why) \o rest
<1>1. CaseShape(review[k]) /\ review[k] \in CaseRow /\ OpenFor(k, v) /\ ~AlreadyRequested(k, v, why)
  BY DEF CasesShaped, CaseShape, RequestMoreEvidence
<1>2. \A i \in DOMAIN review[k].events : review[k].events[i] # Event("EVIDENCE_REQUESTED", v, why)
  <2>1. CASE review[k].state = "MORE_EVIDENCE_REQUIRED"
    BY <1>1, <2>1 DEF AlreadyRequested
  <2>2. CASE review[k].state = "OPEN"
    <3>1. review[k].events \in Seq(EventSet) /\ Len(review[k].events) = 1 /\ review[k].events[1].type = "CASE_OPENED"
      BY <1>1, <2>2 DEF CaseShape, CaseRow
    <3>2. DOMAIN review[k].events = 1..1
      BY <3>1, LenProperties
    <3>3. QED
      BY <3>1, <3>2 DEF Event
  <2>3. QED
    BY <1>1, <2>1, <2>2 DEF OpenFor
<1>3. Deed(rest, 0, v, review[k].events)
  BY <1>2 DEF Deed, Event, EventSet, EventTypes
<1>4. f \in Seq(EventSet) /\ Story(f, 0, v)
  BY <1>1, <1>3, ActionStory
<1> HIDE DEF rest, f
<1>5. /\ review' = [review EXCEPT ![k].state = "MORE_EVIDENCE_REQUIRED", ![k].reviewer = v, ![k].events = f]
      /\ review = [j \in Cases |-> review[j]]
  BY DEF RequestMoreEvidence, CasesShaped, f, rest
<1>6. /\ review'[k].state = "MORE_EVIDENCE_REQUIRED" /\ review'[k].reviewer = v /\ review'[k].events = f
      /\ review'[k].resolution = review[k].resolution /\ review'[k].why = review[k].why
      /\ review'[k] \in CaseRow
  BY <1>1, <1>4, <1>5 DEF CaseRow
<1>7. \A j \in Cases : j # k => review'[j] = review[j]
  BY <1>5
<1>8. review' = [j \in Cases |-> review'[j]]
  BY <1>5
<1>9. review[k].resolution = "NONE" /\ review[k].state # "ABSENT"
  BY <1>1 DEF CaseShape, OpenFor
<1>10. CaseShape(review'[k])
  BY <1>4, <1>6, <1>9 DEF CaseShape
<1>11. CasesShaped'
  BY <1>7, <1>8, <1>10 DEF CasesShaped
<1>12. QED
  BY <1>6, <1>7, <1>9, <1>11

\* resolve_human_review_case closes one case and keeps the shape of all.
LEMMA ResolveShape ==
  ASSUME CasesShaped, NEW k \in Cases, NEW v \in Reviewers, NEW action \in Resolutions, NEW why \in Whys,
         Resolve(k, v, action, why)
  PROVE  /\ CasesShaped'
         /\ review[k].resolution = "NONE" /\ review'[k].resolution = action
         /\ \A j \in Cases : /\ review'[j].state = "ABSENT" <=> review[j].state = "ABSENT"
                             /\ j # k => review'[j].resolution = review[j].resolution
<1> DEFINE rest == <<Event("RESOLUTION_RECORDED", v, why), Event("CASE_CLOSED", v, why)>>
           f == review[k].events \o Assignment(k, v, why) \o rest
<1>1. CaseShape(review[k]) /\ review[k] \in CaseRow /\ OpenFor(k, v)
  BY DEF CasesShaped, CaseShape, Resolve
<1>2. Deed(rest, 2, v, review[k].events)
  <2>1. rest \in Seq(EventSet) /\ Len(rest) = 2
    BY DEF Event, EventSet, EventTypes
  <2>2. rest[1].type = "RESOLUTION_RECORDED" /\ rest[2].type = "CASE_CLOSED" /\ rest[1].by = v /\ rest[2].by = v
    BY DEF Event
  <2>3. \A i \in 1..2 : rest[i].by = v
    BY <2>2
  <2>4. QED
    BY <2>1, <2>2, <2>3 DEF Deed
<1>3. f \in Seq(EventSet) /\ Story(f, 2, v)
  BY <1>1, <1>2, ActionStory
<1> HIDE DEF rest, f
<1>4. /\ review' = [review EXCEPT ![k].state = "RESOLVED", ![k].reviewer = v, ![k].resolution = action,
                                  ![k].why = why, ![k].events = f]
      /\ review = [j \in Cases |-> review[j]]
  BY DEF Resolve, CasesShaped, f, rest
<1>5. /\ review'[k].state = "RESOLVED" /\ review'[k].reviewer = v /\ review'[k].events = f
      /\ review'[k].resolution = action /\ review'[k].why = why
      /\ review'[k] \in CaseRow
  BY <1>1, <1>3, <1>4 DEF CaseRow
<1>6. \A j \in Cases : j # k => review'[j] = review[j]
  BY <1>4
<1>7. review' = [j \in Cases |-> review'[j]]
  BY <1>4
<1>8. review[k].resolution = "NONE" /\ review[k].state # "ABSENT" /\ action # "NONE"
  BY <1>1 DEF CaseShape, OpenFor, Resolutions
<1>9. CaseShape(review'[k])
  BY <1>3, <1>5, <1>8 DEF CaseShape
<1>10. CasesShaped'
  BY <1>6, <1>7, <1>9 DEF CasesShaped
<1>11. QED
  BY <1>5, <1>6, <1>8, <1>10

\* The trigger on decisions opens empty rows only.
LEMMA OpenShape ==
  ASSUME CasesShaped, NEW ks, OpenCases(ks)
  PROVE  /\ CasesShaped'
         /\ \A j \in Cases : /\ review'[j].state = "ABSENT" <=> (review[j].state = "ABSENT" /\ j \notin ks)
                             /\ review'[j].resolution = review[j].resolution
<1> DEFINE events == <<Event("CASE_OPENED", NoReviewer, NoWhy)>>
           opened == [NoCase EXCEPT !.state = "OPEN", !.events = events]
<1>1. events \in Seq(EventSet) /\ Len(events) = 1 /\ events[1].type = "CASE_OPENED"
  BY DEF Event, EventSet, EventTypes
<1> HIDE DEF events
<1>2. /\ opened.state = "OPEN" /\ opened.reviewer = NoReviewer /\ opened.resolution = "NONE"
      /\ opened.events = events /\ opened \in CaseRow
  BY <1>1 DEF NoCase, CaseRow
<1>3. CaseShape(opened) /\ opened.state = "OPEN" /\ opened.resolution = "NONE" /\ NoCase.resolution = "NONE"
      /\ NoCase.state = "ABSENT"
  BY <1>1, <1>2 DEF CaseShape, CaseRow, NoCase
<1>4. review' = [j \in Cases |-> IF j \in ks /\ review[j] = NoCase THEN opened ELSE review[j]]
  BY DEF OpenCases, events
<1> HIDE DEF opened
<1>5. \A j \in Cases : CaseShape(review[j]) /\ (review[j].state = "ABSENT" => review[j] = NoCase)
  BY DEF CasesShaped, CaseShape
<1>6. \A j \in Cases : review'[j] = IF j \in ks /\ review[j] = NoCase THEN opened ELSE review[j]
  BY <1>4
<1>7. CasesShaped'
  BY <1>3, <1>4, <1>5, <1>6 DEF CasesShaped
<1>8. QED
  BY <1>3, <1>5, <1>6, <1>7

ContextTyped == context \in [Runs -> Seq(Cases)]

\* What a resolution appends to the dossier's context is not there yet.
LEMMA ResolveContext ==
  ASSUME CasesShaped, ContextTyped, ContextOnce, NEW k \in Cases, NEW v \in Reviewers,
         NEW action \in Resolutions, NEW why \in Whys, Resolve(k, v, action, why)
  PROVE  ContextTyped' /\ ContextOnce'
<1> DEFINE accepted(r) == {j \in Cases : RunOf(j) = r /\ review[j].resolution = "ACCEPT_AS_CONTEXT"}
<1>1. /\ review[k].resolution = "NONE" /\ review'[k].resolution = action
      /\ \A j \in Cases : j # k => review'[j].resolution = review[j].resolution
  BY ResolveShape
<1>2. RunOf(k) \in Runs
  BY DEF RunOf, Cases, Handoffs
<1>3. CASE action = "ACCEPT_AS_CONTEXT"
  <2> DEFINE r == RunOf(k)
             s == context[r]
             t == Append(s, k)
  <2>1. context' = [context EXCEPT ![r] = t]
    BY <1>3 DEF Resolve
  <2>2. s \in Seq(Cases) /\ Len(s) \in Nat /\ DOMAIN s = 1..Len(s)
    BY <1>2, LenProperties DEF ContextTyped
  <2>3. /\ t \in Seq(Cases) /\ Len(t) = Len(s) + 1
        /\ (\A i \in 1..Len(s) : t[i] = s[i]) /\ t[Len(s) + 1] = k
    BY <2>2, AppendProperties
  <2>4. DOMAIN t = 1..(Len(s) + 1)
    BY <2>3, LenProperties
  <2>5. /\ \A i, j \in DOMAIN s : s[i] = s[j] => i = j
        /\ {s[i] : i \in DOMAIN s} = accepted(r)
    BY <1>2 DEF ContextOnce
  <2>6. k \notin accepted(r)
    BY <1>1
  <2> HIDE DEF t, s
  <2>7. \A i \in 1..Len(s) : s[i] # k
    BY <2>2, <2>5, <2>6
  <2>8. \A i, j \in DOMAIN t : t[i] = t[j] => i = j
    <3> TAKE i, j \in DOMAIN t
    <3>1. (i = Len(s) + 1 \/ i \in 1..Len(s)) /\ (j = Len(s) + 1 \/ j \in 1..Len(s))
      BY <2>2, <2>4
    <3>2. QED
      BY <2>2, <2>3, <2>5, <2>7, <3>1
  <2>9. {t[i] : i \in DOMAIN t} = accepted(r) \cup {k}
    <3>1. \A i \in DOMAIN t : t[i] \in accepted(r) \cup {k}
      <4> TAKE i \in DOMAIN t
      <4>1. i = Len(s) + 1 \/ i \in 1..Len(s)
        BY <2>2, <2>4
      <4>2. QED
        BY <2>2, <2>3, <2>5, <4>1
    <3>2. \A j \in accepted(r) : \E i \in DOMAIN t : t[i] = j
      <4> TAKE j \in accepted(r)
      <4>1. PICK i \in DOMAIN s : s[i] = j
        BY <2>5
      <4>2. i \in DOMAIN t /\ t[i] = j
        BY <2>2, <2>3, <2>4, <4>1
      <4>3. QED
        BY <4>2
    <3>3. Len(s) + 1 \in DOMAIN t
      BY <2>2, <2>4
    <3>4. QED
      BY <2>3, <3>1, <3>2, <3>3
  <2> DEFINE accepted1(q) == {j \in Cases : RunOf(j) = q /\ review'[j].resolution = "ACCEPT_AS_CONTEXT"}
  <2>10. accepted1(r) = accepted(r) \cup {k} /\ \A q \in Runs \ {r} : accepted1(q) = accepted(q)
    BY <1>1, <1>3
  <2>11. \A q \in Runs : context'[q] = IF q = r THEN t ELSE context[q]
    BY <2>1 DEF ContextTyped
  <2>12. ContextTyped'
    BY <2>1, <2>3 DEF ContextTyped
  <2>13. \A q \in Runs \ {r} : /\ \A i, j \in DOMAIN context[q] : context[q][i] = context[q][j] => i = j
                               /\ {context[q][i] : i \in DOMAIN context[q]} = accepted(q)
    BY DEF ContextOnce
  <2> HIDE DEF accepted, accepted1, r
  <2>14. \A q \in Runs : /\ \A i, j \in DOMAIN context'[q] : context'[q][i] = context'[q][j] => i = j
                         /\ {context'[q][i] : i \in DOMAIN context'[q]} = accepted1(q)
    <3> TAKE q \in Runs
    <3>1. CASE q = r
      BY <2>8, <2>9, <2>10, <2>11, <3>1
    <3>2. CASE q # r
      BY <2>10, <2>11, <2>13, <3>2
    <3>3. QED
      BY <3>1, <3>2
  <2>15. QED
    BY <2>12, <2>14 DEF ContextOnce, accepted1
<1>4. CASE action # "ACCEPT_AS_CONTEXT"
  <2>1. context' = context
    BY <1>4 DEF Resolve
  <2>2. \A j \in Cases : review'[j].resolution = "ACCEPT_AS_CONTEXT" <=> review[j].resolution = "ACCEPT_AS_CONTEXT"
    BY <1>1, <1>4
  <2>3. \A r \in Runs : {j \in Cases : RunOf(j) = r /\ review'[j].resolution = "ACCEPT_AS_CONTEXT"} = accepted(r)
    BY <2>2
  <2>4. QED
    BY <2>1, <2>3 DEF ContextOnce, ContextTyped
<1>5. QED
  BY <1>3, <1>4

\* A step that changes no resolution and no context keeps the contexts as they should be.
LEMMA SameContext ==
  ASSUME ContextTyped, ContextOnce, UNCHANGED context,
         \A j \in Cases : review'[j].resolution = review[j].resolution
  PROVE  ContextTyped' /\ ContextOnce'
<1>1. \A r \in Runs : {j \in Cases : RunOf(j) = r /\ review'[j].resolution = "ACCEPT_AS_CONTEXT"}
                        = {j \in Cases : RunOf(j) = r /\ review[j].resolution = "ACCEPT_AS_CONTEXT"}
  OBVIOUS
<1>2. QED
  BY <1>1 DEF ContextOnce, ContextTyped

-----------------------------------------------------------------------------
(* Types. *)

RowsTyped ==
  /\ run \in [Runs -> {"ABSENT", "QUEUED", "FAILED", "QUARANTINED", "COMPLETED_PROVISIONAL",
                       "COMPLETED", "HUMAN_REVIEW_REQUIRED"} \cup DOMAIN Stage]
  /\ claims \in [Runs -> SUBSET Facts]
  /\ link \in [Runs -> Handoffs \cup {NoHandoff}]
  /\ dossier \in [Runs -> {"ABSENT", "TRACEABLE_PROVISIONAL", "TRACEABLE_WITH_ADMITTED_FACTS"}]
  /\ handoff \in [Handoffs -> {"ABSENT", "PENDING", "CONSUMED", "REJECTED", "QUARANTINED"}]
  /\ package \in [Handoffs -> SUBSET Candidates]
  /\ decision \in [Cases -> {"NONE", "ADMITTED_REDERIVED", "DUPLICATE", "REJECTED", "CONTESTED",
                             "HUMAN_REVIEW_REQUIRED"}]
  /\ candidate \in [Candidates -> {"ABSENT", "ADMISSION_QUEUED", "ADMITTED", "REJECTED", "CONTESTED",
                                   "HUMAN_REVIEW_REQUIRED"}]
  /\ canon \in SUBSET Facts
  /\ admissions \in [Facts -> Nat]
  /\ sourceOpen \in BOOLEAN

RelaysTyped ==
  /\ P!RelayTypeOK /\ proposalQueue \in Seq(Runs)
  /\ A!RelayTypeOK /\ admissionQueue \in Seq(Handoffs)

\* A process that is not idle has a job in hand.
ProcessesTyped ==
  /\ worker \in [Workers -> [at : {"IDLE", "INSPECT", "EXECUTE", "PERSIST", "WRITE", "FAILED", "QUARANTINED"}
                                    \cup DOMAIN Stage,
                             job : Runs \cup {NoRun},
                             package : SUBSET Candidates]]
  /\ runtime \in [Runtimes -> [at : {"IDLE", "LOAD", "DECIDE", "REJECTED", "QUARANTINED"},
                               job : Handoffs \cup {NoHandoff}]]
  /\ \A w \in Workers : worker[w].at # "IDLE" => worker[w].job \in Runs
  /\ \A m \in Runtimes : runtime[m].at # "IDLE" => runtime[m].job \in Handoffs
  /\ outages \in Nat /\ crashes \in Nat

Typed == RowsTyped /\ RelaysTyped /\ ProcessesTyped

\* The steps of the two relays keep the types of their rows and publishers.
LEMMA ProposalRelayTyped ==
  ASSUME P!RelayTypeOK, NEW p \in Publishers,
         \/ P!SelectPending(p) \/ P!MarkOutbox(p) \/ P!PublisherDies(p)
         \/ \E r \in proposalPub[p].batch : P!Send(p, r) \/ P!SendRefused(p, r)
  PROVE  P!RelayTypeOK'
<1> USE DEF P!RelayTypeOK
<1>1. CASE P!SelectPending(p)
  BY <1>1 DEF P!SelectPending, P!PendingOutbox
<1>2. ASSUME NEW r \in proposalPub[p].batch, NEW at \in {"SENT", "REFUSED"}, P!Take(p, r, at)
      PROVE  P!RelayTypeOK'
  BY <1>2 DEF P!Take
<1>3. CASE P!MarkOutbox(p)
  <2>1. proposalOutbox' \in [Runs -> [status : {"ABSENT", "PENDING", "PUBLISHED", "FAILED"}, attempts : Nat]]
    BY <1>3 DEF P!MarkOutbox, P!Published, P!Refused
  <2>2. proposalPub' \in [Publishers -> [at : {"IDLE", "SEND", "SENT", "REFUSED"},
                                         batch : SUBSET Runs, sending : Runs \cup {NoRun}]]
    BY <1>3 DEF P!MarkOutbox, P!Idle
  <2>3. \A q \in Publishers : proposalPub'[q].at \in {"SENT", "REFUSED"} => proposalPub'[q].sending \in Runs
    BY <1>3 DEF P!MarkOutbox, P!Idle
  <2>4. QED
    BY <2>1, <2>2, <2>3
<1>4. CASE P!PublisherDies(p)
  BY <1>4 DEF P!PublisherDies, P!Idle
<1>5. QED
  BY <1>1, <1>2, <1>3, <1>4 DEF P!Send, P!SendRefused

LEMMA HandoffRelayTyped ==
  ASSUME A!RelayTypeOK, NEW p \in Publishers,
         \/ A!SelectPending(p) \/ A!MarkOutbox(p) \/ A!PublisherDies(p)
         \/ \E h \in admissionPub[p].batch : A!Send(p, h) \/ A!SendRefused(p, h)
  PROVE  A!RelayTypeOK'
<1> USE DEF A!RelayTypeOK
<1>1. CASE A!SelectPending(p)
  BY <1>1 DEF A!SelectPending, A!PendingOutbox
<1>2. ASSUME NEW h \in admissionPub[p].batch, NEW at \in {"SENT", "REFUSED"}, A!Take(p, h, at)
      PROVE  A!RelayTypeOK'
  BY <1>2 DEF A!Take
<1>3. CASE A!MarkOutbox(p)
  <2>1. admissionOutbox' \in [Handoffs -> [status : {"ABSENT", "PENDING", "PUBLISHED", "FAILED"}, attempts : Nat]]
    BY <1>3 DEF A!MarkOutbox, A!Published, A!Refused
  <2>2. admissionPub' \in [Publishers -> [at : {"IDLE", "SEND", "SENT", "REFUSED"},
                                          batch : SUBSET Handoffs, sending : Handoffs \cup {NoHandoff}]]
    BY <1>3 DEF A!MarkOutbox, A!Idle
  <2>3. \A q \in Publishers : admissionPub'[q].at \in {"SENT", "REFUSED"} => admissionPub'[q].sending \in Handoffs
    BY <1>3 DEF A!MarkOutbox, A!Idle
  <2>4. QED
    BY <2>1, <2>2, <2>3
<1>4. CASE A!PublisherDies(p)
  BY <1>4 DEF A!PublisherDies, A!Idle
<1>5. QED
  BY <1>1, <1>2, <1>3, <1>4 DEF A!Send, A!SendRefused

LEMMA InitTyped == Init => Typed
<1> SUFFICES ASSUME Init PROVE Typed
  OBVIOUS
<1>1. RowsTyped
  BY DEF Init, RowsTyped
<1>2. RelaysTyped
  <2>1. P!RelayTypeOK
    BY DEF Init, P!RelayInit, P!RelayTypeOK, P!NoRow, P!Idle
  <2>2. A!RelayTypeOK
    BY DEF Init, A!RelayInit, A!RelayTypeOK, A!NoRow, A!Idle
  <2>3. QED
    BY <2>1, <2>2, EmptySeq DEF Init, RelaysTyped
<1>3. ProcessesTyped
  BY DEF Init, ProcessesTyped, IdleWorker, IdleRuntime
<1>4. QED
  BY <1>1, <1>2, <1>3 DEF Typed

\* What the relays, queues and request rows do.
LEMMA RelaysStep ==
  ASSUME Typed, [Next]_vars
  PROVE  RelaysTyped'
<1> USE DEF Typed, RelaysTyped
<1>1. ASSUME NEW r \in Runs, CreateRun(r) PROVE RelaysTyped'
  <2>1. P!RelayTypeOK'
    BY <1>1 DEF CreateRun, P!RelayTypeOK, P!NewRow
  <2>2. A!RelayTypeOK'
    BY <1>1 DEF CreateRun, A!RelayTypeOK, admissionVars
  <2>3. QED
    BY <1>1, <2>1, <2>2 DEF CreateRun, admissionVars
<1>2. ASSUME NEW p \in Publishers, PublishProposals(p) PROVE RelaysTyped'
  <2>1. P!RelayTypeOK'
    BY <1>2, ProposalRelayTyped DEF PublishProposals
  <2>2. A!RelayTypeOK'
    BY <1>2 DEF PublishProposals, A!RelayTypeOK, admissionVars
  <2>3. proposalQueue' \in Seq(Runs)
    <3>1. ASSUME NEW r \in proposalPub[p].batch, proposalQueue' = Append(proposalQueue, r)
          PROVE  proposalQueue' \in Seq(Runs)
      <4>1. r \in Runs
        BY <3>1 DEF P!RelayTypeOK
      <4>2. QED
        BY <3>1, <4>1, AppendProperties
    <3>2. QED
      BY <1>2, <3>1 DEF PublishProposals
  <2>4. QED
    BY <1>2, <2>1, <2>2, <2>3 DEF PublishProposals, admissionVars
<1>3. ASSUME NEW p \in Publishers, PublishHandoffs(p) PROVE RelaysTyped'
  <2>1. A!RelayTypeOK'
    BY <1>3, HandoffRelayTyped DEF PublishHandoffs
  <2>2. P!RelayTypeOK'
    BY <1>3 DEF PublishHandoffs, P!RelayTypeOK, proposalVars
  <2>3. admissionQueue' \in Seq(Handoffs)
    <3>1. ASSUME NEW h \in admissionPub[p].batch, admissionQueue' = Append(admissionQueue, h)
          PROVE  admissionQueue' \in Seq(Handoffs)
      <4>1. h \in Handoffs
        BY <3>1 DEF A!RelayTypeOK
      <4>2. QED
        BY <3>1, <4>1, AppendProperties
    <3>2. QED
      BY <1>3, <3>1 DEF PublishHandoffs
  <2>4. QED
    BY <1>3, <2>1, <2>2, <2>3 DEF PublishHandoffs, proposalVars
<1>4. ASSUME UNCHANGED <<proposalOutbox, proposalPub, admissionOutbox, admissionPub>>,
             proposalQueue' \in Seq(Runs), admissionQueue' \in Seq(Handoffs)
      PROVE  RelaysTyped'
  BY <1>4 DEF P!RelayTypeOK, A!RelayTypeOK
<1>5. ASSUME NEW w \in Workers, PersistResult(w) PROVE RelaysTyped'
  <2>1. A!RelayTypeOK'
    BY <1>5 DEF PersistResult, A!RelayTypeOK, A!NewRow
  <2>2. P!RelayTypeOK'
    BY <1>5 DEF PersistResult, P!RelayTypeOK, proposalVars
  <2>3. QED
    BY <1>5, <2>1, <2>2 DEF PersistResult, proposalVars
<1>6. ASSUME NEW w \in Workers, Work(w), ~PersistResult(w) PROVE RelaysTyped'
  <2>1. CASE DequeueProposal(w)
    BY <1>4, <2>1, HeadTailProperties DEF DequeueProposal, workerFrame, admissionVars
  <2>2. CASE ~DequeueProposal(w)
    BY <1>4, <1>6, <2>2 DEF Work, InspectRun, TransitionRun, Execute, BeginPersist,
       RecordProposalFailure, WorkerDies, workerFrame, admissionVars, proposalVars
  <2>3. QED
    BY <2>1, <2>2
<1>7. ASSUME NEW m \in Runtimes, Admit(m) PROVE RelaysTyped'
  <2>1. CASE DequeueHandoff(m)
    BY <1>4, <2>1, HeadTailProperties DEF DequeueHandoff, runtimeFrame, proposalVars
  <2>2. CASE ~DequeueHandoff(m)
    BY <1>4, <1>7, <2>2 DEF Admit, ReplayDecision, Validate, Decide, RecordAdmissionFailure, RuntimeDies,
       runtimeFrame, admissionVars, proposalVars
  <2>3. QED
    BY <2>1, <2>2
<1>8. CASE SwitchSource \/ ReviewStep \/ UNCHANGED vars
  BY <1>4, <1>8 DEF SwitchSource, ReviewStep, vars, admissionVars, proposalVars
<1>9. QED
  BY <1>1, <1>2, <1>3, <1>5, <1>6, <1>7, <1>8 DEF Next

LEMMA ProcessesStep ==
  ASSUME Typed, [Next]_vars
  PROVE  ProcessesTyped'
<1> USE DEF Typed, ProcessesTyped
<1>1. ASSUME UNCHANGED <<worker, runtime>>, outages' \in Nat, crashes' \in Nat PROVE ProcessesTyped'
  BY <1>1
<1>2. CASE (\E r \in Runs : CreateRun(r)) \/ SwitchSource \/ ReviewStep \/ UNCHANGED vars
  BY <1>1, <1>2 DEF CreateRun, SwitchSource, ReviewStep, vars, faultVars
<1>3. ASSUME NEW p \in Publishers, PublishProposals(p) \/ PublishHandoffs(p) PROVE ProcessesTyped'
  BY <1>1, <1>3 DEF PublishProposals, PublishHandoffs, Refusal, Death, faultVars
<1>4. ASSUME NEW w \in Workers, Work(w) PROVE ProcessesTyped'
  <2> DEFINE Positions == {"IDLE", "INSPECT", "EXECUTE", "PERSIST", "WRITE", "FAILED", "QUARANTINED"} \cup DOMAIN Stage
             Row == [at : Positions, job : Runs \cup {NoRun}, package : SUBSET Candidates]
  <2>1. DOMAIN Stage = {"RETRIEVING", "DOCUMENT_PARSING", "SECURITY_SCANNING", "PROPOSING", "EVIDENCE_BINDING",
                        "HANDOFF_PENDING"}
    BY DEF Stage
  <2>2. \A s \in DOMAIN Stage : Stage[s] \in Positions \ {"IDLE"}
    BY <2>1 DEF Stage
  <2>3. ASSUME NEW row \in Row, row.at # "IDLE" => row.job \in Runs, worker' = [worker EXCEPT ![w] = row],
               UNCHANGED runtime, outages' \in Nat, crashes' \in Nat
        PROVE  ProcessesTyped'
    BY <2>3
  <2>4. IdleWorker \in Row /\ IdleWorker.at = "IDLE"
    BY DEF IdleWorker
  <2>5. worker[w] \in Row
    OBVIOUS
  <2> HIDE DEF Positions
  <2>6. "INSPECT" \in Positions /\ "FAILED" \in Positions /\ "QUARANTINED" \in Positions /\ "WRITE" \in Positions
        /\ "RETRIEVING" \in Positions /\ "EVIDENCE_BINDING" \in Positions
    BY <2>1 DEF Positions
  <2>7. CASE DequeueProposal(w)
    <3>1. Head(proposalQueue) \in Runs
      BY <2>7, HeadTailProperties DEF DequeueProposal, RelaysTyped
    <3>2. QED
      BY <2>5, <2>6, <2>7, <3>1 DEF DequeueProposal, workerFrame, faultVars
  <2>8. CASE InspectRun(w)
    <3> DEFINE at == IF sourceOpen THEN "RETRIEVING" ELSE "FAILED"
               row == IF run[worker[w].job] = "COMPLETED_PROVISIONAL" THEN IdleWorker ELSE [worker[w] EXCEPT !.at = at]
    <3>1. at \in Positions
      BY <2>6
    <3>2. worker[w].job \in Runs /\ [worker[w] EXCEPT !.at = at].job = worker[w].job
      BY <2>5, <2>8 DEF InspectRun
    <3>3. row \in Row /\ (row.at # "IDLE" => row.job \in Runs)
      BY <2>4, <2>5, <3>1, <3>2
    <3>4. worker' = [worker EXCEPT ![w] = row]
      BY <2>8 DEF InspectRun
    <3>5. QED
      BY <2>3, <2>8, <3>3, <3>4 DEF InspectRun, workerFrame, faultVars
  <2>9. CASE TransitionRun(w)
    <3>1. Stage[worker[w].at] \in Positions /\ worker[w].job \in Runs
      BY <2>1, <2>2, <2>9 DEF TransitionRun
    <3>2. QED
      <4> DEFINE row == [worker[w] EXCEPT !.at = Stage[worker[w].at]]
      <4>1. row \in Row /\ row.job \in Runs
        BY <2>5, <3>1
      <4>2. worker' = [worker EXCEPT ![w] = row]
        BY <2>9 DEF TransitionRun
      <4>3. QED
        BY <2>3, <2>9, <4>1, <4>2 DEF TransitionRun, workerFrame, faultVars
  <2>10. CASE Execute(w)
    <3>1. worker[w].job \in Runs
      BY <2>10 DEF Execute
    <3>2. \A proposed \in Proposals(worker[w].job) : proposed \in SUBSET Candidates
      BY <3>1, AdmissionAssumption DEF Proposals
    <3>3. ASSUME NEW proposed \in Proposals(worker[w].job),
                 worker' = [worker EXCEPT ![w].at = "EVIDENCE_BINDING", ![w].package = proposed]
          PROVE  ProcessesTyped'
      <4> DEFINE row == [worker[w] EXCEPT !.at = "EVIDENCE_BINDING", !.package = proposed]
      <4>1. row \in Row /\ row.job \in Runs
        BY <2>5, <2>6, <3>1, <3>2
      <4>2. worker' = [worker EXCEPT ![w] = row]
        BY <3>3
      <4>3. QED
        BY <2>3, <2>10, <4>1, <4>2 DEF Execute, workerFrame, faultVars
    <3>4. ASSUME NEW failure \in Failures, worker' = [worker EXCEPT ![w].at = failure]
          PROVE  ProcessesTyped'
      BY <2>5, <2>6, <2>10, <3>1, <3>4 DEF Execute, Failures, workerFrame, faultVars
    <3>5. QED
      BY <2>10, <3>3, <3>4 DEF Execute
  <2>11. CASE BeginPersist(w)
    BY <2>3, <2>4, <2>5, <2>6, <2>11 DEF BeginPersist, workerFrame, faultVars
  <2>12. CASE PersistResult(w) \/ RecordProposalFailure(w) \/ WorkerDies(w)
    BY <2>3, <2>4, <2>12 DEF PersistResult, RecordProposalFailure, WorkerDies, Death, workerFrame, faultVars
  <2>13. QED
    BY <1>4, <2>7, <2>8, <2>9, <2>10, <2>11, <2>12 DEF Work
<1>5. ASSUME NEW m \in Runtimes, Admit(m) PROVE ProcessesTyped'
  <2>1. CASE DequeueHandoff(m)
    <3>1. Head(admissionQueue) \in Handoffs
      BY <2>1, HeadTailProperties DEF DequeueHandoff, RelaysTyped
    <3>2. QED
      BY <2>1, <3>1 DEF DequeueHandoff, runtimeFrame, faultVars
  <2>2. CASE ReplayDecision(m)
    BY <2>2 DEF ReplayDecision, IdleRuntime, runtimeFrame, faultVars
  <2>3. CASE Validate(m)
    BY <2>3 DEF Validate, runtimeFrame, faultVars
  <2>4. CASE Decide(m) \/ RecordAdmissionFailure(m) \/ RuntimeDies(m)
    BY SMTT(30), <2>4 DEF Decide, RecordAdmissionFailure, RuntimeDies, IdleRuntime, Death, runtimeFrame, faultVars
  <2>5. QED
    BY <1>5, <2>1, <2>2, <2>3, <2>4 DEF Admit
<1>6. QED
  BY <1>2, <1>3, <1>4, <1>5 DEF Next

\* The outcomes of a decision, and what it admits.
LEMMA Outcomes ==
  ASSUME NEW pack \in SUBSET Candidates, NEW c \in pack
  PROVE  /\ Outcome(c, pack) \in {"ADMITTED_REDERIVED", "DUPLICATE", "REJECTED", "CONTESTED", "HUMAN_REVIEW_REQUIRED"}
         /\ CandidateState(Outcome(c, pack)) \in {"ADMITTED", "REJECTED", "CONTESTED", "HUMAN_REVIEW_REQUIRED"}
         /\ CandidateState(Outcome(c, pack)) = "ADMITTED" <=> c \in Admissible(pack)
         /\ Outcome(c, pack) \in {"ADMITTED_REDERIVED", "DUPLICATE"} <=> c \in Admissible(pack)
         /\ Outcome(c, pack) = "ADMITTED_REDERIVED" <=> c \in Admissible(pack) /\ Inserts(c, pack)
         /\ OpensCase(Outcome(c, pack)) <=> Outcome(c, pack) \in {"HUMAN_REVIEW_REQUIRED", "CONTESTED"}
<1>1. Evaluate(c, pack) \in {"HUMAN_REVIEW_REQUIRED", "REJECTED", "CONTESTED", "ADMITTED"}
  BY DEF Evaluate
<1>2. c \in Admissible(pack) <=> Evaluate(c, pack) = "ADMITTED"
  BY DEF Admissible
<1>3. QED
  BY <1>1, <1>2 DEF Outcome, CandidateState, OpensCase

\* Every fact that a package admits is in the ledger afterwards, those not there before by
\* the candidate that came to it first, which alone inserts it.
LEMMA Insertions ==
  ASSUME NEW pack \in SUBSET Candidates
  PROVE  /\ Admitted(pack) \subseteq Facts /\ Inserted(pack) \subseteq Facts
         /\ Admitted(pack) \subseteq canon \cup Inserted(pack)
         /\ Inserted(pack) \cap canon = {}
         /\ \A f \in Inserted(pack) : /\ First(f, pack) \in Admissible(pack)
                                      /\ FactOf[First(f, pack)] = f
         /\ \A c \in Admissible(pack) :
              Inserts(c, pack) <=> FactOf[c] \in Inserted(pack) /\ c = First(FactOf[c], pack)
<1>1. \A c \in Admissible(pack) : c \in Candidates /\ FactOf[c] \in Facts
  BY AdmissionAssumption DEF Admissible
<1>2. ASSUME NEW f, NEW c \in Admissible(pack), FactOf[c] = f
      PROVE  First(f, pack) \in Admissible(pack) /\ FactOf[First(f, pack)] = f
  BY <1>2 DEF First
<1>3. ASSUME NEW c \in Admissible(pack), FactOf[c] \notin canon
      PROVE  FactOf[c] \in Inserted(pack)
  <2>1. First(FactOf[c], pack) \in Admissible(pack) /\ FactOf[First(FactOf[c], pack)] = FactOf[c]
    BY <1>2
  <2>2. Inserts(First(FactOf[c], pack), pack)
    BY <1>3, <2>1 DEF Inserts
  <2>3. QED
    BY <2>1, <2>2 DEF Inserted
<1>4. \A f \in Inserted(pack) : f \notin canon /\ \E c \in Admissible(pack) : FactOf[c] = f
  BY DEF Inserted, Inserts
<1>5. ASSUME NEW c \in Admissible(pack)
      PROVE  Inserts(c, pack) <=> FactOf[c] \in Inserted(pack) /\ c = First(FactOf[c], pack)
  <2>1. ASSUME Inserts(c, pack) PROVE FactOf[c] \in Inserted(pack) /\ c = First(FactOf[c], pack)
    BY <2>1 DEF Inserts, Inserted
  <2>2. ASSUME FactOf[c] \in Inserted(pack), c = First(FactOf[c], pack) PROVE Inserts(c, pack)
    BY <1>4, <2>2 DEF Inserts
  <2>3. QED
    BY <2>1, <2>2
<1>6. Admitted(pack) \subseteq Facts /\ Inserted(pack) \subseteq Facts
  BY <1>1 DEF Admitted, Inserted
<1>7. Admitted(pack) \subseteq canon \cup Inserted(pack)
  BY <1>3 DEF Admitted
<1>8. \A f \in Inserted(pack) : First(f, pack) \in Admissible(pack) /\ FactOf[First(f, pack)] = f
  BY <1>2, <1>4
<1>9. QED
  BY <1>4, <1>5, <1>6, <1>7, <1>8

LEMMA RowsStep ==
  ASSUME Typed, [Next]_vars
  PROVE  RowsTyped'
<1> USE DEF Typed, RowsTyped
<1>1. CASE UNCHANGED <<runVars, handoffVars, ledgerVars>> /\ sourceOpen' \in BOOLEAN
  BY <1>1 DEF runVars, handoffVars, ledgerVars
<1>2. ASSUME NEW r \in Runs, CreateRun(r) PROVE RowsTyped'
  BY <1>2 DEF CreateRun, handoffVars, ledgerVars
<1>3. ASSUME NEW w \in Workers, TransitionRun(w) \/ RecordProposalFailure(w) PROVE RowsTyped'
  <2>1. worker[w].job \in Runs
    BY <1>3 DEF ProcessesTyped, TransitionRun, RecordProposalFailure, Failures, Stage
  <2>2. ASSUME NEW at, run' = [run EXCEPT ![worker[w].job] = at], at \in DOMAIN Stage \/ at \in Failures
        PROVE  run' \in [Runs -> {"ABSENT", "QUEUED", "FAILED", "QUARANTINED", "COMPLETED_PROVISIONAL",
                       "COMPLETED", "HUMAN_REVIEW_REQUIRED"} \cup DOMAIN Stage]
    BY <2>1, <2>2 DEF Failures
  <2>3. QED
    BY <1>3, <2>2 DEF TransitionRun, RecordProposalFailure, workerFrame, handoffVars, ledgerVars
<1>4. ASSUME NEW w \in Workers, PersistResult(w) PROVE RowsTyped'
  <2> DEFINE r == worker[w].job
             h == <<r, Cardinality(HandoffsOf(r)) + 1>>
  <2>1. r \in Runs /\ h \in Handoffs /\ worker[w].package \in SUBSET Candidates
    BY <1>4 DEF ProcessesTyped, PersistResult
  <2>2. DossierOf(r) \in {"ABSENT", "TRACEABLE_PROVISIONAL", "TRACEABLE_WITH_ADMITTED_FACTS"}
    BY <2>1 DEF DossierOf
  <2> HIDE DEF h
  <2>3. handoff' = [handoff EXCEPT ![h] = "PENDING"] /\ package' = [package EXCEPT ![h] = worker[w].package]
        /\ link' = [link EXCEPT ![r] = h]
    BY <1>4 DEF PersistResult, h
  <2>4. /\ handoff' \in [Handoffs -> {"ABSENT", "PENDING", "CONSUMED", "REJECTED", "QUARANTINED"}]
        /\ package' \in [Handoffs -> SUBSET Candidates]
        /\ link' \in [Runs -> Handoffs \cup {NoHandoff}]
    BY <2>1, <2>3
  <2>5. candidate' \in [Candidates -> {"ABSENT", "ADMISSION_QUEUED", "ADMITTED", "REJECTED", "CONTESTED",
                                       "HUMAN_REVIEW_REQUIRED"}]
    BY <1>4 DEF PersistResult, Upserted
  <2>6. /\ run' = [run EXCEPT ![r] = "COMPLETED_PROVISIONAL"] /\ claims' = [claims EXCEPT ![r] = {}]
        /\ dossier' = [dossier EXCEPT ![r] = DossierOf(r)]
        /\ UNCHANGED <<decision, canon, admissions, sourceOpen>>
    BY <1>4 DEF PersistResult
  <2>7. QED
    BY <2>1, <2>2, <2>4, <2>5, <2>6
<1>5. ASSUME NEW m \in Runtimes, Decide(m) PROVE RowsTyped'
  <2> DEFINE h == runtime[m].job
             pack == package[h]
  <2>1. h \in Handoffs /\ h[1] \in Runs /\ pack \in SUBSET Candidates
    BY <1>5 DEF ProcessesTyped, Decide, Handoffs
  <2>2. Admitted(pack) \subseteq Facts /\ Inserted(pack) \subseteq Facts
    BY <2>1, Insertions
  <2>3. \A c \in pack :
          /\ Outcome(c, pack) \in {"ADMITTED_REDERIVED", "DUPLICATE", "REJECTED", "CONTESTED", "HUMAN_REVIEW_REQUIRED"}
          /\ CandidateState(Outcome(c, pack)) \in {"ADMITTED", "REJECTED", "CONTESTED", "HUMAN_REVIEW_REQUIRED"}
    BY <2>1, Outcomes
  <2> HIDE DEF h, pack
  <2>4. /\ canon' = canon \cup Inserted(pack)
        /\ admissions' = [f \in Facts |-> IF f \in Inserted(pack) THEN admissions[f] + 1 ELSE admissions[f]]
        /\ candidate' = [c \in Candidates |-> IF c \in pack THEN CandidateState(Outcome(c, pack)) ELSE candidate[c]]
        /\ decision' = [k \in Cases |-> IF k[1] = h /\ k[2] \in pack THEN Outcome(k[2], pack) ELSE decision[k]]
        /\ handoff' = [handoff EXCEPT ![h] = "CONSUMED"]
        /\ run' = [run EXCEPT ![h[1]] = IF Admitted(pack) = {} THEN "HUMAN_REVIEW_REQUIRED" ELSE "COMPLETED"]
        /\ claims' = [claims EXCEPT ![h[1]] = Admitted(pack)]
        /\ dossier' = [dossier EXCEPT ![h[1]] = IF Admitted(pack) = {} THEN @ ELSE "TRACEABLE_WITH_ADMITTED_FACTS"]
        /\ UNCHANGED <<link, package, sourceOpen>>
    BY <1>5 DEF Decide, h, pack
  <2>5. decision' \in [Cases -> {"NONE", "ADMITTED_REDERIVED", "DUPLICATE", "REJECTED", "CONTESTED",
                                 "HUMAN_REVIEW_REQUIRED"}]
    BY <2>3, <2>4
  <2>6. /\ candidate' \in [Candidates -> {"ABSENT", "ADMISSION_QUEUED", "ADMITTED", "REJECTED", "CONTESTED",
                                          "HUMAN_REVIEW_REQUIRED"}]
        /\ canon' \in SUBSET Facts /\ admissions' \in [Facts -> Nat]
    BY <2>2, <2>3, <2>4
  <2>7. /\ handoff' \in [Handoffs -> {"ABSENT", "PENDING", "CONSUMED", "REJECTED", "QUARANTINED"}]
        /\ claims' \in [Runs -> SUBSET Facts]
        /\ dossier' \in [Runs -> {"ABSENT", "TRACEABLE_PROVISIONAL", "TRACEABLE_WITH_ADMITTED_FACTS"}]
    BY <2>1, <2>2, <2>4
  <2>8. run' \in [Runs -> {"ABSENT", "QUEUED", "FAILED", "QUARANTINED", "COMPLETED_PROVISIONAL",
                           "COMPLETED", "HUMAN_REVIEW_REQUIRED"} \cup DOMAIN Stage]
    BY <2>1, <2>4
  <2>9. QED
    BY <2>4, <2>5, <2>6, <2>7, <2>8
<1>6. ASSUME NEW m \in Runtimes, RecordAdmissionFailure(m) PROVE RowsTyped'
  <2> DEFINE h == runtime[m].job
  <2>1. h \in Handoffs /\ h[1] \in Runs /\ runtime[m].at \in {"REJECTED", "QUARANTINED"}
    BY <1>6 DEF ProcessesTyped, RecordAdmissionFailure, Handoffs
  <2>2. QED
    BY <1>6, <2>1 DEF RecordAdmissionFailure, runtimeFrame, ledgerVars
<1>7. ASSUME NEW w \in Workers, Work(w), ~TransitionRun(w), ~RecordProposalFailure(w), ~PersistResult(w)
      PROVE  RowsTyped'
  BY <1>1, <1>7 DEF Work, DequeueProposal, InspectRun, Execute, BeginPersist, WorkerDies, workerFrame
<1>8. ASSUME NEW m \in Runtimes, Admit(m), ~Decide(m), ~RecordAdmissionFailure(m) PROVE RowsTyped'
  BY <1>1, <1>8 DEF Admit, DequeueHandoff, ReplayDecision, Validate, RuntimeDies, runtimeFrame
<1>9. ASSUME NEW p \in Publishers, PublishProposals(p) \/ PublishHandoffs(p) PROVE RowsTyped'
  BY <1>1, <1>9 DEF PublishProposals, PublishHandoffs
<1>10. CASE SwitchSource \/ UNCHANGED vars
  BY <1>1, <1>10 DEF SwitchSource, vars
<1>11. CASE ReviewStep
  <2>1. UNCHANGED sourceOpen
    <3>1. ASSUME NEW k \in Cases, NEW v \in Reviewers, NEW why \in Whys, RequestMoreEvidence(k, v, why)
          PROVE  UNCHANGED sourceOpen
      BY <3>1 DEF RequestMoreEvidence
    <3>2. ASSUME NEW k \in Cases, NEW v \in Reviewers, NEW why \in Whys, NEW action, Resolve(k, v, action, why)
          PROVE  UNCHANGED sourceOpen
      BY <3>2 DEF Resolve
    <3>3. QED
      BY <1>11, <3>1, <3>2 DEF ReviewStep
  <2>2. UNCHANGED <<runVars, handoffVars, ledgerVars>>
    BY <1>11 DEF ReviewStep
  <2>3. QED
    BY <1>1, <2>1, <2>2
<1>12. QED
  BY <1>2, <1>3, <1>4, <1>5, <1>6, <1>7, <1>8, <1>9, <1>10, <1>11 DEF Next

LEMMA TypedStep == Typed /\ [Next]_vars => Typed'
BY RelaysStep, ProcessesStep, RowsStep DEF Typed

\* The parts together are the type invariant of the module.
LEMMA TypesHold == Typed /\ CasesShaped /\ ContextTyped => TypeOK
<1> SUFFICES ASSUME Typed, CasesShaped, ContextTyped PROVE TypeOK
  OBVIOUS
<1>1. ReviewTypeOK
  <2>1. \A k \in Cases : review[k] \in CaseRow
    BY DEF CasesShaped, CaseShape
  <2>2. review \in [Cases -> CaseRow]
    BY <2>1 DEF CasesShaped
  <2>3. QED
    BY <2>2 DEF ReviewTypeOK, ContextTyped, CaseRow, EventSet, EventTypes
<1>2. P!RelayTypeOK /\ proposalQueue \in Seq(Runs) /\ A!RelayTypeOK /\ admissionQueue \in Seq(Handoffs)
  BY DEF Typed, RelaysTyped
<1>3. QED
  BY <1>1, <1>2 DEF TypeOK, Typed, RowsTyped, ProcessesTyped

-----------------------------------------------------------------------------
(* What people do with a case. *)

ReviewInv == CasesShaped /\ ContextTyped /\ ContextOnce

LEMMA ReviewStepInv ==
  ASSUME Typed, ReviewInv, [Next]_vars
  PROVE  ReviewInv'
<1> USE DEF ReviewInv
<1>1. CASE UNCHANGED reviewVars
  <2>1. UNCHANGED <<review, context>>
    BY <1>1 DEF reviewVars
  <2>2. CasesShaped'
    BY <2>1 DEF CasesShaped, CaseShape
  <2>3. QED
    BY <2>1, <2>2, SameContext
<1>2. ASSUME NEW m \in Runtimes, Decide(m) PROVE ReviewInv'
  <2>1. PICK ks : OpenCases(ks)
    BY <1>2 DEF Decide
  <2>2. CasesShaped' /\ \A j \in Cases : review'[j].resolution = review[j].resolution
    BY <2>1, OpenShape
  <2>3. UNCHANGED context
    BY <1>2 DEF Decide
  <2>4. QED
    BY <2>2, <2>3, SameContext
<1>3. ASSUME NEW k \in Cases, NEW v \in Reviewers, NEW why \in Whys, RequestMoreEvidence(k, v, why)
      PROVE  ReviewInv'
  <2>1. CasesShaped' /\ \A j \in Cases : review'[j].resolution = review[j].resolution
    BY <1>3, RequestShape
  <2>2. UNCHANGED context
    BY <1>3 DEF RequestMoreEvidence
  <2>3. QED
    BY <2>1, <2>2, SameContext
<1>4. ASSUME NEW k \in Cases, NEW v \in Reviewers, NEW why \in Whys, NEW action \in Resolutions,
             Resolve(k, v, action, why)
      PROVE  ReviewInv'
  BY <1>4, ResolveShape, ResolveContext
<1>5. CASE ReviewStep
  BY <1>3, <1>4, <1>5 DEF ReviewStep
<1>6. ASSUME NEW w \in Workers, Work(w) PROVE UNCHANGED reviewVars
  BY <1>6 DEF Work, DequeueProposal, InspectRun, TransitionRun, Execute, BeginPersist, PersistResult,
     RecordProposalFailure, WorkerDies, workerFrame
<1>7. ASSUME NEW m \in Runtimes, Admit(m), ~Decide(m) PROVE UNCHANGED reviewVars
  BY <1>7 DEF Admit, DequeueHandoff, ReplayDecision, Validate, RecordAdmissionFailure, RuntimeDies, runtimeFrame
<1>8. CASE \/ \E r \in Runs : CreateRun(r)
           \/ \E p \in Publishers : PublishProposals(p) \/ PublishHandoffs(p)
           \/ SwitchSource \/ UNCHANGED vars
  BY <1>1, <1>8 DEF CreateRun, PublishProposals, PublishHandoffs, SwitchSource, vars
<1>9. QED
  BY <1>1, <1>2, <1>5, <1>6, <1>7, <1>8 DEF Next

LEMMA InitReview == Init => ReviewInv
<1> SUFFICES ASSUME Init PROVE ReviewInv
  OBVIOUS
<1>1. review = [k \in Cases |-> NoCase] /\ context = [r \in Runs |-> <<>>]
  BY DEF Init, ReviewInit
<1>2. /\ NoCase.state = "ABSENT" /\ NoCase.resolution = "NONE" /\ NoCase.events = <<>> /\ NoCase.reviewer = NoReviewer
      /\ NoCase \in CaseRow
  BY EmptySeq DEF NoCase, CaseRow
<1>3. CaseShape(NoCase)
  BY <1>2 DEF CaseShape
<1>4. CasesShaped
  BY <1>1, <1>3 DEF CasesShaped
<1>5. ContextTyped /\ \A r \in Runs : context[r] = <<>> /\ DOMAIN context[r] = {}
  BY <1>1, EmptySeq DEF ContextTyped
<1>6. \A k \in Cases : review[k].resolution # "ACCEPT_AS_CONTEXT"
  BY <1>1, <1>2
<1>7. ContextOnce
  BY <1>5, <1>6 DEF ContextOnce
<1>8. QED
  BY <1>4, <1>5, <1>7 DEF ReviewInv

-----------------------------------------------------------------------------
(* Handoffs, the runs that refer to them and the runtimes that decide. *)

\* The handoffs of a run are numbered without a gap.
Numbered == \A r \in Runs : \E n \in Nat : HandoffsOf(r) = {h \in Handoffs : h[1] = r /\ h[2] <= n}

\* A run refers to a handoff of its own, and to one at all when it says it was handed over.
Referring == {"COMPLETED_PROVISIONAL", "COMPLETED", "HUMAN_REVIEW_REQUIRED"}

LinksOwn ==
  \A r \in Runs :
    /\ link[r] \in Handoffs => link[r][1] = r
    /\ run[r] \in Referring => link[r] \in Handoffs

\* A runtime that has passed the gates holds its handoff and run: they are as the gates
\* found them, and no other runtime decides about that run.
Deciding(m) == runtime[m].at = "DECIDE"

GatesStillHold ==
  \A m \in Runtimes :
    Deciding(m) =>
      /\ handoff[runtime[m].job] = "PENDING"
      /\ link[runtime[m].job[1]] = runtime[m].job
      /\ \A o \in Runtimes : Deciding(o) /\ runtime[o].job[1] = runtime[m].job[1] => o = m

\* The first half of DecidedWhole, decision by decision.
HandoffsDecided ==
  \A k \in Cases : decision[k] # "NONE" <=> handoff[k[1]] = "CONSUMED" /\ k[2] \in package[k[1]]

\* RunAgreesWithHandoff, of the values that it relates.
FactsIn(decisions, h) ==
  {FactOf[c] : c \in {d \in Candidates : decisions[<<h, d>>] \in {"ADMITTED_REDERIVED", "DUPLICATE"}}}

Agreement(state, facts, status, admitted, ledger) ==
  /\ facts \subseteq ledger
  /\ state = "COMPLETED_PROVISIONAL" => status = "PENDING" /\ facts = {}
  /\ state \in {"COMPLETED", "HUMAN_REVIEW_REQUIRED"} =>
       status = "CONSUMED" /\ facts = admitted /\ (facts # {} <=> state = "COMPLETED")

RunsAgree == \A r \in Runs : Agreement(run[r], claims[r], handoff[link[r]], FactsIn(decision, link[r]), canon)

HandoffInv == Numbered /\ LinksOwn /\ GatesStillHold /\ HandoffsDecided /\ RunsAgree

LEMMA AgreementMeans == RunsAgree <=> RunAgreesWithHandoff
BY DEF RunsAgree, Agreement, RunAgreesWithHandoff, FactsIn, FactsAdmittedBy

\* What the locks say: a row that is free is not in the hands of a deciding runtime.
LEMMA FreeRows ==
  ASSUME Typed, NEW r \in Runs, RunFree(r), NEW m \in Runtimes, Deciding(m)
  PROVE  runtime[m].job \in Handoffs /\ runtime[m].job[1] # r
<1>1. runtime[m].job \in Handoffs /\ runtime[m] = [at |-> "DECIDE", job |-> runtime[m].job]
  BY DEF Typed, ProcessesTyped, Deciding
<1>2. QED
  BY <1>1 DEF RunFree, HandoffFree

\* A step that writes at most states of no consequence into runs, and begins no decision.
LEMMA IdleHandoffs ==
  ASSUME Typed, HandoffInv, UNCHANGED <<claims, link, handoff, package, decision, canon>>,
         \A r \in Runs : run'[r] = run[r] \/ run'[r] \notin Referring,
         \A m \in Runtimes : runtime'[m] = runtime[m] \/ runtime'[m].at # "DECIDE"
  PROVE  HandoffInv'
<1> USE DEF HandoffInv
<1>1. Numbered'
  BY DEF Numbered, HandoffsOf
<1>2. LinksOwn'
  BY DEF LinksOwn
<1>3. GatesStillHold'
  BY DEF GatesStillHold, Deciding
<1>4. HandoffsDecided'
  BY DEF HandoffsDecided
<1>5. RunsAgree'
  <2> SUFFICES ASSUME NEW r \in Runs
               PROVE  Agreement(run'[r], claims[r], handoff[link[r]], FactsIn(decision, link[r]), canon)
    BY DEF RunsAgree
  <2>1. Agreement(run[r], claims[r], handoff[link[r]], FactsIn(decision, link[r]), canon)
    BY DEF RunsAgree
  <2>2. QED
    BY <2>1 DEF Agreement, Referring
<1>6. QED
  BY <1>1, <1>2, <1>3, <1>4, <1>5

\* The handoff that persist_result writes is a new one of its run.
LEMMA NewHandoff ==
  ASSUME Typed, Numbered, NEW r \in Runs, NEW h, h = <<r, Cardinality(HandoffsOf(r)) + 1>>, h \in Handoffs
  PROVE  /\ handoff[h] = "ABSENT" /\ h[1] = r
         /\ \E n \in Nat : HandoffsOf(r) \cup {h} = {g \in Handoffs : g[1] = r /\ g[2] <= n}
<1>1. PICK n \in Nat : HandoffsOf(r) = {g \in Handoffs : g[1] = r /\ g[2] <= n}
  BY DEF Numbered
<1>2. MaxHandoffs \in Nat
  BY AdmissionAssumption
<1> DEFINE top == IF n <= MaxHandoffs THEN n ELSE MaxHandoffs
<1>3. top \in Nat /\ top <= MaxHandoffs /\ \A i \in 1..MaxHandoffs : i <= n <=> i <= top
  BY <1>2
<1> HIDE DEF top
<1>4. HandoffsOf(r) = {r} \X (1..top)
  BY <1>1, <1>2, <1>3 DEF Handoffs
<1>5. Cardinality({r} \X (1..top)) = top
  <2>1. IsFiniteSet({r}) /\ Cardinality({r}) = 1
    BY FS_Singleton
  <2>2. IsFiniteSet(1..top) /\ Cardinality(1..top) = top
    BY <1>3, FS_Interval
  <2>3. Cardinality({r} \X (1..top)) = Cardinality({r}) * Cardinality(1..top)
    BY <2>1, <2>2, FS_Product
  <2>4. QED
    BY <1>3, <2>1, <2>2, <2>3
<1>6. h = <<r, top + 1>> /\ h[1] = r /\ h[2] = top + 1 /\ top + 1 \in 1..MaxHandoffs
  BY <1>4, <1>5 DEF Handoffs
<1>7. h \notin HandoffsOf(r)
  BY <1>3, <1>4, <1>6
<1>8. handoff[h] = "ABSENT"
  BY <1>6, <1>7 DEF HandoffsOf
<1>9. HandoffsOf(r) \cup {h} = {g \in Handoffs : g[1] = r /\ g[2] <= top + 1}
  <2>1. \A i \in 1..MaxHandoffs : i <= top + 1 <=> i \in 1..top \/ i = top + 1
    BY <1>2, <1>3
  <2>2. ASSUME NEW q \in Runs, NEW i \in 1..MaxHandoffs
        PROVE  <<q, i>> \in HandoffsOf(r) \cup {h} <=> q = r /\ i <= top + 1
    BY <1>4, <1>6, <2>1
  <2>3. HandoffsOf(r) \cup {h} \subseteq Handoffs
    BY DEF HandoffsOf
  <2>4. QED
    BY <2>2, <2>3 DEF Handoffs
<1>10. QED
  BY <1>3, <1>6, <1>8, <1>9

LEMMA PersistHandoffs ==
  ASSUME Typed, HandoffInv, NEW w \in Workers, PersistResult(w)
  PROVE  HandoffInv'
<1> USE DEF HandoffInv
<1> DEFINE r == worker[w].job
           h == <<r, Cardinality(HandoffsOf(r)) + 1>>
<1>1. /\ r \in Runs /\ h \in Handoffs /\ RunFree(r)
      /\ handoff' = [handoff EXCEPT ![h] = "PENDING"]
      /\ package' = [package EXCEPT ![h] = worker[w].package]
      /\ run' = [run EXCEPT ![r] = "COMPLETED_PROVISIONAL"]
      /\ claims' = [claims EXCEPT ![r] = {}]
      /\ link' = [link EXCEPT ![r] = h]
      /\ UNCHANGED <<decision, canon, runtime>>
  BY DEF PersistResult, Typed, ProcessesTyped
<1>2. /\ handoff[h] = "ABSENT" /\ h[1] = r
      /\ \E n \in Nat : HandoffsOf(r) \cup {h} = {g \in Handoffs : g[1] = r /\ g[2] <= n}
  BY <1>1, NewHandoff DEF Typed
<1> HIDE DEF r, h
<1>3. /\ \A g \in Handoffs : handoff'[g] = IF g = h THEN "PENDING" ELSE handoff[g]
      /\ \A g \in Handoffs : g # h => package'[g] = package[g]
      /\ \A q \in Runs : run'[q] = IF q = r THEN "COMPLETED_PROVISIONAL" ELSE run[q]
      /\ \A q \in Runs : claims'[q] = IF q = r THEN {} ELSE claims[q]
      /\ \A q \in Runs : link'[q] = IF q = r THEN h ELSE link[q]
  BY <1>1 DEF Typed, RowsTyped
<1>4. Numbered'
  <2> DEFINE after(q) == {g \in Handoffs : g[1] = q /\ handoff'[g] # "ABSENT"}
  <2>1. ASSUME NEW q \in Runs, q # r PROVE after(q) = HandoffsOf(q)
    BY <1>2, <1>3, <2>1 DEF HandoffsOf
  <2>2. after(r) = HandoffsOf(r) \cup {h}
    BY <1>1, <1>2, <1>3 DEF HandoffsOf
  <2> HIDE DEF after
  <2>3. ASSUME NEW q \in Runs PROVE \E n \in Nat : after(q) = {g \in Handoffs : g[1] = q /\ g[2] <= n}
    <3>1. CASE q = r
      BY <1>2, <2>2, <3>1
    <3>2. CASE q # r
      <4>1. \E n \in Nat : HandoffsOf(q) = {g \in Handoffs : g[1] = q /\ g[2] <= n}
        BY DEF Numbered
      <4>2. QED
        BY <2>1, <3>2, <4>1
    <3>3. QED
      BY <3>1, <3>2
  <2>4. QED
    BY <2>3 DEF Numbered, HandoffsOf, after
<1>5. LinksOwn'
  BY <1>1, <1>2, <1>3 DEF LinksOwn
<1>6. GatesStillHold'
  <2> SUFFICES ASSUME NEW m \in Runtimes, Deciding(m)
               PROVE  /\ handoff'[runtime[m].job] = "PENDING"
                      /\ link'[runtime[m].job[1]] = runtime[m].job
    BY <1>1 DEF GatesStillHold, Deciding
  <2>1. runtime[m].job \in Handoffs /\ runtime[m].job[1] # r /\ runtime[m].job[1] \in Runs
    BY <1>1, FreeRows DEF Handoffs
  <2>2. QED
    BY <1>2, <1>3, <2>1 DEF GatesStillHold
<1>7. HandoffsDecided'
  <2> SUFFICES ASSUME NEW k \in Cases
               PROVE  decision[k] # "NONE" <=> handoff'[k[1]] = "CONSUMED" /\ k[2] \in package'[k[1]]
    BY <1>1 DEF HandoffsDecided
  <2>1. k[1] \in Handoffs
    BY DEF Cases
  <2>2. QED
    BY <1>2, <1>3, <2>1 DEF HandoffsDecided
<1>8. RunsAgree'
  <2> SUFFICES ASSUME NEW q \in Runs
               PROVE  Agreement(run'[q], claims'[q], handoff'[link'[q]], FactsIn(decision, link'[q]), canon)
    BY <1>1 DEF RunsAgree
  <2>1. Agreement(run[q], claims[q], handoff[link[q]], FactsIn(decision, link[q]), canon)
    BY DEF RunsAgree
  <2>2. CASE q = r
    <3>1. claims'[q] = {} /\ run'[q] = "COMPLETED_PROVISIONAL" /\ handoff'[link'[q]] = "PENDING"
      BY <1>1, <1>3, <2>2
    <3>2. QED
      BY <3>1 DEF Agreement
  <2>3. CASE q # r
    <3>1. link'[q] = link[q] /\ run'[q] = run[q] /\ claims'[q] = claims[q]
      BY <1>3, <2>3
    <3>2. run[q] \in Referring => handoff'[link[q]] = handoff[link[q]]
      BY <1>2, <1>3, <2>3 DEF LinksOwn
    <3>3. QED
      BY <2>1, <3>1, <3>2 DEF Agreement, Referring
  <2>4. QED
    BY <2>2, <2>3
<1>9. QED
  BY <1>4, <1>5, <1>6, <1>7, <1>8

\* The gates: what is begun is about a waiting handoff of a run nobody else decides about.
LEMMA ValidateHandoffs ==
  ASSUME Typed, HandoffInv, NEW m \in Runtimes, Validate(m)
  PROVE  HandoffInv'
<1>1. UNCHANGED <<run, claims, link, handoff, package, decision, canon>>
  BY DEF Validate, runVars, handoffVars, runtimeFrame, ledgerVars
<1> DEFINE h == runtime[m].job
<1>2. /\ runtime[m].at = "LOAD" /\ RunFree(h[1]) /\ handoff[h] = "PENDING" /\ h \in Handoffs /\ h[1] \in Runs
  BY DEF Validate, Typed, ProcessesTyped, Handoffs
<1>3. /\ \A o \in Runtimes : o # m => runtime'[o] = runtime[o]
      /\ runtime'[m].job = h
      /\ Deciding(m)' => link[h[1]] = h
  BY DEF Validate, LinkMatches, Deciding, Typed, ProcessesTyped
<1> HIDE DEF h
<1>4. GatesStillHold'
  <2>1. \A o \in Runtimes : Deciding(o) => runtime[o].job[1] # h[1]
    BY <1>2, FreeRows
  <2>2. \A o \in Runtimes : o # m => (Deciding(o)' <=> Deciding(o))
    BY <1>3 DEF Deciding
  <2>3. QED
    BY <1>1, <1>2, <1>3, <2>1, <2>2 DEF GatesStillHold, HandoffInv
<1>5. Numbered' /\ LinksOwn' /\ HandoffsDecided'
  BY <1>1 DEF HandoffInv, Numbered, HandoffsOf, LinksOwn, HandoffsDecided
<1>6. RunsAgree'
  BY <1>1 DEF RunsAgree, HandoffInv
<1>7. QED
  BY <1>4, <1>5, <1>6 DEF HandoffInv

\* What decide writes, value by value.
Written(h, pack) ==
  /\ h \in Handoffs /\ h[1] \in Runs /\ pack \in SUBSET Candidates /\ pack = package[h]
  /\ \A f \in Facts : admissions'[f] = IF f \in Inserted(pack) THEN admissions[f] + 1 ELSE admissions[f]
  /\ \A c \in Candidates : candidate'[c] = IF c \in pack THEN CandidateState(Outcome(c, pack)) ELSE candidate[c]
  /\ \A k \in Cases : decision'[k] = IF k[1] = h /\ k[2] \in pack THEN Outcome(k[2], pack) ELSE decision[k]
  /\ OpenCases({<<h, c>> : c \in {d \in pack : OpensCase(Outcome(d, pack))}})
  /\ \A g \in Handoffs : handoff'[g] = IF g = h THEN "CONSUMED" ELSE handoff[g]
  /\ \A r \in Runs : run'[r] = IF r # h[1] THEN run[r]
                               ELSE IF Admitted(pack) = {} THEN "HUMAN_REVIEW_REQUIRED" ELSE "COMPLETED"
  /\ \A r \in Runs : claims'[r] = IF r = h[1] THEN Admitted(pack) ELSE claims[r]
  /\ canon' = canon \cup Inserted(pack)
  /\ UNCHANGED <<link, package>>

LEMMA DecideWrites ==
  ASSUME Typed, NEW m \in Runtimes, Decide(m)
  PROVE  /\ Deciding(m) /\ Written(runtime[m].job, package[runtime[m].job])
         /\ \A o \in Runtimes : IF o = m THEN ~Deciding(o)' ELSE runtime'[o] = runtime[o]
<1> DEFINE h == runtime[m].job
           pack == package[h]
<1>1. h \in Handoffs /\ h[1] \in Runs /\ pack \in SUBSET Candidates
  BY DEF Typed, RowsTyped, ProcessesTyped, Decide, Handoffs
<1>2. /\ canon' = canon \cup Inserted(pack)
      /\ admissions' = [f \in Facts |-> IF f \in Inserted(pack) THEN admissions[f] + 1 ELSE admissions[f]]
      /\ candidate' = [c \in Candidates |-> IF c \in pack THEN CandidateState(Outcome(c, pack)) ELSE candidate[c]]
      /\ decision' = [k \in Cases |-> IF k[1] = h /\ k[2] \in pack THEN Outcome(k[2], pack) ELSE decision[k]]
      /\ OpenCases({<<h, c>> : c \in {d \in pack : OpensCase(Outcome(d, pack))}})
      /\ handoff' = [handoff EXCEPT ![h] = "CONSUMED"]
      /\ run' = [run EXCEPT ![h[1]] = IF Admitted(pack) = {} THEN "HUMAN_REVIEW_REQUIRED" ELSE "COMPLETED"]
      /\ claims' = [claims EXCEPT ![h[1]] = Admitted(pack)]
      /\ runtime' = [runtime EXCEPT ![m] = IdleRuntime]
      /\ UNCHANGED <<link, package>> /\ runtime[m].at = "DECIDE"
  BY DEF Decide
<1> HIDE DEF h, pack
<1>3. /\ \A g \in Handoffs : handoff'[g] = IF g = h THEN "CONSUMED" ELSE handoff[g]
      /\ \A r \in Runs : run'[r] = IF r # h[1] THEN run[r]
                                   ELSE IF Admitted(pack) = {} THEN "HUMAN_REVIEW_REQUIRED" ELSE "COMPLETED"
      /\ \A r \in Runs : claims'[r] = IF r = h[1] THEN Admitted(pack) ELSE claims[r]
  BY <1>1, <1>2 DEF Typed, RowsTyped
<1>4. \A o \in Runtimes : IF o = m THEN ~Deciding(o)' ELSE runtime'[o] = runtime[o]
  BY <1>2 DEF Typed, ProcessesTyped, Deciding, IdleRuntime
<1>5. pack = package[h]
  BY DEF pack, h
<1>6. Written(h, pack)
  BY <1>1, <1>2, <1>3, <1>5 DEF Written
<1>7. QED
  BY <1>2, <1>4, <1>6 DEF Deciding, h, pack

\* The decisions of a handoff that waits are still to be written; after decide its package
\* has an outcome each, and the facts these admit are those of the package.
LEMMA DecidedPackage ==
  ASSUME Typed, HandoffsDecided, NEW h, NEW pack, Written(h, pack), handoff[h] = "PENDING"
  PROVE  /\ HandoffsDecided'
         /\ FactsIn(decision', h) = Admitted(pack)
         /\ \A g \in Handoffs \ {h} : FactsIn(decision', g) = FactsIn(decision, g)
         /\ \A c \in Candidates : decision[<<h, c>>] = "NONE"
<1>1. /\ h \in Handoffs /\ pack \in SUBSET Candidates /\ package' = package /\ pack = package[h]
      /\ \A k \in Cases : decision'[k] = IF k[1] = h /\ k[2] \in pack THEN Outcome(k[2], pack) ELSE decision[k]
      /\ \A g \in Handoffs : handoff'[g] = IF g = h THEN "CONSUMED" ELSE handoff[g]
  BY DEF Written
<1>2. \A c \in Candidates : <<h, c>> \in Cases /\ <<h, c>>[1] = h /\ <<h, c>>[2] = c
  BY <1>1 DEF Cases
<1>3. \A c \in Candidates : decision[<<h, c>>] = "NONE"
  BY <1>2 DEF HandoffsDecided
<1>4. \A k \in Cases : k[1] \in Handoffs /\ k[2] \in Candidates /\ k = <<k[1], k[2]>>
  BY DEF Cases
<1>5. \A c \in pack : /\ Outcome(c, pack) # "NONE"
                      /\ Outcome(c, pack) \in {"ADMITTED_REDERIVED", "DUPLICATE"} <=> c \in Admissible(pack)
  BY <1>1, Outcomes
<1>6. \A c \in Candidates : decision'[<<h, c>>] = IF c \in pack THEN Outcome(c, pack) ELSE "NONE"
  BY <1>1, <1>2, <1>3
<1>7. HandoffsDecided'
  <2> SUFFICES ASSUME NEW k \in Cases
               PROVE  decision'[k] # "NONE" <=> handoff'[k[1]] = "CONSUMED" /\ k[2] \in package[k[1]]
    BY <1>1 DEF HandoffsDecided
  <2>1. CASE k[1] = h
    <3>1. decision'[k] # "NONE" <=> k[2] \in pack
      BY <1>4, <1>5, <1>6, <2>1
    <3>2. handoff'[k[1]] = "CONSUMED" /\ package[k[1]] = pack
      BY <1>1, <2>1
    <3>3. QED
      BY <3>1, <3>2
  <2>2. CASE k[1] # h
    <3>1. decision'[k] = decision[k] /\ handoff'[k[1]] = handoff[k[1]]
      BY <1>1, <1>4, <2>2
    <3>2. QED
      BY <3>1 DEF HandoffsDecided
  <2>3. QED
    BY <2>1, <2>2
<1>8. FactsIn(decision', h) = Admitted(pack)
  <2>1. {d \in Candidates : decision'[<<h, d>>] \in {"ADMITTED_REDERIVED", "DUPLICATE"}} = Admissible(pack)
    <3>1. \A d \in Candidates : decision'[<<h, d>>] \in {"ADMITTED_REDERIVED", "DUPLICATE"} <=> d \in Admissible(pack)
      BY <1>5, <1>6 DEF Admissible
    <3>2. Admissible(pack) \subseteq Candidates
      BY <1>1 DEF Admissible
    <3>3. QED
      BY <3>1, <3>2
  <2>2. QED
    BY <2>1 DEF FactsIn, Admitted
<1>9. ASSUME NEW g \in Handoffs \ {h} PROVE FactsIn(decision', g) = FactsIn(decision, g)
  <2>1. \A d \in Candidates : decision'[<<g, d>>] = decision[<<g, d>>]
    <3>1. \A d \in Candidates : <<g, d>> \in Cases /\ <<g, d>>[1] # h
      BY DEF Cases
    <3>2. QED
      BY <1>1, <3>1
  <2>2. QED
    BY <2>1 DEF FactsIn
<1>10. QED
  BY <1>3, <1>7, <1>8, <1>9

LEMMA DecideHandoffs ==
  ASSUME Typed, HandoffInv, NEW m \in Runtimes, Decide(m)
  PROVE  HandoffInv'
<1> DEFINE h == runtime[m].job
           pack == package[h]
<1>1. /\ Deciding(m) /\ Written(h, pack)
      /\ \A o \in Runtimes : IF o = m THEN ~Deciding(o)' ELSE runtime'[o] = runtime[o]
  BY DecideWrites
<1>2. handoff[h] = "PENDING" /\ link[h[1]] = h
  BY <1>1 DEF HandoffInv, GatesStillHold
<1> HIDE DEF h, pack
<1>3. /\ HandoffsDecided' /\ FactsIn(decision', h) = Admitted(pack)
      /\ \A g \in Handoffs \ {h} : FactsIn(decision', g) = FactsIn(decision, g)
  BY <1>1, <1>2, DecidedPackage DEF HandoffInv
<1>4. /\ h \in Handoffs /\ h[1] \in Runs /\ pack \in SUBSET Candidates
      /\ \A g \in Handoffs : handoff'[g] = IF g = h THEN "CONSUMED" ELSE handoff[g]
      /\ \A r \in Runs : run'[r] = IF r # h[1] THEN run[r]
                                   ELSE IF Admitted(pack) = {} THEN "HUMAN_REVIEW_REQUIRED" ELSE "COMPLETED"
      /\ \A r \in Runs : claims'[r] = IF r = h[1] THEN Admitted(pack) ELSE claims[r]
      /\ canon' = canon \cup Inserted(pack) /\ link' = link
  BY <1>1 DEF Written
<1>5. Numbered'
  <2>1. \A g \in Handoffs : handoff'[g] # "ABSENT" <=> handoff[g] # "ABSENT"
    BY <1>2, <1>4
  <2>2. QED
    BY <2>1 DEF HandoffInv, Numbered, HandoffsOf
<1>6. LinksOwn'
  BY <1>2, <1>4 DEF HandoffInv, LinksOwn, Referring
<1>7. GatesStillHold'
  <2> SUFFICES ASSUME NEW o \in Runtimes, Deciding(o)'
               PROVE  /\ handoff'[runtime'[o].job] = "PENDING"
                      /\ link[runtime'[o].job[1]] = runtime'[o].job
                      /\ \A q \in Runtimes : Deciding(q)' /\ runtime'[q].job[1] = runtime'[o].job[1] => q = o
    BY <1>4 DEF GatesStillHold
  <2>1. \A q \in Runtimes : Deciding(q)' => q # m /\ runtime'[q] = runtime[q] /\ Deciding(q)
    BY <1>1 DEF Deciding
  <2>2. runtime[o].job \in Handoffs /\ handoff[runtime[o].job] = "PENDING" /\ link[runtime[o].job[1]] = runtime[o].job
        /\ \A q \in Runtimes : Deciding(q) /\ runtime[q].job[1] = runtime[o].job[1] => q = o
    BY <2>1 DEF HandoffInv, GatesStillHold, Typed, ProcessesTyped, Deciding
  <2>3. runtime[o].job # h
    BY <1>1, <2>1, <2>2 DEF h
  <2>4. QED
    BY <1>4, <2>1, <2>2, <2>3
<1>8. RunsAgree'
  <2> SUFFICES ASSUME NEW r \in Runs
               PROVE  Agreement(run'[r], claims'[r], handoff'[link[r]], FactsIn(decision', link[r]), canon')
    BY <1>4 DEF RunsAgree
  <2>1. Agreement(run[r], claims[r], handoff[link[r]], FactsIn(decision, link[r]), canon)
    BY DEF HandoffInv, RunsAgree
  <2>2. CASE r = h[1]
    <3>1. /\ link[r] = h /\ handoff'[link[r]] = "CONSUMED" /\ claims'[r] = Admitted(pack)
          /\ FactsIn(decision', link[r]) = Admitted(pack)
          /\ run'[r] = IF Admitted(pack) = {} THEN "HUMAN_REVIEW_REQUIRED" ELSE "COMPLETED"
      BY <1>2, <1>3, <1>4, <2>2
    <3>2. Admitted(pack) \subseteq canon'
      BY <1>4, Insertions
    <3>3. QED
      BY <3>1, <3>2 DEF Agreement
  <2>3. CASE r # h[1]
    <3>1. run'[r] = run[r] /\ claims'[r] = claims[r] /\ canon \subseteq canon'
      BY <1>4, <2>3
    <3>2. run[r] \in Referring => /\ link[r] \in Handoffs \ {h}
                                  /\ handoff'[link[r]] = handoff[link[r]]
                                  /\ FactsIn(decision', link[r]) = FactsIn(decision, link[r])
      BY <1>3, <1>4, <2>3 DEF HandoffInv, LinksOwn
    <3>3. QED
      BY <2>1, <3>1, <3>2 DEF Agreement, Referring
  <2>4. QED
    BY <2>2, <2>3
<1>9. QED
  BY <1>3, <1>5, <1>6, <1>7, <1>8 DEF HandoffInv

\* A failure is recorded of rows that nobody decides about.
LEMMA FailureHandoffs ==
  ASSUME Typed, HandoffInv, NEW m \in Runtimes, RecordAdmissionFailure(m)
  PROVE  HandoffInv'
<1> DEFINE h == runtime[m].job
           status == IF handoff[h] = "PENDING" THEN runtime[m].at ELSE handoff[h]
           state == IF runtime[m].at = "REJECTED" THEN "FAILED" ELSE "QUARANTINED"
<1>1. /\ h \in Handoffs /\ h[1] \in Runs /\ RunFree(h[1])
      /\ runtime[m].at \in {"REJECTED", "QUARANTINED"}
      /\ handoff' = [handoff EXCEPT ![h] = status]
      /\ run' = [run EXCEPT ![h[1]] = state]
      /\ runtime' = [runtime EXCEPT ![m] = IdleRuntime]
      /\ UNCHANGED <<claims, link, package, decision, canon>>
  BY DEF RecordAdmissionFailure, Typed, ProcessesTyped, Handoffs, runtimeFrame, ledgerVars
<1>2. /\ handoff[h] # "CONSUMED" => status # "CONSUMED"
      /\ handoff[h] # "PENDING" => status = handoff[h]
      /\ handoff[h] # "ABSENT" <=> status # "ABSENT"
      /\ state \notin Referring
  BY <1>1 DEF Referring
<1> HIDE DEF h, status, state
<1>3. /\ \A g \in Handoffs : handoff'[g] = IF g = h THEN status ELSE handoff[g]
      /\ \A r \in Runs : run'[r] = IF r = h[1] THEN state ELSE run[r]
      /\ \A o \in Runtimes : IF o = m THEN ~Deciding(o)' ELSE runtime'[o] = runtime[o]
  BY <1>1 DEF Typed, RowsTyped, ProcessesTyped, Deciding, IdleRuntime
<1>4. Numbered'
  <2>1. \A g \in Handoffs : handoff'[g] # "ABSENT" <=> handoff[g] # "ABSENT"
    BY <1>2, <1>3
  <2>2. QED
    BY <2>1 DEF HandoffInv, Numbered, HandoffsOf
<1>5. LinksOwn'
  BY <1>1, <1>2, <1>3 DEF HandoffInv, LinksOwn
<1>6. GatesStillHold'
  <2> SUFFICES ASSUME NEW o \in Runtimes, Deciding(o)'
               PROVE  /\ handoff'[runtime'[o].job] = "PENDING"
                      /\ link[runtime'[o].job[1]] = runtime'[o].job
                      /\ \A q \in Runtimes : Deciding(q)' /\ runtime'[q].job[1] = runtime'[o].job[1] => q = o
    BY <1>1 DEF GatesStillHold
  <2>1. \A q \in Runtimes : Deciding(q)' => q # m /\ runtime'[q] = runtime[q] /\ Deciding(q)
    BY <1>3 DEF Deciding
  <2>2. runtime[o].job \in Handoffs /\ handoff[runtime[o].job] = "PENDING" /\ link[runtime[o].job[1]] = runtime[o].job
        /\ \A q \in Runtimes : Deciding(q) /\ runtime[q].job[1] = runtime[o].job[1] => q = o
    BY <2>1 DEF HandoffInv, GatesStillHold, Typed, ProcessesTyped, Deciding
  <2>3. runtime[o].job # h
    BY <1>1, <2>1, FreeRows
  <2>4. QED
    BY <1>3, <2>1, <2>2, <2>3
<1>7. HandoffsDecided'
  <2> SUFFICES ASSUME NEW k \in Cases
               PROVE  decision[k] # "NONE" <=> handoff'[k[1]] = "CONSUMED" /\ k[2] \in package[k[1]]
    BY <1>1 DEF HandoffsDecided
  <2>1. k[1] \in Handoffs /\ (handoff'[k[1]] = "CONSUMED" <=> handoff[k[1]] = "CONSUMED")
    BY <1>2, <1>3 DEF Cases
  <2>2. QED
    BY <2>1 DEF HandoffInv, HandoffsDecided
<1>8. RunsAgree'
  <2> SUFFICES ASSUME NEW r \in Runs
               PROVE  Agreement(run'[r], claims[r], handoff'[link[r]], FactsIn(decision, link[r]), canon)
    BY <1>1 DEF RunsAgree
  <2>1. Agreement(run[r], claims[r], handoff[link[r]], FactsIn(decision, link[r]), canon)
    BY DEF HandoffInv, RunsAgree
  <2>2. CASE r = h[1]
    BY <1>2, <1>3, <2>1, <2>2 DEF Agreement, Referring
  <2>3. CASE r # h[1]
    <3>1. run'[r] = run[r]
      BY <1>3, <2>3
    <3>2. run[r] \in Referring => handoff'[link[r]] = handoff[link[r]]
      BY <1>3, <2>3 DEF HandoffInv, LinksOwn
    <3>3. QED
      BY <2>1, <3>1, <3>2 DEF Agreement, Referring
  <2>4. QED
    BY <2>2, <2>3
<1>9. QED
  BY <1>4, <1>5, <1>6, <1>7, <1>8 DEF HandoffInv

\* Which variables the steps of each actor can touch.
LEMMA WorkFrame ==
  ASSUME Typed, NEW w \in Workers, Work(w), ~PersistResult(w)
  PROVE  /\ UNCHANGED <<claims, link, dossier, handoffVars, ledgerVars, runtime, reviewVars>>
         /\ \A r \in Runs : run'[r] = run[r] \/ run'[r] \notin Referring
<1>1. CASE TransitionRun(w)
  <2>1. /\ UNCHANGED <<claims, link, dossier, handoffVars, ledgerVars, runtime, reviewVars>>
        /\ run' = [run EXCEPT ![worker[w].job] = worker[w].at] /\ worker[w].at \in DOMAIN Stage
    BY <1>1 DEF TransitionRun, workerFrame
  <2>2. worker[w].at \notin Referring
    BY <2>1 DEF Stage, Referring
  <2>3. \A r \in Runs : run'[r] = run[r] \/ run'[r] \notin Referring
    BY <2>1, <2>2 DEF Typed, RowsTyped
  <2>4. QED
    BY <2>1, <2>3
<1>2. CASE RecordProposalFailure(w)
  <2>1. /\ UNCHANGED <<claims, link, dossier, handoffVars, ledgerVars, runtime, reviewVars>>
        /\ run' = [run EXCEPT ![worker[w].job] = worker[w].at] /\ worker[w].at \in Failures
    BY <1>2 DEF RecordProposalFailure, workerFrame
  <2>2. worker[w].at \notin Referring
    BY <2>1 DEF Failures, Referring
  <2>3. \A r \in Runs : run'[r] = run[r] \/ run'[r] \notin Referring
    BY <2>1, <2>2 DEF Typed, RowsTyped
  <2>4. QED
    BY <2>1, <2>3
<1>3. CASE ~TransitionRun(w) /\ ~RecordProposalFailure(w)
  BY <1>3 DEF Work, DequeueProposal, InspectRun, Execute, BeginPersist, WorkerDies, workerFrame, runVars
<1>4. QED
  BY <1>1, <1>2, <1>3

LEMMA AdmitFrame ==
  ASSUME Typed, NEW m \in Runtimes, Admit(m), ~Decide(m)
  PROVE  /\ UNCHANGED <<claims, link, dossier, package, decision, ledgerVars, reviewVars>>
         /\ RecordAdmissionFailure(m) \/ UNCHANGED <<run, handoff>>
BY DEF Admit, DequeueHandoff, ReplayDecision, Validate, RecordAdmissionFailure, RuntimeDies,
   runtimeFrame, runVars, handoffVars

LEMMA OtherFrame ==
  ASSUME Typed, \/ \E r \in Runs : CreateRun(r)
                \/ \E p \in Publishers : PublishProposals(p) \/ PublishHandoffs(p)
                \/ SwitchSource \/ ReviewStep \/ UNCHANGED vars
  PROVE  /\ UNCHANGED <<claims, link, dossier, handoffVars, ledgerVars, runtime>>
         /\ \A r \in Runs : run'[r] = run[r] \/ run'[r] \notin Referring
<1>1. ASSUME NEW r \in Runs, CreateRun(r)
      PROVE  /\ UNCHANGED <<claims, link, dossier, handoffVars, ledgerVars, runtime>>
             /\ \A q \in Runs : run'[q] = run[q] \/ run'[q] \notin Referring
  BY <1>1 DEF CreateRun, Typed, RowsTyped, Referring
<1>2. CASE \/ \E p \in Publishers : PublishProposals(p) \/ PublishHandoffs(p)
           \/ SwitchSource \/ ReviewStep \/ UNCHANGED vars
  BY <1>2 DEF PublishProposals, PublishHandoffs, SwitchSource, ReviewStep, vars, runVars
<1>3. QED
  BY <1>1, <1>2

LEMMA HandoffStep ==
  ASSUME Typed, HandoffInv, [Next]_vars
  PROVE  HandoffInv'
<1>1. ASSUME NEW w \in Workers, Work(w) PROVE HandoffInv'
  <2>1. CASE PersistResult(w)
    BY <2>1, PersistHandoffs
  <2>2. CASE ~PersistResult(w)
    BY <1>1, <2>2, WorkFrame, IdleHandoffs DEF handoffVars, ledgerVars
  <2>3. QED
    BY <2>1, <2>2
<1>2. ASSUME NEW m \in Runtimes, Admit(m) PROVE HandoffInv'
  <2>1. CASE Decide(m) \/ Validate(m) \/ RecordAdmissionFailure(m)
    BY <2>1, DecideHandoffs, ValidateHandoffs, FailureHandoffs
  <2>2. CASE DequeueHandoff(m) \/ ReplayDecision(m) \/ RuntimeDies(m)
    <3>1. UNCHANGED <<run, claims, link, handoff, package, decision, canon>>
      BY <2>2 DEF DequeueHandoff, ReplayDecision, RuntimeDies, runVars, handoffVars, runtimeFrame, ledgerVars
    <3>2. \A o \in Runtimes : runtime'[o] = runtime[o] \/ runtime'[o].at # "DECIDE"
      BY <2>2 DEF DequeueHandoff, ReplayDecision, RuntimeDies, Typed, ProcessesTyped, IdleRuntime
    <3>3. QED
      BY <3>1, <3>2, IdleHandoffs
  <2>3. QED
    BY <1>2, <2>1, <2>2 DEF Admit
<1>3. CASE \/ \E r \in Runs : CreateRun(r)
           \/ \E p \in Publishers : PublishProposals(p) \/ PublishHandoffs(p)
           \/ SwitchSource \/ ReviewStep \/ UNCHANGED vars
  BY <1>3, OtherFrame, IdleHandoffs DEF handoffVars, ledgerVars
<1>4. QED
  BY <1>1, <1>2, <1>3 DEF Next

-----------------------------------------------------------------------------
(* The cases that decisions open, and the ledger. *)

CasesOpened ==
  \A k \in Cases : review[k].state # "ABSENT" <=> decision[k] \in {"HUMAN_REVIEW_REQUIRED", "CONTESTED"}

LEMMA DecidedWholeMeans == Typed => (HandoffsDecided /\ CasesOpened => DecidedWhole)
<1> SUFFICES ASSUME Typed, HandoffsDecided, CasesOpened PROVE DecidedWhole
  OBVIOUS
<1>1. ASSUME NEW h \in Handoffs
      PROVE  {c \in Candidates : decision[<<h, c>>] # "NONE"} = IF handoff[h] = "CONSUMED" THEN package[h] ELSE {}
  <2>1. \A c \in Candidates : <<h, c>> \in Cases /\ <<h, c>>[1] = h /\ <<h, c>>[2] = c
    BY DEF Cases
  <2>2. \A c \in Candidates : decision[<<h, c>>] # "NONE" <=> handoff[h] = "CONSUMED" /\ c \in package[h]
    BY <2>1 DEF HandoffsDecided
  <2>3. package[h] \subseteq Candidates
    BY DEF Typed, RowsTyped
  <2>4. QED
    BY <2>2, <2>3
<1>2. QED
  BY <1>1 DEF DecidedWhole, CasesOpened

\* The decisions that inserted a fact.
Inserters(decisions, f) == {k \in Cases : FactOf[k[2]] = f /\ decisions[k] = "ADMITTED_REDERIVED"}

LedgerInv ==
  /\ \A f \in Facts :
       IF f \in canon THEN admissions[f] = 1 /\ \E k \in Cases : Inserters(decision, f) = {k}
                      ELSE admissions[f] = 0 /\ Inserters(decision, f) = {}
  /\ \A k \in Cases : decision[k] = "DUPLICATE" => FactOf[k[2]] \in canon
  /\ \A c \in Candidates : candidate[c] = "ADMITTED" => FactOf[c] \in canon

LEMMA LedgerMeans == LedgerInv => LedgerTraced
<1> SUFFICES ASSUME LedgerInv PROVE LedgerTraced
  OBVIOUS
<1>1. ASSUME NEW f \in Facts
      PROVE  /\ Cardinality(Inserters(decision, f)) = IF f \in canon THEN 1 ELSE 0
             /\ admissions[f] = IF f \in canon THEN 1 ELSE 0
             /\ {k \in Cases : FactOf[k[2]] = f /\ decision[k] = "DUPLICATE"} # {} => f \in canon
  <2>1. CASE f \in canon
    <3>1. PICK k \in Cases : Inserters(decision, f) = {k}
      BY <2>1 DEF LedgerInv
    <3>2. Cardinality({k}) = 1
      BY FS_Singleton
    <3>3. admissions[f] = 1
      BY <2>1 DEF LedgerInv
    <3>4. QED
      BY <2>1, <3>1, <3>2, <3>3
  <2>2. CASE f \notin canon
    <3>1. Inserters(decision, f) = {} /\ admissions[f] = 0
      BY <2>2 DEF LedgerInv
    <3>2. Cardinality({}) = 0
      BY FS_EmptySet
    <3>3. {k \in Cases : FactOf[k[2]] = f /\ decision[k] = "DUPLICATE"} = {}
      BY <2>2 DEF LedgerInv
    <3>4. QED
      BY <2>2, <3>1, <3>2, <3>3
  <2>3. QED
    BY <2>1, <2>2
<1>2. \A c \in Candidates : candidate[c] = "ADMITTED" => FactOf[c] \in canon
  BY DEF LedgerInv
<1>3. QED
  BY <1>1, <1>2 DEF LedgerTraced, Inserters

\* A decision adds one inserter to each fact that it inserts, and none to any other.
LEMMA DecideInserters ==
  ASSUME Typed, HandoffInv, NEW h, NEW pack, Written(h, pack), handoff[h] = "PENDING", NEW f \in Facts
  PROVE  Inserters(decision', f)
           = Inserters(decision, f) \cup IF f \in Inserted(pack) THEN {<<h, First(f, pack)>>} ELSE {}
<1>1. /\ h \in Handoffs /\ pack \in SUBSET Candidates
      /\ \A k \in Cases : decision'[k] = IF k[1] = h /\ k[2] \in pack THEN Outcome(k[2], pack) ELSE decision[k]
  BY DEF Written
<1>2. \A c \in Candidates : decision[<<h, c>>] = "NONE"
  BY DecidedPackage DEF HandoffInv
<1>3. \A c \in pack : Outcome(c, pack) = "ADMITTED_REDERIVED" <=> c \in Admissible(pack) /\ Inserts(c, pack)
  BY <1>1, Outcomes
<1>4. /\ f \in Inserted(pack) => First(f, pack) \in Admissible(pack) /\ FactOf[First(f, pack)] = f
      /\ \A c \in Admissible(pack) : Inserts(c, pack) <=> FactOf[c] \in Inserted(pack) /\ c = First(FactOf[c], pack)
  BY <1>1, Insertions
<1>5. Admissible(pack) \subseteq pack
  BY DEF Admissible
<1>6. \A k \in Cases : k[1] \in Handoffs /\ k[2] \in Candidates /\ k = <<k[1], k[2]>>
  BY DEF Cases
<1>7. ASSUME NEW k \in Cases, k[1] # h
      PROVE  decision'[k] = decision[k]
  BY <1>1, <1>7
<1>8. ASSUME NEW k \in Cases, k[1] = h
      PROVE  /\ FactOf[k[2]] = f /\ decision'[k] = "ADMITTED_REDERIVED"
                  <=> f \in Inserted(pack) /\ k = <<h, First(f, pack)>>
             /\ decision[k] = "NONE"
  <2>1. decision[k] = "NONE"
    BY <1>2, <1>6, <1>8
  <2>2. decision'[k] = "ADMITTED_REDERIVED" <=> k[2] \in Admissible(pack) /\ Inserts(k[2], pack)
    BY <1>1, <1>3, <1>5, <1>8, <2>1
  <2>3. FactOf[k[2]] = f /\ decision'[k] = "ADMITTED_REDERIVED" => f \in Inserted(pack) /\ k[2] = First(f, pack)
    BY <1>4, <2>2
  <2>4. f \in Inserted(pack) /\ k[2] = First(f, pack) => FactOf[k[2]] = f /\ decision'[k] = "ADMITTED_REDERIVED"
    BY <1>4, <2>2
  <2>5. k = <<h, k[2]>>
    BY <1>6, <1>8
  <2>6. QED
    BY <2>1, <2>3, <2>4, <2>5
<1>9. f \in Inserted(pack) => <<h, First(f, pack)>> \in Cases
  BY <1>1, <1>4, <1>5 DEF Cases
<1>10. QED
  BY <1>7, <1>8, <1>9 DEF Inserters

LEMMA DecideLedger ==
  ASSUME Typed, HandoffInv, LedgerInv, NEW m \in Runtimes, Decide(m)
  PROVE  LedgerInv'
<1> DEFINE h == runtime[m].job
           pack == package[h]
<1>1. Deciding(m) /\ Written(h, pack)
  BY DecideWrites
<1>2. handoff[h] = "PENDING"
  BY <1>1 DEF HandoffInv, GatesStillHold
<1> HIDE DEF h, pack
<1>3. /\ h \in Handoffs /\ pack \in SUBSET Candidates /\ canon' = canon \cup Inserted(pack)
      /\ \A f \in Facts : admissions'[f] = IF f \in Inserted(pack) THEN admissions[f] + 1 ELSE admissions[f]
      /\ \A c \in Candidates : candidate'[c] = IF c \in pack THEN CandidateState(Outcome(c, pack)) ELSE candidate[c]
      /\ \A k \in Cases : decision'[k] = IF k[1] = h /\ k[2] \in pack THEN Outcome(k[2], pack) ELSE decision[k]
  BY <1>1 DEF Written
<1>4. /\ Inserted(pack) \cap canon = {} /\ Admitted(pack) \subseteq canon'
      /\ \A f \in Inserted(pack) : First(f, pack) \in Admissible(pack)
  BY <1>3, Insertions
<1>5. \A c \in Admissible(pack) : FactOf[c] \in canon' /\ c \in Candidates
  BY <1>3, <1>4 DEF Admitted, Admissible
<1>6. \A c \in pack :
        /\ Outcome(c, pack) \in {"ADMITTED_REDERIVED", "DUPLICATE"} <=> c \in Admissible(pack)
        /\ CandidateState(Outcome(c, pack)) = "ADMITTED" <=> c \in Admissible(pack)
  BY <1>3, Outcomes
<1>7. ASSUME NEW f \in Facts
      PROVE  IF f \in canon' THEN admissions'[f] = 1 /\ \E k \in Cases : Inserters(decision', f) = {k}
                             ELSE admissions'[f] = 0 /\ Inserters(decision', f) = {}
  <2>1. Inserters(decision', f)
           = Inserters(decision, f) \cup IF f \in Inserted(pack) THEN {<<h, First(f, pack)>>} ELSE {}
    BY <1>1, <1>2, DecideInserters
  <2>2. IF f \in canon THEN admissions[f] = 1 /\ \E k \in Cases : Inserters(decision, f) = {k}
                       ELSE admissions[f] = 0 /\ Inserters(decision, f) = {}
    BY DEF LedgerInv
  <2>3. CASE f \in Inserted(pack)
    <3>1. Inserters(decision', f) = {<<h, First(f, pack)>>} /\ admissions'[f] = 1 /\ f \in canon'
      BY <1>3, <1>4, <2>1, <2>2, <2>3
    <3>2. <<h, First(f, pack)>> \in Cases
      BY <1>3, <1>4, <1>5, <2>3 DEF Cases
    <3>3. QED
      BY <3>1, <3>2
  <2>4. CASE f \notin Inserted(pack)
    <3>1. Inserters(decision', f) = Inserters(decision, f) /\ admissions'[f] = admissions[f] /\ (f \in canon' <=> f \in canon)
      BY <1>3, <2>1, <2>4
    <3>2. QED
      BY <2>2, <3>1
  <2>5. QED
    BY <2>3, <2>4
<1>8. ASSUME NEW k \in Cases, decision'[k] = "DUPLICATE" PROVE FactOf[k[2]] \in canon'
  <2>1. CASE k[1] = h /\ k[2] \in pack
    BY <1>3, <1>5, <1>6, <1>8, <2>1
  <2>2. CASE ~(k[1] = h /\ k[2] \in pack)
    BY <1>3, <1>8, <2>2 DEF LedgerInv
  <2>3. QED
    BY <2>1, <2>2
<1>9. ASSUME NEW c \in Candidates, candidate'[c] = "ADMITTED" PROVE FactOf[c] \in canon'
  <2>1. CASE c \in pack
    BY <1>3, <1>5, <1>6, <1>9, <2>1
  <2>2. CASE c \notin pack
    BY <1>3, <1>9, <2>2 DEF LedgerInv
  <2>3. QED
    BY <2>1, <2>2
<1>10. QED
  BY <1>7, <1>8, <1>9 DEF LedgerInv

LEMMA DecideOpens ==
  ASSUME Typed, HandoffInv, CasesShaped, CasesOpened, NEW m \in Runtimes, Decide(m)
  PROVE  CasesOpened'
<1> DEFINE h == runtime[m].job
           pack == package[h]
<1>1. Deciding(m) /\ Written(h, pack)
  BY DecideWrites
<1>2. handoff[h] = "PENDING"
  BY <1>1 DEF HandoffInv, GatesStillHold
<1> HIDE DEF h, pack
<1> DEFINE ks == {<<h, c>> : c \in {d \in pack : OpensCase(Outcome(d, pack))}}
<1>3. /\ h \in Handoffs /\ pack \in SUBSET Candidates /\ OpenCases(ks)
      /\ \A k \in Cases : decision'[k] = IF k[1] = h /\ k[2] \in pack THEN Outcome(k[2], pack) ELSE decision[k]
  BY <1>1 DEF Written
<1>4. \A k \in Cases : k \in ks <=> k[1] = h /\ k[2] \in pack /\ OpensCase(Outcome(k[2], pack))
  BY DEF Cases
<1> HIDE DEF ks
<1>5. \A k \in Cases : review'[k].state = "ABSENT" <=> (review[k].state = "ABSENT" /\ k \notin ks)
  BY <1>3, OpenShape
<1>6. \A c \in Candidates : decision[<<h, c>>] = "NONE"
  BY <1>1, <1>2, DecidedPackage DEF HandoffInv
<1>7. \A c \in pack : OpensCase(Outcome(c, pack)) <=> Outcome(c, pack) \in {"HUMAN_REVIEW_REQUIRED", "CONTESTED"}
  BY <1>3, Outcomes
<1>8. ASSUME NEW k \in Cases
      PROVE  review'[k].state # "ABSENT" <=> decision'[k] \in {"HUMAN_REVIEW_REQUIRED", "CONTESTED"}
  <2>1. review[k].state # "ABSENT" <=> decision[k] \in {"HUMAN_REVIEW_REQUIRED", "CONTESTED"}
    BY DEF CasesOpened
  <2>2. CASE k[1] = h /\ k[2] \in pack
    <3>1. k = <<h, k[2]>> /\ k[2] \in Candidates
      BY <2>2 DEF Cases
    <3>2. decision[k] = "NONE"
      BY <1>6, <3>1
    <3>3. QED
      BY <1>3, <1>4, <1>5, <1>7, <2>1, <2>2, <3>2
  <2>3. CASE ~(k[1] = h /\ k[2] \in pack)
    BY <1>3, <1>4, <1>5, <2>1, <2>3
  <2>4. QED
    BY <2>2, <2>3
<1>9. QED
  BY <1>8 DEF CasesOpened

LEMMA LedgerStep ==
  ASSUME Typed, HandoffInv, LedgerInv, [Next]_vars
  PROVE  LedgerInv'
<1>1. CASE UNCHANGED <<decision, ledgerVars>>
  BY <1>1 DEF LedgerInv, Inserters, ledgerVars
<1>2. ASSUME NEW w \in Workers, PersistResult(w) PROVE LedgerInv'
  <2>1. UNCHANGED <<decision, canon, admissions>>
    BY <1>2 DEF PersistResult
  <2>2. \A c \in Candidates : candidate'[c] = "ADMITTED" => candidate[c] = "ADMITTED"
    BY <1>2 DEF PersistResult, Upserted
  <2>3. QED
    BY <2>1, <2>2 DEF LedgerInv, Inserters
<1>3. ASSUME NEW m \in Runtimes, Admit(m) PROVE LedgerInv'
  <2>1. CASE Decide(m)
    BY <2>1, DecideLedger
  <2>2. CASE ~Decide(m)
    BY <1>1, <1>3, <2>2, AdmitFrame
  <2>3. QED
    BY <2>1, <2>2
<1>4. ASSUME NEW w \in Workers, Work(w) PROVE LedgerInv'
  BY <1>1, <1>2, <1>4, WorkFrame DEF handoffVars
<1>5. CASE \/ \E r \in Runs : CreateRun(r)
           \/ \E p \in Publishers : PublishProposals(p) \/ PublishHandoffs(p)
           \/ SwitchSource \/ ReviewStep \/ UNCHANGED vars
  BY <1>1, <1>5, OtherFrame DEF handoffVars
<1>6. QED
  BY <1>3, <1>4, <1>5 DEF Next

LEMMA CasesStep ==
  ASSUME Typed, HandoffInv, CasesShaped, CasesOpened, [Next]_vars
  PROVE  CasesOpened'
<1>1. ASSUME UNCHANGED decision, \A k \in Cases : review'[k].state = "ABSENT" <=> review[k].state = "ABSENT"
      PROVE  CasesOpened'
  BY <1>1 DEF CasesOpened
<1>2. ASSUME NEW w \in Workers, Work(w) PROVE CasesOpened'
  <2>1. UNCHANGED <<decision, review>>
    BY <1>2, WorkFrame DEF handoffVars, reviewVars, PersistResult
  <2>2. QED
    BY <1>1, <2>1
<1>3. ASSUME NEW m \in Runtimes, Admit(m) PROVE CasesOpened'
  <2>1. CASE Decide(m)
    BY <2>1, DecideOpens
  <2>2. CASE ~Decide(m)
    <3>1. UNCHANGED <<decision, review>>
      BY <1>3, <2>2, AdmitFrame DEF reviewVars
    <3>2. QED
      BY <1>1, <3>1
  <2>3. QED
    BY <2>1, <2>2
<1>4. CASE ReviewStep
  <2>1. UNCHANGED decision
    BY <1>4 DEF ReviewStep, handoffVars
  <2>2. ASSUME NEW k \in Cases, NEW v \in Reviewers, NEW why \in Whys, RequestMoreEvidence(k, v, why)
        PROVE  \A j \in Cases : review'[j].state = "ABSENT" <=> review[j].state = "ABSENT"
    BY <2>2, RequestShape
  <2>3. ASSUME NEW k \in Cases, NEW v \in Reviewers, NEW why \in Whys, NEW action \in Resolutions,
               Resolve(k, v, action, why)
        PROVE  \A j \in Cases : review'[j].state = "ABSENT" <=> review[j].state = "ABSENT"
    BY <2>3, ResolveShape
  <2>4. \A j \in Cases : review'[j].state = "ABSENT" <=> review[j].state = "ABSENT"
    BY <1>4, <2>2, <2>3 DEF ReviewStep
  <2>5. QED
    BY <1>1, <2>1, <2>4
<1>5. CASE \/ \E r \in Runs : CreateRun(r)
           \/ \E p \in Publishers : PublishProposals(p) \/ PublishHandoffs(p)
           \/ SwitchSource \/ UNCHANGED vars
  <2>1. UNCHANGED <<decision, review>>
    BY <1>5 DEF CreateRun, PublishProposals, PublishHandoffs, SwitchSource, vars, handoffVars, reviewVars
  <2>2. QED
    BY <1>1, <2>1
<1>6. QED
  BY <1>2, <1>3, <1>4, <1>5 DEF Next

-----------------------------------------------------------------------------

IInv == Typed /\ ReviewInv /\ HandoffInv /\ CasesOpened /\ LedgerInv

LEMMA InitInv == Init => IInv
<1> SUFFICES ASSUME Init PROVE IInv
  OBVIOUS
<1>1. Typed /\ ReviewInv
  BY InitTyped, InitReview
<1>2. /\ \A h \in Handoffs : handoff[h] = "ABSENT" /\ \A r \in Runs : run[r] = "ABSENT" /\ claims[r] = {}
      /\ \A r \in Runs : link[r] = NoHandoff
      /\ \A k \in Cases : decision[k] = "NONE"
      /\ \A f \in Facts : admissions[f] = 0
      /\ \A c \in Candidates : candidate[c] = "ABSENT"
      /\ canon = {} /\ \A m \in Runtimes : runtime[m].at = "IDLE"
  BY DEF Init, IdleRuntime
<1>3. \A k \in Cases : review[k].state = "ABSENT" /\ k[1] \in Handoffs
  BY DEF Init, ReviewInit, NoCase, Cases
<1>4. Numbered
  <2> SUFFICES ASSUME NEW r \in Runs PROVE \E n \in Nat : HandoffsOf(r) = {h \in Handoffs : h[1] = r /\ h[2] <= n}
    BY DEF Numbered
  <2>1. HandoffsOf(r) = {} /\ {h \in Handoffs : h[1] = r /\ h[2] <= 0} = {}
    BY <1>2 DEF HandoffsOf, Handoffs
  <2>2. 0 \in Nat
    OBVIOUS
  <2>3. QED
    BY <2>1, <2>2
<1>5. LinksOwn
  <2>1. NoHandoff \notin Handoffs
    BY AdmissionAssumption DEF Handoffs
  <2>2. \A r \in Runs : link[r] = NoHandoff /\ run[r] = "ABSENT"
    BY DEF Init
  <2>3. QED
    BY <2>1, <2>2 DEF LinksOwn, Referring
<1>6. GatesStillHold /\ HandoffsDecided /\ CasesOpened
  BY <1>2, <1>3 DEF GatesStillHold, Deciding, HandoffsDecided, CasesOpened
<1>7. RunsAgree
  <2>1. \A r \in Runs : claims[r] = {} /\ run[r] = "ABSENT"
    BY DEF Init
  <2>2. QED
    BY <2>1 DEF RunsAgree, Agreement
<1>8. LedgerInv
  <2>1. \A f \in Facts : Inserters(decision, f) = {}
    BY <1>2 DEF Inserters
  <2>2. QED
    BY <1>2, <2>1 DEF LedgerInv
<1>9. QED
  BY <1>1, <1>4, <1>5, <1>6, <1>7, <1>8 DEF IInv, HandoffInv

LEMMA StepInv == IInv /\ [Next]_vars => IInv'
BY TypedStep, ReviewStepInv, HandoffStep, CasesStep, LedgerStep DEF IInv, ReviewInv

LEMMA Invariance == Spec => []IInv
BY InitInv, StepInv, PTL DEF Spec

\* The rows obey their tables' constraints and the processes their loops: the check of
\* every write of the proposal worker, the runtime, the relays and the reviewers.
THEOREM TypeCorrect == Spec => []TypeOK
<1>1. IInv => TypeOK
  BY TypesHold DEF IInv, ReviewInv
<1>2. QED
  BY <1>1, Invariance, PTL

\* decide is one transaction: whatever dies, is delivered twice or waits for a lock, a
\* handoff has decisions for its whole package or for nothing, and people get exactly the
\* cases left to them.
THEOREM DecisionsAreWhole == Spec => []DecidedWhole
<1>1. IInv => DecidedWhole
  BY DecidedWholeMeans DEF IInv, HandoffInv
<1>2. QED
  BY <1>1, Invariance, PTL

\* The run row and the handoff that it refers to say the same, although the worker and the
\* runtime write them in transactions of their own and a run can be handed over many times.
THEOREM RunsFollowTheirHandoff == Spec => []RunAgreesWithHandoff
<1>1. IInv => RunAgreesWithHandoff
  BY AgreementMeans DEF IInv, HandoffInv
<1>2. QED
  BY <1>1, Invariance, PTL

\* Only _write_canonical puts facts into the ledger, once each, and every fact is traced to
\* the one decision that inserted it.
THEOREM LedgerIsTraced == Spec => []LedgerTraced
<1>1. IInv => LedgerTraced
  BY LedgerMeans DEF IInv
<1>2. QED
  BY <1>1, Invariance, PTL

\* resolve_human_review_case: the events of a case are its whole story, and the dossier's
\* context lists what reviewers accepted, once each.
THEOREM ReviewsAreAccounted == Spec => []ReviewIsAccounted
<1>1. IInv => ReviewIsAccounted
  BY ShapeIsHistory DEF IInv, ReviewInv, ReviewIsAccounted
<1>2. QED
  BY <1>1, Invariance, PTL

=============================================================================
