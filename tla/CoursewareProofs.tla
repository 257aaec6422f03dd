-------------------------- MODULE CoursewareProofs --------------------------
(***************************************************************************)
(* Proofs about courseware.h: what its records keep at every level of the  *)
(* store, and how they agree on a linearizable one, for any numbers of     *)
(* students and courses, any capacities and any clients; and about do_op   *)
(* of run_courseware.cpp: what main counts has happened at every level,    *)
(* and it counts nothing on a linearizable store.                          *)
(***************************************************************************)
EXTENDS RunCourseware, SessionStoreProofs

\* The store holds the records of the courseware and nothing else.
CoursewareStore == Keys = CoursewareKeys /\ Values = CoursewareValues

\* What the clients may do is fixed at the start.
CountOK ==
  /\ client \in Clients
  /\ ops \in 0 .. client.bound
  /\ crashed \in BOOLEAN

\* The list of courses names courses.
CoursesListed ==
  \A i \in DOMAIN versions[CourseList] : versions[CourseList][i].list \in Seq(Courses)

CourseInv == StoreSound /\ CountOK /\ ShownWithinCapacity /\ CoursesListed
-----------------------------------------------------------------------------
(* Keys and values *)

LEMMA KeysTyped ==
  ASSUME CoursewareStore
  PROVE  /\ StudentList \in Keys /\ CourseList \in Keys
         /\ \A x \in Students : Student(x) \in Keys /\ EnrollmentsOf(x) \in Keys
         /\ \A c \in Courses : Course(c) \in Keys /\ EnrollmentsIn(c) \in Keys
  BY DEF CoursewareStore, CoursewareKeys

\* No two records share a key.
LEMMA KeysDiffer ==
  /\ StudentList # CourseList
  /\ \A x : /\ \A k \in {StudentList, CourseList} : Student(x) # k /\ Course(x) # k
                                  /\ EnrollmentsOf(x) # k /\ EnrollmentsIn(x) # k
            /\ \A y : /\ Student(x) # Course(y) /\ Student(x) # EnrollmentsOf(y)
                      /\ Student(x) # EnrollmentsIn(y) /\ Course(x) # EnrollmentsOf(y)
                      /\ Course(x) # EnrollmentsIn(y) /\ EnrollmentsOf(x) # EnrollmentsIn(y)
                      /\ Course(x) = Course(y) => x = y
                      /\ EnrollmentsOf(x) = EnrollmentsOf(y) => x = y
                      /\ EnrollmentsIn(x) = EnrollmentsIn(y) => x = y
  BY DEF StudentList, CourseList, Student, Course, EnrollmentsOf, EnrollmentsIn

Ids == Students \cup Courses

LEMMA ValuesTyped ==
  /\ \A q \in Seq(Ids) : List(q) \in CoursewareValues /\ List(q).list = q /\ List(q).flag = "list"
  /\ \A f \in {"true", "0", "open", "close"} :
       Details(f) \in CoursewareValues /\ Details(f).list = <<>> /\ Details(f).flag = f
  /\ \A v \in CoursewareValues : v.list \in Seq(Ids)
  BY DEF CoursewareValues, List, Details, Ids

\* A list as it is read consists of ids.
LEMMA ListsTyped ==
  ASSUME CoursewareStore, StoreSound, NEW s \in Sessions, NEW r, Reads(s, r), NEW k
  PROVE  ListRead(k, r) \in Seq(Ids)
<1>1. CASE k \in DOMAIN r
  <2>1. k \in Keys /\ r[k] \in DOMAIN versions[k] BY <1>1, VisibleAboveFloor DEF Reads
  <2>2. versions[k][r[k]] \in CoursewareValues
    BY <2>1, VersionsTyped DEF StoreSound, CoursewareStore
  <2> QED BY <1>1, <2>2, ValuesTyped DEF ListRead
<1>2. CASE k \notin DOMAIN r BY <1>2 DEF ListRead
<1> QED BY <1>1, <1>2
-----------------------------------------------------------------------------
(* Writes that leave every list of a course within its capacity *)

Fits(k, v) ==
  /\ \A c \in Courses : k = EnrollmentsIn(c) => Len(v.list) <= Capacity[c]
  /\ k = CourseList => v.list \in Seq(Courses)

Writable(w) ==
  /\ DOMAIN w \subseteq Keys
  /\ \A k \in DOMAIN w : w[k] \in CoursewareValues /\ Fits(k, w[k])

LEMMA WritableNothing == Writable(NoWrites)
  BY DEF Writable, NoWrites

LEMMA WritableAt ==
  ASSUME NEW k \in Keys, NEW v \in CoursewareValues, Fits(k, v)
  PROVE  Writable(At(k, v))
<1>1. DOMAIN At(k, v) = {k} /\ At(k, v)[k] = v BY AtIsOne
<1> QED BY <1>1 DEF Writable

LEMMA WritableJoin ==
  ASSUME NEW f, NEW g, Writable(f), Writable(g)
  PROVE  Writable(f ++ g)
<1>1. /\ DOMAIN (f ++ g) = DOMAIN f \cup DOMAIN g
      /\ \A k \in DOMAIN f : (f ++ g)[k] = f[k]
      /\ \A k \in DOMAIN g \ DOMAIN f : (f ++ g)[k] = g[k]
  BY DEF ++
<1>2. DOMAIN (f ++ g) \subseteq Keys BY <1>1 DEF Writable
<1>3. ASSUME NEW k \in DOMAIN (f ++ g)
      PROVE  (f ++ g)[k] \in CoursewareValues /\ Fits(k, (f ++ g)[k])
  <2>1. CASE k \in DOMAIN f BY <1>1, <2>1 DEF Writable
  <2>2. CASE k \notin DOMAIN f BY <1>1, <2>2 DEF Writable
  <2> QED BY <2>1, <2>2
<1> QED BY <1>2, <1>3 DEF Writable

LEMMA FitsElsewhere ==
  /\ \A v : Fits(StudentList, v)
  /\ \A v : v.list \in Seq(Courses) => Fits(CourseList, v)
  /\ \A x, v : Fits(Student(x), v) /\ Fits(Course(x), v) /\ Fits(EnrollmentsOf(x), v)
  BY KeysDiffer DEF Fits

LEMMA FitsEmpty == \A k : Fits(k, List(<<>>))
<1> DEFINE v == List(<<>>)
<1>1. v.list = <<>> BY DEF List
<1> HIDE DEF v
<1>2. Len(v.list) = 0 /\ v.list \in Seq(Courses) BY <1>1
<1>3. \A c \in Courses : Capacity[c] \in Nat BY CoursewareAssumption
<1>4. \A k : Fits(k, v) BY <1>2, <1>3 DEF Fits
<1> QED BY <1>4 DEF v

\* An operation that only makes writes that fit keeps the invariant.
LEMMA OperationStep ==
  ASSUME CoursewareStore, CourseInv, NEW s \in Sessions, NEW r, NEW w, Transact(s, r, w),
         DOMAIN r \subseteq Keys, Writable(w), CountOK'
  PROVE  CourseInv'
<1>1. \A k \in DOMAIN w : w[k] \in Values BY DEF Writable, CoursewareStore
<1>2. StoreSound BY DEF CourseInv
<1>3. DOMAIN w \subseteq Keys BY DEF Writable
<1>4. /\ StoreSound'
      /\ \A k \in DOMAIN w : versions'[k] = Append(versions[k], w[k])
      /\ \A k \in Keys \ DOMAIN w : versions'[k] = versions[k]
  BY <1>1, <1>2, <1>3, TransactEffect
<1>5. ShownWithinCapacity'
  <2> SUFFICES ASSUME NEW c \in Courses, NEW i \in DOMAIN versions'[EnrollmentsIn(c)]
               PROVE  Len(versions'[EnrollmentsIn(c)][i].list) <= Capacity[c]
    BY DEF ShownWithinCapacity
  <2> DEFINE k == EnrollmentsIn(c)
  <2>1. k \in Keys BY KeysTyped
  <2>2. \A j \in DOMAIN versions[k] : Len(versions[k][j].list) <= Capacity[c]
    BY DEF CourseInv, ShownWithinCapacity
  <2>3. versions[k] \in Seq(Values) BY <1>2, <2>1, VersionsTyped DEF StoreSound
  <2>4. CASE k \in DOMAIN w
    <3>1. Len(w[k].list) <= Capacity[c] BY <2>4 DEF Writable, Fits
    <3>2. versions'[k][i] = IF i \in DOMAIN versions[k] THEN versions[k][i] ELSE w[k]
      <4>1. PICK q, v : q = versions[k] /\ v = w[k] OBVIOUS
      <4>2. q \in Seq(Values) /\ versions'[k] = Append(q, v) BY <1>4, <2>3, <2>4, <4>1
      <4>3. \A j \in DOMAIN Append(q, v) :
              Append(q, v)[j] = IF j \in DOMAIN q THEN q[j] ELSE v
        BY <4>2
      <4> QED BY <4>1, <4>2, <4>3
    <3> QED BY <2>2, <3>1, <3>2
  <2>5. CASE k \notin DOMAIN w BY <1>4, <2>1, <2>2, <2>5
  <2> QED BY <2>4, <2>5
<1>6. CoursesListed'
  <2> DEFINE k == CourseList
  <2> SUFFICES ASSUME NEW i \in DOMAIN versions'[k] PROVE versions'[k][i].list \in Seq(Courses)
    BY DEF CoursesListed
  <2>1. k \in Keys BY KeysTyped
  <2>2. \A j \in DOMAIN versions[k] : versions[k][j].list \in Seq(Courses)
    BY DEF CourseInv, CoursesListed
  <2>3. versions[k] \in Seq(Values) BY <1>2, <2>1, VersionsTyped DEF StoreSound
  <2>4. CASE k \in DOMAIN w
    <3>1. w[k].list \in Seq(Courses) BY <2>4 DEF Writable, Fits
    <3>2. versions'[k][i] = IF i \in DOMAIN versions[k] THEN versions[k][i] ELSE w[k]
      BY <1>4, <2>3, <2>4
    <3> QED BY <2>2, <3>1, <3>2
  <2>5. CASE k \notin DOMAIN w BY <1>4, <2>1, <2>2, <2>5
  <2> QED BY <2>4, <2>5
<1> QED BY <1>4, <1>5, <1>6 DEF CourseInv
-----------------------------------------------------------------------------
(* Every step makes writes that fit *)

\* Session s performs an operation: reads r and then writes w that fit.
Fitting(s, r, w) == DOMAIN r \subseteq Keys /\ Writable(w) /\ Transact(s, r, w)
FittingStep(s) == \E r, w : Fitting(s, r, w)

\* An operation is counted, of the same clients as before.
Counted == CountOK' /\ UNCHANGED client

LEMMA NothingFits ==
  ASSUME NEW s, NEW r, Reads(s, r), Transact(s, r, NoWrites)
  PROVE  FittingStep(s)
  BY WritableNothing DEF FittingStep, Fitting, Reads

\* The lists that operations write: what they have read, with one id more or less.
LEMMA WrittenTyped ==
  ASSUME CoursewareStore, StoreSound, NEW s \in Sessions, NEW r, Reads(s, r), NEW k,
         NEW i \in Ids
  PROVE  /\ List(Append(ListRead(k, r), i)) \in CoursewareValues
         /\ List(Without(ListRead(k, r), i)) \in CoursewareValues
         /\ List(<<>>) \in CoursewareValues
<1>1. ListRead(k, r) \in Seq(Ids) BY ListsTyped
<1>2. Append(ListRead(k, r), i) \in Seq(Ids) BY <1>1
<1>3. Without(ListRead(k, r), i) \in Seq(Ids) BY <1>1, WithoutHolds
<1>4. <<>> \in Seq(Ids) OBVIOUS
<1> QED BY <1>2, <1>3, <1>4, ValuesTyped

\* The list of courses is read, and written, as a list of courses.
LEMMA CourseListRead ==
  ASSUME CourseInv, NEW s \in Sessions, NEW r, Reads(s, r)
  PROVE  ListRead(CourseList, r) \in Seq(Courses)
<1>1. CASE CourseList \in DOMAIN r
  <2>1. r[CourseList] \in DOMAIN versions[CourseList]
    BY <1>1, VisibleAboveFloor DEF Reads, CourseInv
  <2> QED BY <1>1, <2>1 DEF ListRead, CourseInv, CoursesListed
<1>2. CASE CourseList \notin DOMAIN r BY <1>2 DEF ListRead
<1> QED BY <1>1, <1>2

LEMMA CourseListTyped ==
  ASSUME CourseInv, NEW s \in Sessions, NEW r, Reads(s, r), NEW c \in Courses
  PROVE  /\ Fits(CourseList, List(Append(ListRead(CourseList, r), c)))
         /\ Fits(CourseList, List(Without(ListRead(CourseList, r), c)))
<1>1. ListRead(CourseList, r) \in Seq(Courses) BY CourseListRead
<1>2. Append(ListRead(CourseList, r), c) \in Seq(Courses) BY <1>1
<1>3. Without(ListRead(CourseList, r), c) \in Seq(Courses) BY <1>1, WithoutHolds
<1>4. \A q : List(q).list = q BY DEF List
<1> QED BY <1>1, <1>2, <1>3, <1>4, FitsElsewhere

LEMMA PerformsCount ==
  ASSUME CountOK, NEW op, Performs(op), crashed' \in BOOLEAN
  PROVE  Counted
<1>1. client.bound \in Nat BY CoursewareAssumption DEF CountOK, ClientKinds
<1>2. client' = client /\ ops' = ops + 1 /\ ops < client.bound BY DEF Performs
<1>3. ops \in 0 .. client.bound BY DEF CountOK
<1>4. ops + 1 \in 0 .. client.bound BY <1>1, <1>2, <1>3
<1> QED BY <1>2, <1>4 DEF CountOK, Counted

LEMMA AddStudentFits ==
  ASSUME CoursewareStore, CourseInv, NEW s \in Sessions, NEW x \in Students, AddStudent(s, x)
  PROVE  FittingStep(s) /\ Counted
<1> DEFINE list(r) == At(StudentList, List(Append(ListRead(StudentList, r), x)))
           details == At(Student(x), Details("true"))
           courses == At(EnrollmentsOf(x), List(<<>>))
<1>1. PICK r \in ReadChoices(s, {StudentList}) : Transact(s, r, list(r) ++ details ++ courses)
  BY DEF AddStudent
<1>2. Reads(s, r) BY KeysTyped, ReadsOfChoices
<1>3. x \in Ids BY DEF Ids
<1>4. Writable(list(r)) /\ Writable(courses)
  BY <1>2, <1>3, WrittenTyped, KeysTyped, FitsElsewhere, WritableAt DEF CourseInv
<1>5. Writable(details) BY KeysTyped, ValuesTyped, FitsElsewhere, WritableAt
<1>6. Writable(list(r) ++ details ++ courses) BY <1>4, <1>5, WritableJoin
<1>7. Counted BY PerformsCount DEF AddStudent, CourseInv, CountOK
<1> QED BY <1>1, <1>2, <1>6, <1>7 DEF FittingStep, Fitting, Reads

LEMMA DeleteStudentFits ==
  ASSUME CoursewareStore, CourseInv, NEW s \in Sessions, NEW x \in Students, DeleteStudent(s, x)
  PROVE  FittingStep(s) /\ Counted
<1> DEFINE deregister == IF Present(Student(x)) THEN At(Student(x), Details("0")) ELSE NoWrites
           list(r) == At(StudentList, List(Without(ListRead(StudentList, r), x)))
           courses == At(EnrollmentsOf(x), List(<<>>))
           writes(r) == IF Present(StudentList) THEN deregister ++ (list(r) ++ courses)
                        ELSE deregister
<1>1. PICK r \in ReadChoices(s, {Student(x), StudentList}) : Transact(s, r, writes(r))
  BY DEF DeleteStudent
<1>2. Reads(s, r) BY KeysTyped, ReadsOfChoices
<1>3. x \in Ids BY DEF Ids
<1>4. Writable(list(r)) /\ Writable(courses)
  BY <1>2, <1>3, WrittenTyped, KeysTyped, FitsElsewhere, WritableAt DEF CourseInv
<1>5. Writable(deregister)
  BY KeysTyped, ValuesTyped, FitsElsewhere, WritableAt, WritableNothing
<1>6. Writable(writes(r)) BY <1>4, <1>5, WritableJoin
<1>7. Counted BY PerformsCount DEF DeleteStudent, CourseInv, CountOK
<1> QED BY <1>1, <1>2, <1>6, <1>7 DEF FittingStep, Fitting, Reads

LEMMA AddCourseFits ==
  ASSUME CoursewareStore, CourseInv, NEW s \in Sessions, NEW c \in Courses, AddCourse(s, c)
  PROVE  FittingStep(s) /\ Counted
<1> DEFINE list(r) == At(CourseList, List(Append(ListRead(CourseList, r), c)))
           details == At(Course(c), Details("close"))
           students == At(EnrollmentsIn(c), List(<<>>))
<1>1. PICK r \in ReadChoices(s, {CourseList}) : Transact(s, r, list(r) ++ details ++ students)
  BY DEF AddCourse
<1>2. Reads(s, r) BY KeysTyped, ReadsOfChoices
<1>3. c \in Ids BY DEF Ids
<1>4. Writable(list(r)) /\ Writable(students)
  BY <1>2, <1>3, WrittenTyped, KeysTyped, CourseListTyped, FitsEmpty, WritableAt DEF CourseInv
<1>5. Writable(details) BY KeysTyped, ValuesTyped, FitsElsewhere, WritableAt
<1>6. Writable(list(r) ++ details ++ students) BY <1>4, <1>5, WritableJoin
<1>7. Counted BY PerformsCount DEF AddCourse, CourseInv, CountOK
<1> QED BY <1>1, <1>2, <1>6, <1>7 DEF FittingStep, Fitting, Reads

\* The writes of delete_course, given the reads of the list of courses.
ClosingWrites(c) == IF Present(Course(c)) THEN At(Course(c), Details("close")) ELSE NoWrites
RemovingWrites(c, r) ==
  IF Present(CourseList)
    THEN ClosingWrites(c) ++ (At(CourseList, List(Without(ListRead(CourseList, r), c)))
                                ++ At(EnrollmentsIn(c), List(<<>>)))
    ELSE ClosingWrites(c)

LEMMA RemovingFits ==
  ASSUME CoursewareStore, CourseInv, NEW s \in Sessions, NEW c \in Courses, NEW r, Reads(s, r)
  PROVE  Writable(RemovingWrites(c, r))
<1>1. c \in Ids BY DEF Ids
<1>2. /\ Writable(At(CourseList, List(Without(ListRead(CourseList, r), c))))
      /\ Writable(At(EnrollmentsIn(c), List(<<>>)))
  BY <1>1, WrittenTyped, KeysTyped, CourseListTyped, FitsEmpty, WritableAt DEF CourseInv
<1>3. Writable(ClosingWrites(c))
  BY KeysTyped, ValuesTyped, FitsElsewhere, WritableAt, WritableNothing DEF ClosingWrites
<1> QED BY <1>2, <1>3, WritableJoin DEF RemovingWrites

LEMMA DeleteCourseFits ==
  ASSUME CoursewareStore, CourseInv, NEW s \in Sessions, NEW c \in Courses, DeleteCourse(s, c)
  PROVE  FittingStep(s) /\ Counted
<1>1. PICK r \in ReadChoices(s, {Course(c), CourseList}) : Transact(s, r, RemovingWrites(c, r))
  BY DEF DeleteCourse, RemovingWrites, ClosingWrites
<1>2. Reads(s, r) BY KeysTyped, ReadsOfChoices
<1>3. Writable(RemovingWrites(c, r)) BY <1>2, RemovingFits
<1>4. Counted BY PerformsCount DEF DeleteCourse, CourseInv, CountOK
<1> QED BY <1>1, <1>2, <1>3, <1>4 DEF FittingStep, Fitting, Reads

LEMMA SetFlagFits ==
  ASSUME CoursewareStore, CourseInv, NEW s \in Sessions, NEW op, NEW k \in Keys,
         \A v : Fits(k, v), NEW flag \in {"true", "0", "open", "close"}, SetFlag(op, s, k, flag)
  PROVE  FittingStep(s) /\ Counted
<1> DEFINE w == IF Present(k) THEN At(k, Details(flag)) ELSE NoWrites
<1>1. PICK r \in ReadChoices(s, {k}) : Transact(s, r, w) BY DEF SetFlag
<1>2. Reads(s, r) BY ReadsOfChoices
<1>3. Writable(w) BY ValuesTyped, WritableAt, WritableNothing
<1>4. Counted BY PerformsCount DEF SetFlag, CourseInv, CountOK
<1> QED BY <1>1, <1>2, <1>3, <1>4 DEF FittingStep, Fitting, Reads

LEMMA GetListFits ==
  ASSUME CoursewareStore, CourseInv, NEW s \in Sessions, NEW op, NEW k \in Keys,
         GetList(op, s, k)
  PROVE  FittingStep(s) /\ Counted
<1>1. PICK r \in ReadChoices(s, {k}) : Transact(s, r, NoWrites) BY DEF GetList
<1>2. Reads(s, r) BY ReadsOfChoices
<1>3. Counted BY PerformsCount DEF GetList, CourseInv, CountOK
<1> QED BY <1>1, <1>2, <1>3, NothingFits
-----------------------------------------------------------------------------
(* enroll and get_enrollments *)

\* enroll, for a student and a course that were found, the course open, in the read r.
Eligible(s, x, c, r) ==
  /\ Course(c) \in DOMAIN r /\ FlagRead(Course(c), r) = "open"
  /\ EnrollIfSeat(s, x, c, r)

LEMMA EnrollCases ==
  ASSUME CoursewareStore, NEW s \in Sessions, NEW x \in Students, NEW c \in Courses,
         Enroll(s, x, c)
  PROVE  /\ Performs("enroll") /\ crashed' \in BOOLEAN
         /\ \E r : Reads(s, r) /\ (Transact(s, r, NoWrites) \/ Eligible(s, x, c, r))
<1> DEFINE details == IF Present(Student(x)) THEN {Student(x), Course(c)} ELSE {}
           found == Present(Student(x)) /\ Present(Course(c))
           throws(r) == found /\ FlagRead(Student(x), r) = "0"
           eligible(r) == found /\ ~ throws(r) /\ FlagRead(Course(c), r) = "open"
<1>1. Performs("enroll") BY DEF Enroll
<1>2. PICK r \in ReadChoices(s, details) :
        /\ crashed' = throws(r)
        /\ IF eligible(r) THEN EnrollIfSeat(s, x, c, r) ELSE Transact(s, r, NoWrites)
  BY DEF Enroll
<1>3. crashed' \in BOOLEAN BY <1>2
<1>4. Reads(s, r) /\ DOMAIN r = {k \in details : Present(k)} BY KeysTyped, ReadsOfChoices
<1>5. CASE eligible(r) BY <1>1, <1>2, <1>3, <1>4, <1>5 DEF Eligible
<1>6. CASE ~ eligible(r) BY <1>1, <1>2, <1>3, <1>4, <1>6
<1> QED BY <1>5, <1>6

\* What an eligible student's enroll writes: the course is closed, or the student
\* takes a seat in the list that was read.
SeatWrites(x, c, q, p) ==
  At(EnrollmentsIn(c), List(Append(ListRead(EnrollmentsIn(c), q), x)))
    ++ At(EnrollmentsOf(x), List(Append(ListRead(EnrollmentsOf(x), p), c)))

TakesSeat(s, x, c, q, p, all) ==
  /\ q \in ReadChoices(s, {EnrollmentsIn(c)}) /\ p \in ReadChoices(s, {EnrollmentsOf(x)})
  /\ Len(ListRead(EnrollmentsIn(c), q)) < Capacity[c]
  /\ Reads(s, q) /\ Reads(s, p) /\ Reads(s, all)
  /\ Transact(s, all, SeatWrites(x, c, q, p))

LEMMA EligibleCases ==
  ASSUME CoursewareStore, StoreSound, NEW s \in Sessions, NEW x \in Students, NEW c \in Courses,
         NEW r, Reads(s, r), Eligible(s, x, c, r)
  PROVE  \/ \E all : Reads(s, all) /\ Transact(s, all, At(Course(c), Details("close")))
         \/ \E q, p, all : TakesSeat(s, x, c, q, p, all)
<1>1. PICK q \in ReadChoices(s, {EnrollmentsIn(c)}) :
        IF Len(ListRead(EnrollmentsIn(c), q)) >= Capacity[c]
          THEN Transact(s, r ++ q, At(Course(c), Details("close")))
          ELSE \E p \in ReadChoices(s, {EnrollmentsOf(x)}) :
                 Transact(s, r ++ q ++ p, SeatWrites(x, c, q, p))
  BY DEF Eligible, EnrollIfSeat, SeatWrites
<1>2. Reads(s, q) BY KeysTyped, ReadsOfChoices
<1>3. Reads(s, r ++ q) BY <1>2, ReadsJoin
<1>4. CASE Len(ListRead(EnrollmentsIn(c), q)) >= Capacity[c] BY <1>1, <1>3, <1>4
<1>5. CASE ~ (Len(ListRead(EnrollmentsIn(c), q)) >= Capacity[c])
  <2>1. PICK p \in ReadChoices(s, {EnrollmentsOf(x)}) :
          Transact(s, r ++ q ++ p, SeatWrites(x, c, q, p))
    BY <1>1, <1>5
  <2>2. Reads(s, p) BY KeysTyped, ReadsOfChoices
  <2>3. Reads(s, r ++ q ++ p) BY <1>3, <2>2, ReadsJoin
  <2>4. ListRead(EnrollmentsIn(c), q) \in Seq(Ids) BY <1>2, ListsTyped
  <2>5. Len(ListRead(EnrollmentsIn(c), q)) \in Nat BY <2>4
  <2>6. Capacity[c] \in Nat BY CoursewareAssumption
  <2>7. Len(ListRead(EnrollmentsIn(c), q)) < Capacity[c] BY <1>5, <2>5, <2>6
  <2>8. TakesSeat(s, x, c, q, p, r ++ q ++ p)
    BY <1>2, <2>1, <2>2, <2>3, <2>7 DEF TakesSeat
  <2> QED BY <2>8
<1> QED BY <1>4, <1>5

LEMMA SeatFits ==
  ASSUME CoursewareStore, StoreSound, NEW s \in Sessions, NEW x \in Students, NEW c \in Courses,
         NEW q, NEW p, NEW all, TakesSeat(s, x, c, q, p, all)
  PROVE  Writable(SeatWrites(x, c, q, p))
<1> DEFINE in == List(Append(ListRead(EnrollmentsIn(c), q), x))
           of == List(Append(ListRead(EnrollmentsOf(x), p), c))
<1>1. Reads(s, q) /\ Reads(s, p) BY DEF TakesSeat
<1>2. x \in Ids /\ c \in Ids BY DEF Ids
<1>3. in \in CoursewareValues /\ of \in CoursewareValues BY <1>1, <1>2, WrittenTyped
<1>4. ListRead(EnrollmentsIn(c), q) \in Seq(Ids) BY <1>1, ListsTyped
<1>5. /\ Len(ListRead(EnrollmentsIn(c), q)) < Capacity[c] /\ Capacity[c] \in Nat
      /\ Len(ListRead(EnrollmentsIn(c), q)) \in Nat
  BY <1>4, CoursewareAssumption DEF TakesSeat
<1>6. in.list = Append(ListRead(EnrollmentsIn(c), q), x) BY DEF List
<1>7. Len(in.list) <= Capacity[c] BY <1>4, <1>5, <1>6
<1> HIDE DEF in, of
<1>8. Fits(EnrollmentsIn(c), in) BY <1>7, KeysDiffer DEF Fits
<1>9. Fits(EnrollmentsOf(x), of) BY FitsElsewhere
<1>10. Writable(At(EnrollmentsIn(c), in)) /\ Writable(At(EnrollmentsOf(x), of))
  BY <1>3, <1>8, <1>9, KeysTyped, WritableAt
<1> QED BY <1>10, WritableJoin DEF SeatWrites, in, of

LEMMA EnrollFits ==
  ASSUME CoursewareStore, CourseInv, NEW s \in Sessions, NEW x \in Students, NEW c \in Courses,
         Enroll(s, x, c)
  PROVE  FittingStep(s) /\ Counted
<1>1. StoreSound BY DEF CourseInv
<1>2. Counted BY EnrollCases, PerformsCount DEF CourseInv
<1>3. PICK r : Reads(s, r) /\ (Transact(s, r, NoWrites) \/ Eligible(s, x, c, r)) BY EnrollCases
<1>4. CASE Transact(s, r, NoWrites) BY <1>2, <1>3, <1>4, NothingFits
<1>5. CASE Eligible(s, x, c, r)
  <2>1. ASSUME NEW all, Reads(s, all), Transact(s, all, At(Course(c), Details("close")))
        PROVE  FittingStep(s)
    <3>1. Writable(At(Course(c), Details("close")))
      BY KeysTyped, ValuesTyped, FitsElsewhere, WritableAt
    <3> QED BY <2>1, <3>1 DEF FittingStep, Fitting, Reads
  <2>2. ASSUME NEW q, NEW p, NEW all, TakesSeat(s, x, c, q, p, all)
        PROVE  FittingStep(s)
    <3>1. Writable(SeatWrites(x, c, q, p)) BY <1>1, <2>2, SeatFits
    <3> QED BY <2>2, <3>1 DEF FittingStep, Fitting, TakesSeat, Reads
  <2>3. \/ \E all : Reads(s, all) /\ Transact(s, all, At(Course(c), Details("close")))
        \/ \E q, p, all : TakesSeat(s, x, c, q, p, all)
    BY <1>1, <1>3, <1>5, EligibleCases
  <2> QED BY <1>2, <2>1, <2>2, <2>3
<1> QED BY <1>3, <1>4, <1>5

LEMMA EnrollmentKeysTyped ==
  ASSUME CoursewareStore, CourseInv, NEW s \in Sessions, NEW r, Reads(s, r)
  PROVE  LET listed == ListRead(CourseList, r)
         IN {EnrollmentsIn(listed[i]) : i \in DOMAIN listed} \subseteq Keys
<1>1. ListRead(CourseList, r) \in Seq(Courses) BY CourseListRead
<1>2. \A i \in DOMAIN ListRead(CourseList, r) : ListRead(CourseList, r)[i] \in Courses BY <1>1
<1> QED BY <1>2, KeysTyped

LEMMA GetEnrollmentsFits ==
  ASSUME CoursewareStore, CourseInv, NEW s \in Sessions, GetEnrollments(s)
  PROVE  FittingStep(s) /\ Counted
<1> DEFINE listed(r) == ListRead(CourseList, r)
           keys(r) == {EnrollmentsIn(listed(r)[i]) : i \in DOMAIN listed(r)}
<1>1. PICK r \in ReadChoices(s, {CourseList}) :
        \E q \in ReadChoices(s, keys(r)) : Transact(s, r ++ q, NoWrites)
  BY DEF GetEnrollments
<1>2. PICK q \in ReadChoices(s, keys(r)) : Transact(s, r ++ q, NoWrites) BY <1>1
<1>3. Reads(s, r) BY KeysTyped, ReadsOfChoices
<1>4. keys(r) \subseteq Keys BY <1>3, EnrollmentKeysTyped
<1>5. Reads(s, q) BY <1>4, ReadsOfChoices
<1>6. Reads(s, r ++ q) BY <1>3, <1>5, ReadsJoin
<1>7. Counted BY PerformsCount DEF GetEnrollments, CourseInv, CountOK
<1> QED BY <1>2, <1>6, <1>7, NothingFits
-----------------------------------------------------------------------------
(* The invariant at every level *)

LEMMA CountingTyped ==
  ASSUME NEW n \in Nat, NEW N \in Nat, n <= N
  PROVE  /\ Counting(n) \in Seq([list : Seq(1 .. N), flag : {"list"}])
         /\ DOMAIN Counting(n) = 1 .. n
         /\ \A i \in 1 .. n : /\ Counting(n)[i].list = [j \in 1 .. i |-> j]
                              /\ Counting(n)[i].list \in Seq(1 .. N)
<1>1. \A i \in 1 .. n : [j \in 1 .. i |-> j] \in Seq(1 .. N)
  <2> SUFFICES ASSUME NEW i \in 1 .. n PROVE [j \in 1 .. i |-> j] \in Seq(1 .. N)
    OBVIOUS
  <2>1. \A j \in 1 .. i : j \in 1 .. N OBVIOUS
  <2>2. i \in Nat OBVIOUS
  <2> QED BY <2>1, <2>2
<1>2. \A i \in 1 .. n : /\ List([j \in 1 .. i |-> j]) \in [list : Seq(1 .. N), flag : {"list"}]
                        /\ List([j \in 1 .. i |-> j]).list = [j \in 1 .. i |-> j]
  BY <1>1 DEF List
<1>3. Counting(n) \in Seq([list : Seq(1 .. N), flag : {"list"}]) BY <1>2 DEF Counting
<1> QED BY <1>1, <1>2, <1>3 DEF Counting

\* The records after populate_courseware.
LEMMA PopulatedRecords ==
  ASSUME CoursewareStore, Init
  PROVE  LET n == client.students
             m == client.courses
         IN /\ n \in Nat /\ n <= NumStudents /\ m \in Nat /\ m <= NumCourses
            /\ versions[StudentList] = Counting(n) /\ versions[CourseList] = Counting(m)
            /\ \A x \in Students :
                 /\ versions[Student(x)] = IF x <= n THEN <<Details("true")>> ELSE <<>>
                 /\ versions[EnrollmentsOf(x)] = IF x <= n THEN <<List(<<>>)>> ELSE <<>>
            /\ \A c \in Courses :
                 /\ versions[Course(c)] = IF c <= m THEN <<Details("close"), Details("open")>>
                                          ELSE <<>>
                 /\ versions[EnrollmentsIn(c)] = IF c <= m THEN <<List(<<>>)>> ELSE <<>>
<1> DEFINE n == client.students
           m == client.courses
<1>1. n \in 0 .. NumStudents /\ m \in 0 .. NumCourses
  BY CoursewareAssumption DEF Init, ClientKinds
<1>2. n \in Nat /\ n <= NumStudents /\ m \in Nat /\ m <= NumCourses
  BY <1>1, CoursewareAssumption
<1>3. \A k \in Keys : versions[k] = Populated(n, m)[k] BY DEF Init
<1>4. \A x \in Students : (x \in 1 .. n <=> x <= n) BY <1>2 DEF Students
<1>5. \A c \in Courses : (c \in 1 .. m <=> c <= m) BY <1>2 DEF Courses
<1> HIDE DEF n, m
<1>6. versions[StudentList] = Counting(n) /\ versions[CourseList] = Counting(m)
  BY <1>3, KeysTyped, KeysDiffer DEF Populated
<1>7. ASSUME NEW x \in Students
      PROVE  /\ versions[Student(x)] = IF x <= n THEN <<Details("true")>> ELSE <<>>
             /\ versions[EnrollmentsOf(x)] = IF x <= n THEN <<List(<<>>)>> ELSE <<>>
  <2>1. versions[Student(x)] = IF x <= n THEN <<Details("true")>> ELSE <<>>
    BY <1>3, <1>4, KeysTyped, KeysDiffer DEF Populated, Student
  <2>2. versions[EnrollmentsOf(x)] = IF x <= n THEN <<List(<<>>)>> ELSE <<>>
    BY <1>3, <1>4, KeysTyped, KeysDiffer DEF Populated
  <2> QED BY <2>1, <2>2
<1>8. ASSUME NEW c \in Courses
      PROVE  /\ versions[Course(c)] = IF c <= m THEN <<Details("close"), Details("open")>> ELSE <<>>
             /\ versions[EnrollmentsIn(c)] = IF c <= m THEN <<List(<<>>)>> ELSE <<>>
  <2>1. versions[Course(c)] = IF c <= m THEN <<Details("close"), Details("open")>> ELSE <<>>
    BY <1>3, <1>5, KeysTyped, KeysDiffer DEF Populated
  <2>2. versions[EnrollmentsIn(c)] = IF c <= m THEN <<List(<<>>)>> ELSE <<>>
    BY <1>3, <1>5, KeysTyped, KeysDiffer DEF Populated
  <2> QED BY <2>1, <2>2
<1> QED BY <1>2, <1>6, <1>7, <1>8 DEF n, m

LEMMA CourseInvInit ==
  ASSUME CoursewareStore, Init
  PROVE  CourseInv
<1> DEFINE n == client.students
           m == client.courses
<1>1. /\ n \in Nat /\ n <= NumStudents /\ m \in Nat /\ m <= NumCourses
      /\ versions[StudentList] = Counting(n) /\ versions[CourseList] = Counting(m)
      /\ \A x \in Students :
           /\ versions[Student(x)] = IF x <= n THEN <<Details("true")>> ELSE <<>>
           /\ versions[EnrollmentsOf(x)] = IF x <= n THEN <<List(<<>>)>> ELSE <<>>
      /\ \A c \in Courses :
           /\ versions[Course(c)] = IF c <= m THEN <<Details("close"), Details("open")>> ELSE <<>>
           /\ versions[EnrollmentsIn(c)] = IF c <= m THEN <<List(<<>>)>> ELSE <<>>
  BY PopulatedRecords
<1>2. NumStudents \in Nat /\ NumCourses \in Nat BY CoursewareAssumption
<1> HIDE DEF n, m
<1>3. /\ Counting(n) \in Seq([list : Seq(Students), flag : {"list"}])
      /\ Counting(m) \in Seq([list : Seq(Courses), flag : {"list"}])
      /\ \A i \in DOMAIN Counting(m) : Counting(m)[i].list \in Seq(Courses)
  BY <1>1, <1>2, CountingTyped DEF Students, Courses
<1>4. /\ [list : Seq(Students), flag : {"list"}] \subseteq CoursewareValues
      /\ [list : Seq(Courses), flag : {"list"}] \subseteq CoursewareValues
  BY DEF CoursewareValues
<1>5. Counting(n) \in Seq(Values) /\ Counting(m) \in Seq(Values)
  BY <1>3, <1>4, SeqWidens DEF CoursewareStore
<1>6. /\ <<>> \in Seq(Values) /\ <<List(<<>>)>> \in Seq(Values)
      /\ <<Details("true")>> \in Seq(Values)
      /\ <<Details("close"), Details("open")>> \in Seq(Values)
  <2>1. List(<<>>) \in Values BY ValuesTyped DEF CoursewareStore
  <2>2. Details("true") \in Values /\ Details("close") \in Values /\ Details("open") \in Values
    BY ValuesTyped DEF CoursewareStore
  <2>3. /\ <<>> \in Seq(Values)
        /\ \A u, v \in Values : <<u>> \in Seq(Values) /\ <<u, v>> \in Seq(Values)
    OBVIOUS
  <2> QED BY <2>1, <2>2, <2>3
<1>7. ASSUME NEW k \in Keys PROVE versions[k] \in Seq(Values)
  <2>1. CASE k \in {StudentList, CourseList} BY <1>1, <1>5, <2>1
  <2>2. ASSUME NEW x \in Students, k = Student(x) \/ k = EnrollmentsOf(x)
        PROVE  versions[k] \in Seq(Values)
    <3>1. \/ versions[k] = <<>> \/ versions[k] = <<Details("true")>> \/ versions[k] = <<List(<<>>)>>
      BY <1>1, <2>2
    <3> QED BY <1>6, <3>1
  <2>3. ASSUME NEW c \in Courses, k = Course(c) \/ k = EnrollmentsIn(c)
        PROVE  versions[k] \in Seq(Values)
    <3>1. \/ versions[k] = <<>> \/ versions[k] = <<Details("close"), Details("open")>>
          \/ versions[k] = <<List(<<>>)>>
      BY <1>1, <2>3
    <3> QED BY <1>6, <3>1
  <2> QED BY <2>1, <2>2, <2>3 DEF CoursewareStore, CoursewareKeys
<1>8. StoreTypeOK
  <2>1. versions = [k \in Keys |-> versions[k]] BY DEF Init, Populated
  <2>2. versions \in [Keys -> Seq(Values)] BY <1>7, <2>1
  <2> QED BY <2>2 DEF StoreTypeOK, Init
<1>9. FloorsBounded
  <2>1. ASSUME NEW s \in Sessions, NEW k \in Keys PROVE floor[s][k] <= Len(versions[k])
    <3>1. floor[s][k] = 0 BY DEF Init
    <3>2. versions[k] \in Seq(Values) BY <1>7
    <3>3. Len(versions[k]) \in Nat BY <3>2
    <3> QED BY <3>1, <3>3
  <2> QED BY <2>1 DEF FloorsBounded
<1>10. CountOK
  <2>1. client.bound \in Nat BY CoursewareAssumption DEF Init, ClientKinds
  <2>2. client \in Clients /\ ops = 0 /\ crashed \in BOOLEAN BY DEF Init
  <2>3. 0 \in 0 .. client.bound BY <2>1
  <2> QED BY <2>2, <2>3 DEF CountOK
<1>11. ShownWithinCapacity
  <2> SUFFICES ASSUME NEW c \in Courses, NEW i \in DOMAIN versions[EnrollmentsIn(c)]
               PROVE  Len(versions[EnrollmentsIn(c)][i].list) <= Capacity[c]
    BY DEF ShownWithinCapacity
  <2>1. versions[EnrollmentsIn(c)] = <<>> \/ versions[EnrollmentsIn(c)] = <<List(<<>>)>>
    BY <1>1
  <2>2. versions[EnrollmentsIn(c)][i] = List(<<>>) BY <2>1
  <2>3. Fits(EnrollmentsIn(c), List(<<>>)) BY FitsEmpty
  <2> QED BY <2>2, <2>3 DEF Fits
<1>12. CoursesListed BY <1>1, <1>3 DEF CoursesListed
<1> QED BY <1>8, <1>9, <1>10, <1>11, <1>12 DEF CourseInv, StoreSound

LEMMA NextFits ==
  ASSUME CoursewareStore, CourseInv, Next
  PROVE  \E s \in Sessions : FittingStep(s) /\ Counted
<1>1. ASSUME NEW s \in Sessions, GetEnrollments(s) PROVE FittingStep(s) /\ Counted
  BY <1>1, GetEnrollmentsFits
<1>2. ASSUME NEW s \in Sessions, NEW x \in Students, AddStudent(s, x)
      PROVE  FittingStep(s) /\ Counted
  BY <1>2, AddStudentFits
<1>3. ASSUME NEW s \in Sessions, NEW x \in Students, DeleteStudent(s, x)
      PROVE  FittingStep(s) /\ Counted
  BY <1>3, DeleteStudentFits
<1>4. ASSUME NEW s \in Sessions, NEW x \in Students,
             RegisterStudent(s, x) \/ DeregisterStudent(s, x)
      PROVE  FittingStep(s) /\ Counted
  BY <1>4, SetFlagFits, KeysTyped, FitsElsewhere DEF RegisterStudent, DeregisterStudent
<1>5. ASSUME NEW s \in Sessions, NEW x \in Students, GetEnrolledCourses(s, x)
      PROVE  FittingStep(s) /\ Counted
  BY <1>5, GetListFits, KeysTyped DEF GetEnrolledCourses
<1>6. ASSUME NEW s \in Sessions, NEW x \in Students, NEW c \in Courses, Enroll(s, x, c)
      PROVE  FittingStep(s) /\ Counted
  BY <1>6, EnrollFits
<1>7. ASSUME NEW s \in Sessions, NEW c \in Courses, AddCourse(s, c)
      PROVE  FittingStep(s) /\ Counted
  BY <1>7, AddCourseFits
<1>8. ASSUME NEW s \in Sessions, NEW c \in Courses, DeleteCourse(s, c)
      PROVE  FittingStep(s) /\ Counted
  BY <1>8, DeleteCourseFits
<1>9. ASSUME NEW s \in Sessions, NEW c \in Courses, OpenCourse(s, c) \/ CloseCourse(s, c)
      PROVE  FittingStep(s) /\ Counted
  BY <1>9, SetFlagFits, KeysTyped, FitsElsewhere DEF OpenCourse, CloseCourse
<1>10. ASSUME NEW s \in Sessions, NEW c \in Courses, GetEnrolledStudents(s, c)
       PROVE  FittingStep(s) /\ Counted
  BY <1>10, GetListFits, KeysTyped DEF GetEnrolledStudents
<1> QED
  BY <1>1, <1>2, <1>3, <1>4, <1>5, <1>6, <1>7, <1>8, <1>9, <1>10 DEF Next

LEMMA CourseInvStep ==
  ASSUME CoursewareStore, CourseInv, [Next]_vars
  PROVE  CourseInv'
<1>1. CASE Next
  <2>1. PICK s \in Sessions : FittingStep(s) /\ Counted BY <1>1, NextFits
  <2>2. PICK r, w : Fitting(s, r, w) BY <2>1 DEF FittingStep
  <2> QED BY <2>1, <2>2, OperationStep DEF Fitting, Counted
<1>2. CASE UNCHANGED vars
  BY <1>2 DEF vars, storeVars, appVars, CourseInv, StoreSound, StoreTypeOK, FloorsBounded,
              CountOK, ShownWithinCapacity, CoursesListed
<1> QED BY <1>1, <1>2

LEMMA LevelAndClientKept ==
  ASSUME CoursewareStore, CourseInv, Next
  PROVE  level' = level /\ client' = client
<1>1. PICK s \in Sessions : FittingStep(s) /\ Counted BY NextFits
<1>2. PICK r, w : Fitting(s, r, w) BY <1>1 DEF FittingStep
<1> QED BY <1>1, <1>2 DEF Fitting, Transact, Counted

\* The inductive invariant of the courseware at every level of the store: no floor
\* is above the versions, the list of courses names courses, and every list of
\* students that was ever put for a course fits into it.
THEOREM CourseInvariant == ASSUME CoursewareStore PROVE Spec => []CourseInv
<1>1. Init => CourseInv BY CourseInvInit
<1>2. CourseInv /\ [Next]_vars => CourseInv' BY CourseInvStep
<1> QED BY <1>1, <1>2, PTL DEF Spec

\* The types of the courseware's state hold: whatever stale lists the operations
\* read, what they put back is a list of ids or a record of details.
THEOREM CoursewareTypeOK == ASSUME CoursewareStore PROVE Spec => []TypeOK
<1>1. CourseInv => TypeOK BY DEF CourseInv, CountOK, StoreSound, TypeOK
<1> QED BY <1>1, CourseInvariant, PTL

\* At every level no list of students that is ever shown for a course exceeds the
\* course's capacity, whatever operations the clients interleave
\* (courseware.h:304-316).
THEOREM ListsFitCapacity == ASSUME CoursewareStore PROVE Spec => []ShownWithinCapacity
<1>1. CourseInv => ShownWithinCapacity BY DEF CourseInv
<1> QED BY <1>1, CourseInvariant, PTL
-----------------------------------------------------------------------------
(* On a linearizable store *)

LatestOpen(c) == Present(Course(c)) /\ versions[Course(c)][Len(versions[Course(c)])].flag = "open"
Offered(c) == Holds(LatestList(CourseList), c)
Seated(c) == {x \in Students : Holds(LatestList(EnrollmentsIn(c)), x)}

\* The records of a course agree as long as it is offered; a course that is not
\* offered is closed, so that nobody can enroll in it, and its list is empty.
CoursesAgree ==
  \A c \in Courses :
    /\ Cardinality(ToldEnrolled(c)) <= Capacity[c]
    /\ Offered(c) => ToldEnrolled(c) = Seated(c)
    /\ ~ Offered(c) => LatestList(EnrollmentsIn(c)) = <<>> /\ ~ LatestOpen(c)

LEMMA HoldsAppend ==
  ASSUME NEW S, NEW q \in Seq(S), NEW x \in S
  PROVE  \A y : Holds(Append(q, x), y) <=> y = x \/ Holds(q, y)
<1>1. /\ Len(q) \in Nat /\ DOMAIN q = 1 .. Len(q)
      /\ DOMAIN Append(q, x) = 1 .. Len(q) + 1
      /\ \A i \in 1 .. Len(q) : Append(q, x)[i] = q[i]
      /\ Append(q, x)[Len(q) + 1] = x
  OBVIOUS
<1>2. \A i \in 1 .. Len(q) + 1 : i \in 1 .. Len(q) \/ i = Len(q) + 1 BY <1>1
<1>3. \A i \in 1 .. Len(q) : i \in 1 .. Len(q) + 1 BY <1>1
<1>4. Len(q) + 1 \in 1 .. Len(q) + 1 BY <1>1
<1> QED BY <1>1, <1>2, <1>3, <1>4 DEF Holds

\* A list holds no more students than it is long.
LEMMA HoldsAtMostLen ==
  ASSUME NEW S, NEW q \in Seq(S), NEW T
  PROVE  LET held == {x \in T : Holds(q, x)}
         IN IsFiniteSet(held) /\ Cardinality(held) <= Len(q)
<1> DEFINE held == {x \in T : Holds(q, x)}
           f == [x \in held |-> CHOOSE i \in DOMAIN q : q[i] = x]
<1>1. Len(q) \in Nat /\ DOMAIN q = 1 .. Len(q) OBVIOUS
<1>2. \A x \in held : \E i \in DOMAIN q : q[i] = x BY DEF Holds
<1>3. \A x \in held : f[x] \in 1 .. Len(q) /\ q[f[x]] = x BY <1>1, <1>2
<1>4. f \in [held -> 1 .. Len(q)] BY <1>3
<1> HIDE DEF f, held
<1>5. f \in Injection(held, 1 .. Len(q)) BY <1>3, <1>4 DEF Injection, IsInjective
<1>6. IsFiniteSet(1 .. Len(q)) /\ Cardinality(1 .. Len(q)) = Len(q) BY <1>1, FS_Interval
<1>7. IsFiniteSet(held) /\ Cardinality(held) <= Len(q) BY <1>5, <1>6, FS_Injection
<1> QED BY <1>7 DEF held

LEMMA LatestTyped ==
  ASSUME CoursewareStore, CourseInv, NEW k \in Keys
  PROVE  LatestList(k) \in Seq(Ids)
<1>1. CASE Present(k)
  <2>1. Len(versions[k]) \in DOMAIN versions[k] BY <1>1, VersionsTyped DEF CourseInv, StoreSound
  <2>2. versions[k][Len(versions[k])] \in CoursewareValues
    BY <2>1, VersionsTyped DEF CourseInv, StoreSound, CoursewareStore
  <2> QED BY <1>1, <2>2, ValuesTyped DEF LatestList
<1>2. CASE ~ Present(k) BY <1>2 DEF LatestList
<1> QED BY <1>1, <1>2

\* A read of all that is present is a read of the latest versions.
LEMMA LatestRead ==
  ASSUME CourseInv, level = "linear", NEW s \in Sessions, NEW r, Reads(s, r),
         NEW k \in Keys, k \in DOMAIN r <=> Present(k)
  PROVE  /\ ListRead(k, r) = LatestList(k)
         /\ k \in DOMAIN r => FlagRead(k, r) = versions[k][Len(versions[k])].flag
<1>1. k \in DOMAIN r => r[k] = Len(versions[k]) BY VisibleAboveFloor DEF CourseInv, Reads
<1> QED BY <1>1 DEF ListRead, LatestList, FlagRead

\* What is written is the latest afterwards.
LEMMA LatestAfter ==
  ASSUME CoursewareStore, CourseInv, NEW s \in Sessions, NEW r, NEW w, Fitting(s, r, w),
         NEW k \in Keys
  PROVE  /\ k \in DOMAIN w => /\ LatestList(k)' = w[k].list /\ Present(k)'
                              /\ versions'[k][Len(versions'[k])] = w[k]
         /\ k \notin DOMAIN w => LatestList(k)' = LatestList(k) /\ versions'[k] = versions[k]
<1>1. \A m \in DOMAIN w : w[m] \in Values BY DEF Fitting, Writable, CoursewareStore
<1>2. StoreSound BY DEF CourseInv
<1>3. DOMAIN w \subseteq Keys /\ DOMAIN r \subseteq Keys BY DEF Fitting, Writable
<1>4. Transact(s, r, w) BY DEF Fitting
<1>5. /\ StoreSound'
      /\ \A m \in DOMAIN w : versions'[m] = Append(versions[m], w[m])
      /\ \A m \in Keys \ DOMAIN w : versions'[m] = versions[m]
  BY <1>1, <1>2, <1>3, <1>4, TransactEffect
<1>6. CASE k \in DOMAIN w
  <2>1. versions[k] \in Seq(Values) /\ w[k] \in Values
    BY <1>1, <1>2, <1>6, VersionsTyped DEF StoreSound
  <2>2. versions'[k] = Append(versions[k], w[k]) BY <1>5, <1>6
  <2>3. versions'[k] # <<>> /\ versions'[k][Len(versions'[k])] = w[k] BY <2>1, <2>2
  <2> QED BY <1>6, <2>3 DEF LatestList, Present
<1>7. CASE k \notin DOMAIN w BY <1>5, <1>7 DEF LatestList, Present
<1> QED BY <1>6, <1>7

\* What is left alone in all the lists, and opens no course, keeps the agreement.
LEMMA AgreeKept ==
  ASSUME CoursesAgree,
         LatestList(CourseList)' = LatestList(CourseList),
         \A c \in Courses : LatestList(EnrollmentsIn(c))' = LatestList(EnrollmentsIn(c)),
         \A x \in Students : LatestList(EnrollmentsOf(x))' = LatestList(EnrollmentsOf(x)),
         \A c \in Courses : LatestOpen(c)' => LatestOpen(c)
  PROVE  CoursesAgree'
<1>1. ASSUME NEW c \in Courses
      PROVE  /\ ToldEnrolled(c)' = ToldEnrolled(c) /\ Seated(c)' = Seated(c)
             /\ Offered(c)' = Offered(c)
  BY DEF ToldEnrolled, Seated, Offered
<1> QED BY <1>1 DEF CoursesAgree
-----------------------------------------------------------------------------
(* The steps of the programs on a linearizable store *)

LEMMA NothingAgrees ==
  ASSUME CoursewareStore, CourseInv, CoursesAgree, NEW s \in Sessions, NEW r, Reads(s, r),
         Transact(s, r, NoWrites)
  PROVE  CoursesAgree'
<1>1. Fitting(s, r, NoWrites) BY WritableNothing DEF Fitting, Reads
<1>2. DOMAIN NoWrites = {} BY DEF NoWrites
<1>3. \A k \in Keys : LatestList(k)' = LatestList(k) /\ versions'[k] = versions[k]
  BY <1>1, <1>2, LatestAfter
<1>4. \A c \in Courses : LatestOpen(c)' => LatestOpen(c)
  BY <1>3, KeysTyped DEF LatestOpen, Present
<1> QED BY <1>3, <1>4, KeysTyped, AgreeKept

\* Closing a course, or failing to find it, leaves all lists alone.
LEMMA ClosingAgrees ==
  ASSUME CoursewareStore, CourseInv, CoursesAgree, NEW s \in Sessions, NEW r, Reads(s, r),
         NEW c \in Courses, NEW w, Transact(s, r, w),
         w = NoWrites \/ w = At(Course(c), Details("close"))
  PROVE  CoursesAgree'
<1>1. CASE w = NoWrites BY <1>1, NothingAgrees
<1>2. CASE w = At(Course(c), Details("close"))
  <2>1. DOMAIN w = {Course(c)} /\ w[Course(c)] = Details("close") BY <1>2, AtIsOne
  <2>2. Writable(w) BY <1>2, KeysTyped, ValuesTyped, FitsElsewhere, WritableAt
  <2>3. Fitting(s, r, w) BY <2>2 DEF Fitting, Reads
  <2>4. \A k \in Keys \ {Course(c)} : LatestList(k)' = LatestList(k) /\ versions'[k] = versions[k]
    BY <2>1, <2>3, LatestAfter
  <2>5. versions'[Course(c)][Len(versions'[Course(c)])] = Details("close")
    BY <2>1, <2>3, LatestAfter, KeysTyped
  <2>6. ~ LatestOpen(c)' BY <2>5, ValuesTyped DEF LatestOpen
  <2>7. \A d \in Courses \ {c} : LatestOpen(d)' => LatestOpen(d)
    BY <2>4, KeysTyped, KeysDiffer DEF LatestOpen, Present
  <2>8. \A d \in Courses : LatestOpen(d)' => LatestOpen(d) BY <2>6, <2>7
  <2>9. LatestList(CourseList)' = LatestList(CourseList) BY <2>4, KeysTyped, KeysDiffer
  <2>10. \A d \in Courses : LatestList(EnrollmentsIn(d))' = LatestList(EnrollmentsIn(d))
    BY <2>4, KeysTyped, KeysDiffer
  <2>11. \A x \in Students : LatestList(EnrollmentsOf(x))' = LatestList(EnrollmentsOf(x))
    BY <2>4, KeysTyped, KeysDiffer
  <2> QED BY <2>8, <2>9, <2>10, <2>11, AgreeKept
<1> QED BY <1>1, <1>2

\* Removing a course closes it and empties its list.
LEMMA RemovingAgrees ==
  ASSUME CoursewareStore, CourseInv, CoursesAgree, level = "linear",
         NEW s \in Sessions, NEW c \in Courses, DeleteCourse(s, c)
  PROVE  CoursesAgree'
<1> DEFINE list(r) == At(CourseList, List(Without(ListRead(CourseList, r), c)))
           students == At(EnrollmentsIn(c), List(<<>>))
<1>1. PICK r \in ReadChoices(s, {Course(c), CourseList}) : Transact(s, r, RemovingWrites(c, r))
  BY DEF DeleteCourse, RemovingWrites, ClosingWrites
<1>2. Reads(s, r) /\ DOMAIN r = {k \in {Course(c), CourseList} : Present(k)}
  BY KeysTyped, ReadsOfChoices
<1>3. CASE ~ Present(CourseList)
  <2>1. RemovingWrites(c, r) = ClosingWrites(c) BY <1>3 DEF RemovingWrites
  <2>2. ClosingWrites(c) = NoWrites \/ ClosingWrites(c) = At(Course(c), Details("close"))
    BY DEF ClosingWrites
  <2> QED BY <1>1, <1>2, <2>1, <2>2, ClosingAgrees
<1>4. CASE Present(CourseList)
  <2> DEFINE w == ClosingWrites(c) ++ (list(r) ++ students)
             kept == Without(LatestList(CourseList), c)
  <2>1. Transact(s, r, w) BY <1>1, <1>4 DEF RemovingWrites
  <2>2. Writable(w)
    <3>1. Writable(RemovingWrites(c, r)) BY <1>2, RemovingFits
    <3> QED BY <1>4, <3>1 DEF RemovingWrites
  <2>3. Fitting(s, r, w) BY <1>2, <2>1, <2>2 DEF Fitting, Reads
  <2>4. ListRead(CourseList, r) = LatestList(CourseList) BY <1>2, <1>4, LatestRead, KeysTyped
  <2>5. /\ DOMAIN ClosingWrites(c) = IF Present(Course(c)) THEN {Course(c)} ELSE {}
        /\ Present(Course(c)) => ClosingWrites(c)[Course(c)] = Details("close")
    <3>1. CASE Present(Course(c))
      <4>1. ClosingWrites(c) = At(Course(c), Details("close")) BY <3>1 DEF ClosingWrites
      <4> QED BY <3>1, <4>1, AtIsOne
    <3>2. CASE ~ Present(Course(c))
      <4>1. ClosingWrites(c) = NoWrites BY <3>2 DEF ClosingWrites
      <4>2. DOMAIN NoWrites = {} BY DEF NoWrites
      <4> QED BY <3>2, <4>1, <4>2
    <3> QED BY <3>1, <3>2
  <2>6. /\ DOMAIN list(r) = {CourseList} /\ list(r)[CourseList] = List(kept)
        /\ DOMAIN students = {EnrollmentsIn(c)} /\ students[EnrollmentsIn(c)] = List(<<>>)
    BY <2>4, AtIsOne
  <2> HIDE DEF list, students
  <2>7. /\ DOMAIN w = DOMAIN ClosingWrites(c) \cup {CourseList, EnrollmentsIn(c)}
        /\ Present(Course(c)) => w[Course(c)] = Details("close")
        /\ w[CourseList] = List(kept) /\ w[EnrollmentsIn(c)] = List(<<>>)
    BY <2>5, <2>6, KeysDiffer DEF ++
  <2> HIDE DEF w
  <2>8. \A k \in Keys : k \notin {Course(c), CourseList, EnrollmentsIn(c)} =>
          LatestList(k)' = LatestList(k) /\ versions'[k] = versions[k]
    BY <2>3, <2>5, <2>7, LatestAfter
  <2>9. LatestList(CourseList)' = kept
    BY <2>3, <2>7, LatestAfter, KeysTyped DEF List
  <2>10. LatestList(EnrollmentsIn(c))' = <<>>
    BY <2>3, <2>7, LatestAfter, KeysTyped DEF List
  <2>11. ~ LatestOpen(c)'
    <3>1. CASE Present(Course(c))
      <4>1. versions'[Course(c)][Len(versions'[Course(c)])] = Details("close")
        BY <2>3, <2>5, <2>7, <3>1, LatestAfter, KeysTyped
      <4> QED BY <4>1, ValuesTyped DEF LatestOpen
    <3>2. CASE ~ Present(Course(c))
      <4>1. Course(c) \notin DOMAIN w BY <2>5, <2>7, <3>2, KeysDiffer
      <4>2. versions'[Course(c)] = versions[Course(c)] BY <2>3, <4>1, LatestAfter, KeysTyped
      <4> QED BY <3>2, <4>2 DEF LatestOpen, Present
    <3> QED BY <3>1, <3>2
  <2>12. \A d : Offered(d)' <=> d # c /\ Offered(d)
    <3>1. LatestList(CourseList) \in Seq(Ids) BY LatestTyped, KeysTyped
    <3>2. \A d : Holds(kept, d) <=> d # c /\ Holds(LatestList(CourseList), d)
      BY <3>1, WithoutHolds
    <3> QED BY <2>9, <3>2 DEF Offered
  <2>13. \A x \in Students : LatestList(EnrollmentsOf(x))' = LatestList(EnrollmentsOf(x))
    BY <2>8, KeysTyped, KeysDiffer
  <2>14. \A d \in Courses : ToldEnrolled(d)' = ToldEnrolled(d) BY <2>13 DEF ToldEnrolled
  <2>15. \A d \in Courses \ {c} :
           /\ LatestList(EnrollmentsIn(d))' = LatestList(EnrollmentsIn(d))
           /\ LatestOpen(d)' <=> LatestOpen(d)
    BY <2>8, KeysTyped, KeysDiffer DEF LatestOpen, Present
  <2>16. \A d \in Courses \ {c} : Seated(d)' = Seated(d) BY <2>15 DEF Seated
  <2> QED BY <2>10, <2>11, <2>12, <2>14, <2>15, <2>16 DEF CoursesAgree
<1> QED BY <1>3, <1>4

LEMMA OneMore ==
  ASSUME NEW S, IsFiniteSet(S), NEW x
  PROVE  /\ Cardinality(S) \in Nat /\ Cardinality(S \cup {x}) \in Nat
         /\ Cardinality(S \cup {x}) <= Cardinality(S) + 1
<1>1. Cardinality(S) \in Nat BY FS_CardinalityType
<1>2. IsFiniteSet(S \cup {x}) BY FS_AddElement
<1>3. Cardinality(S \cup {x}) \in Nat BY <1>2, FS_CardinalityType
<1>4. Cardinality(S \cup {x}) = IF x \in S THEN Cardinality(S) ELSE Cardinality(S) + 1
  BY FS_AddElement
<1> QED BY <1>1, <1>3, <1>4

\* A student who takes a seat is added to both lists, or to neither.
LEMMA SeatAgrees ==
  ASSUME CoursewareStore, CourseInv, CoursesAgree, level = "linear",
         NEW s \in Sessions, NEW x \in Students, NEW c \in Courses, LatestOpen(c),
         NEW q, NEW p, NEW all, TakesSeat(s, x, c, q, p, all)
  PROVE  CoursesAgree'
<1> DEFINE in == LatestList(EnrollmentsIn(c))
           of == LatestList(EnrollmentsOf(x))
           w == SeatWrites(x, c, q, p)
<1>1. in \in Seq(Ids) /\ of \in Seq(Ids) /\ x \in Ids /\ c \in Ids
  BY LatestTyped, KeysTyped DEF Ids
<1>2. /\ Reads(s, q) /\ DOMAIN q = {k \in {EnrollmentsIn(c)} : Present(k)}
      /\ Reads(s, p) /\ DOMAIN p = {k \in {EnrollmentsOf(x)} : Present(k)}
      /\ Reads(s, all) /\ Transact(s, all, w)
      /\ Len(ListRead(EnrollmentsIn(c), q)) < Capacity[c]
  BY KeysTyped, ReadsOfChoices DEF TakesSeat
<1>3. ListRead(EnrollmentsIn(c), q) = in /\ ListRead(EnrollmentsOf(x), p) = of
  BY <1>2, LatestRead, KeysTyped
<1>4. Fitting(s, all, w)
  <2>1. Writable(w) BY SeatFits DEF CourseInv
  <2> QED BY <1>2, <2>1 DEF Fitting, Reads
<1>5. /\ DOMAIN w = {EnrollmentsIn(c), EnrollmentsOf(x)}
      /\ w[EnrollmentsIn(c)] = List(Append(in, x)) /\ w[EnrollmentsOf(x)] = List(Append(of, c))
  <2> DEFINE f == At(EnrollmentsIn(c), List(Append(in, x)))
             g == At(EnrollmentsOf(x), List(Append(of, c)))
  <2>1. w = f ++ g BY <1>3 DEF SeatWrites
  <2>2. /\ DOMAIN f = {EnrollmentsIn(c)} /\ f[EnrollmentsIn(c)] = List(Append(in, x))
        /\ DOMAIN g = {EnrollmentsOf(x)} /\ g[EnrollmentsOf(x)] = List(Append(of, c))
    BY AtIsOne
  <2> HIDE DEF f, g, w
  <2> QED BY <2>1, <2>2, KeysDiffer DEF ++
<1> HIDE DEF w
<1>6. \A k \in Keys \ {EnrollmentsIn(c), EnrollmentsOf(x)} :
        LatestList(k)' = LatestList(k) /\ versions'[k] = versions[k]
  BY <1>4, <1>5, LatestAfter
<1>7. /\ LatestList(EnrollmentsIn(c))' = Append(in, x)
      /\ LatestList(EnrollmentsOf(x))' = Append(of, c)
  BY <1>4, <1>5, LatestAfter, KeysTyped DEF List
<1>8. /\ \A y : Holds(Append(in, x), y) <=> y = x \/ Holds(in, y)
      /\ \A d : Holds(Append(of, c), d) <=> d = c \/ Holds(of, d)
  BY <1>1, HoldsAppend
<1> HIDE DEF in, of
<1>9. /\ \A d \in Courses : Offered(d)' <=> Offered(d)
      /\ \A d \in Courses : LatestOpen(d)' <=> LatestOpen(d)
      /\ \A d \in Courses \ {c} : LatestList(EnrollmentsIn(d))' = LatestList(EnrollmentsIn(d))
      /\ \A y \in Students \ {x} : LatestList(EnrollmentsOf(y))' = LatestList(EnrollmentsOf(y))
  <2>1. LatestList(CourseList)' = LatestList(CourseList) BY <1>6, KeysTyped, KeysDiffer
  <2>2. \A d \in Courses : versions'[Course(d)] = versions[Course(d)]
    BY <1>6, KeysTyped, KeysDiffer
  <2>3. \A d \in Courses \ {c} : LatestList(EnrollmentsIn(d))' = LatestList(EnrollmentsIn(d))
    BY <1>6, KeysTyped, KeysDiffer
  <2>4. \A y \in Students \ {x} : LatestList(EnrollmentsOf(y))' = LatestList(EnrollmentsOf(y))
    BY <1>6, KeysTyped, KeysDiffer
  <2> QED BY <2>1, <2>2, <2>3, <2>4 DEF Offered, LatestOpen, Present
<1>10. ToldEnrolled(c)' = ToldEnrolled(c) \cup {x} /\ Seated(c)' = Seated(c) \cup {x}
  <2>1. \A y \in Students : Holds(LatestList(EnrollmentsOf(y)), c)'
                              <=> y = x \/ Holds(LatestList(EnrollmentsOf(y)), c)
    BY <1>7, <1>8, <1>9
  <2>2. \A y \in Students : Holds(LatestList(EnrollmentsIn(c)), y)'
                              <=> y = x \/ Holds(LatestList(EnrollmentsIn(c)), y)
    BY <1>7, <1>8 DEF in
  <2> QED BY <2>1, <2>2 DEF ToldEnrolled, Seated
<1>11. \A d \in Courses \ {c} : ToldEnrolled(d)' = ToldEnrolled(d) /\ Seated(d)' = Seated(d)
  <2> SUFFICES ASSUME NEW d \in Courses \ {c}
               PROVE  ToldEnrolled(d)' = ToldEnrolled(d) /\ Seated(d)' = Seated(d)
    OBVIOUS
  <2>1. \A y \in Students : Holds(LatestList(EnrollmentsOf(y)), d)'
                              <=> Holds(LatestList(EnrollmentsOf(y)), d)
    BY <1>7, <1>8, <1>9 DEF of
  <2> QED BY <1>9, <2>1 DEF ToldEnrolled, Seated
<1>12. Offered(c) BY DEF CoursesAgree
<1>13. Cardinality(ToldEnrolled(c)') <= Capacity[c]
  <2>1. ToldEnrolled(c) = Seated(c) BY <1>12 DEF CoursesAgree
  <2>2. IsFiniteSet(Seated(c)) /\ Cardinality(Seated(c)) <= Len(in)
    BY <1>1, HoldsAtMostLen DEF Seated, in
  <2>3. Len(in) < Capacity[c] /\ Len(in) \in Nat /\ Capacity[c] \in Nat
    BY <1>1, <1>2, <1>3, CoursewareAssumption
  <2>4. /\ Cardinality(Seated(c)) \in Nat /\ Cardinality(Seated(c) \cup {x}) \in Nat
        /\ Cardinality(Seated(c) \cup {x}) <= Cardinality(Seated(c)) + 1
    BY <2>2, OneMore
  <2>5. ToldEnrolled(c)' = Seated(c) \cup {x} BY <1>10, <2>1
  <2> QED BY <2>2, <2>3, <2>4, <2>5
<1>14. \A d \in Courses : Capacity[d] \in Nat BY CoursewareAssumption
<1> QED BY <1>9, <1>10, <1>11, <1>12, <1>13 DEF CoursesAgree
-----------------------------------------------------------------------------
(* The invariant on a linearizable store *)

LEMMA EnrollAgrees ==
  ASSUME CoursewareStore, CourseInv, CoursesAgree, level = "linear",
         NEW s \in Sessions, NEW x \in Students, NEW c \in Courses, Enroll(s, x, c)
  PROVE  CoursesAgree'
<1>1. StoreSound BY DEF CourseInv
<1>2. PICK r : Reads(s, r) /\ (Transact(s, r, NoWrites) \/ Eligible(s, x, c, r)) BY EnrollCases
<1>3. CASE Transact(s, r, NoWrites) BY <1>2, <1>3, NothingAgrees
<1>4. CASE Eligible(s, x, c, r)
  <2>1. LatestOpen(c)
    <3>1. Course(c) \in DOMAIN r /\ FlagRead(Course(c), r) = "open" BY <1>4 DEF Eligible
    <3>2. r[Course(c)] = Len(versions[Course(c)]) /\ r[Course(c)] \in DOMAIN versions[Course(c)]
      BY <1>1, <1>2, <3>1, VisibleAboveFloor, KeysTyped DEF Reads
    <3>3. Present(Course(c)) BY <1>1, <3>2, VersionsTyped, KeysTyped DEF StoreSound
    <3> QED BY <3>1, <3>2, <3>3 DEF LatestOpen, FlagRead
  <2>2. ASSUME NEW all, Reads(s, all), Transact(s, all, At(Course(c), Details("close")))
        PROVE  CoursesAgree'
    BY <2>2, ClosingAgrees
  <2>3. ASSUME NEW q, NEW p, NEW all, TakesSeat(s, x, c, q, p, all)
        PROVE  CoursesAgree'
    BY <2>1, <2>3, SeatAgrees
  <2>4. \/ \E all : Reads(s, all) /\ Transact(s, all, At(Course(c), Details("close")))
        \/ \E q, p, all : TakesSeat(s, x, c, q, p, all)
    BY <1>1, <1>2, <1>4, EligibleCases
  <2> QED BY <2>2, <2>3, <2>4
<1> QED BY <1>2, <1>3, <1>4

LEMMA ListingAgrees ==
  ASSUME CoursewareStore, CourseInv, CoursesAgree, NEW s \in Sessions, NEW op, NEW k \in Keys,
         GetList(op, s, k)
  PROVE  CoursesAgree'
<1>1. PICK r \in ReadChoices(s, {k}) : Transact(s, r, NoWrites) BY DEF GetList
<1>2. Reads(s, r) BY ReadsOfChoices
<1> QED BY <1>1, <1>2, NothingAgrees

LEMMA ReadingAgrees ==
  ASSUME CoursewareStore, CourseInv, CoursesAgree, NEW s \in Sessions, GetEnrollments(s)
  PROVE  CoursesAgree'
<1> DEFINE listed(r) == ListRead(CourseList, r)
           keys(r) == {EnrollmentsIn(listed(r)[i]) : i \in DOMAIN listed(r)}
<1>1. PICK r \in ReadChoices(s, {CourseList}) :
        \E q \in ReadChoices(s, keys(r)) : Transact(s, r ++ q, NoWrites)
  BY DEF GetEnrollments
<1>2. PICK q \in ReadChoices(s, keys(r)) : Transact(s, r ++ q, NoWrites) BY <1>1
<1>3. Reads(s, r) BY KeysTyped, ReadsOfChoices
<1>4. keys(r) \subseteq Keys BY <1>3, EnrollmentKeysTyped
<1>5. Reads(s, q) BY <1>4, ReadsOfChoices
<1>6. Reads(s, r ++ q) BY <1>3, <1>5, ReadsJoin
<1> QED BY <1>2, <1>6, NothingAgrees

LEMMA CloseCourseAgrees ==
  ASSUME CoursewareStore, CourseInv, CoursesAgree, NEW s \in Sessions, NEW c \in Courses,
         CloseCourse(s, c)
  PROVE  CoursesAgree'
<1> DEFINE w == IF Present(Course(c)) THEN At(Course(c), Details("close")) ELSE NoWrites
<1>1. PICK r \in ReadChoices(s, {Course(c)}) : Transact(s, r, w) BY DEF CloseCourse, SetFlag
<1>2. Reads(s, r) BY KeysTyped, ReadsOfChoices
<1>3. w = NoWrites \/ w = At(Course(c), Details("close")) OBVIOUS
<1> HIDE DEF w
<1> QED BY <1>1, <1>2, <1>3, ClosingAgrees

LinearCourseInv == CourseInv /\ (OnlyProgramOps => CoursesAgree)

LEMMA ProgramStepAgrees ==
  ASSUME CoursewareStore, CourseInv, CoursesAgree, OnlyProgramOps, Next
  PROVE  CoursesAgree'
<1>1. level = "linear" BY DEF OnlyProgramOps
<1>2. \A op : Performs(op) => op \in ProgramOps BY DEF Performs, OnlyProgramOps
<1>3. /\ "add_student" \notin ProgramOps /\ "delete_student" \notin ProgramOps
      /\ "add_course" \notin ProgramOps /\ "register_student" \notin ProgramOps
      /\ "deregister_student" \notin ProgramOps /\ "open_course" \notin ProgramOps
      /\ "get_enrolled_courses" \notin ProgramOps
  BY DEF ProgramOps
<1>4. ASSUME NEW s \in Sessions, NEW x \in Students
      PROVE  /\ ~ AddStudent(s, x) /\ ~ DeleteStudent(s, x) /\ ~ RegisterStudent(s, x)
             /\ ~ DeregisterStudent(s, x) /\ ~ GetEnrolledCourses(s, x)
  BY <1>2, <1>3 DEF AddStudent, DeleteStudent, RegisterStudent, DeregisterStudent, SetFlag,
                    GetEnrolledCourses, GetList
<1>5. ASSUME NEW s \in Sessions, NEW c \in Courses
      PROVE  ~ AddCourse(s, c) /\ ~ OpenCourse(s, c)
  BY <1>2, <1>3 DEF AddCourse, OpenCourse, SetFlag
<1>6. ASSUME NEW s \in Sessions, NEW x \in Students, NEW c \in Courses, Enroll(s, x, c)
      PROVE  CoursesAgree'
  BY <1>1, <1>6, EnrollAgrees
<1>7. ASSUME NEW s \in Sessions, NEW c \in Courses, DeleteCourse(s, c) PROVE CoursesAgree'
  BY <1>1, <1>7, RemovingAgrees
<1>8. ASSUME NEW s \in Sessions, NEW c \in Courses, CloseCourse(s, c) PROVE CoursesAgree'
  BY <1>8, CloseCourseAgrees
<1>9. ASSUME NEW s \in Sessions, NEW c \in Courses, GetEnrolledStudents(s, c)
      PROVE  CoursesAgree'
  <2>1. GetList("get_enrolled_students", s, EnrollmentsIn(c)) /\ EnrollmentsIn(c) \in Keys
    BY <1>9, KeysTyped DEF GetEnrolledStudents
  <2> QED BY <2>1, ListingAgrees
<1>10. ASSUME NEW s \in Sessions, GetEnrollments(s) PROVE CoursesAgree'
  BY <1>10, ReadingAgrees
<1> QED BY <1>4, <1>5, <1>6, <1>7, <1>8, <1>9, <1>10 DEF Next

LEMMA CoursesAgreeInit ==
  ASSUME CoursewareStore, Init
  PROVE  CoursesAgree
<1> DEFINE m == client.courses
<1>1. /\ m \in Nat /\ m <= NumCourses /\ versions[CourseList] = Counting(m)
      /\ \A x \in Students :
           versions[EnrollmentsOf(x)] = <<>> \/ versions[EnrollmentsOf(x)] = <<List(<<>>)>>
      /\ \A c \in Courses :
           /\ versions[EnrollmentsIn(c)] = <<>> \/ versions[EnrollmentsIn(c)] = <<List(<<>>)>>
           /\ c > m => versions[Course(c)] = <<>>
  <2>1. \A c \in Courses : c \in Nat BY DEF Courses
  <2> QED BY <2>1, PopulatedRecords
<1>2. NumCourses \in Nat BY CoursewareAssumption
<1> HIDE DEF m
<1>3. \A k : versions[k] = <<>> \/ versions[k] = <<List(<<>>)>> => LatestList(k) = <<>>
  BY DEF LatestList, Present, List
<1>4. \A c \in Courses : ToldEnrolled(c) = {} /\ Seated(c) = {}
  BY <1>1, <1>3 DEF ToldEnrolled, Seated, Holds
<1>5. \A c \in Courses : c <= m => Offered(c)
  <2> SUFFICES ASSUME NEW c \in Courses, c <= m PROVE Offered(c)
    OBVIOUS
  <2>1. c \in 1 .. m /\ m \in 1 .. m BY <1>1 DEF Courses
  <2>2. /\ Counting(m) \in Seq([list : Seq(1 .. NumCourses), flag : {"list"}])
        /\ DOMAIN Counting(m) = 1 .. m /\ Counting(m)[m].list = [j \in 1 .. m |-> j]
    BY <1>1, <1>2, <2>1, CountingTyped
  <2>3. versions[CourseList] # <<>> /\ Len(versions[CourseList]) = m BY <1>1, <2>1, <2>2
  <2>4. LatestList(CourseList) = [j \in 1 .. m |-> j]
    BY <1>1, <2>2, <2>3 DEF LatestList, Present
  <2> QED BY <2>1, <2>4 DEF Offered, Holds
<1>6. \A c \in Courses : ~ (c <= m) => ~ LatestOpen(c)
  BY <1>1 DEF LatestOpen, Present, Courses
<1>7. \A c \in Courses : Capacity[c] \in Nat BY CoursewareAssumption
<1>8. \A c \in Courses : Cardinality(ToldEnrolled(c)) = 0 BY <1>4, FS_EmptySet
<1>9. \A c \in Courses : Cardinality(ToldEnrolled(c)) <= Capacity[c] BY <1>7, <1>8
<1>10. \A c \in Courses : LatestList(EnrollmentsIn(c)) = <<>> BY <1>1, <1>3
<1> QED BY <1>4, <1>5, <1>6, <1>9, <1>10 DEF CoursesAgree

\* On a linearizable store, while the clients perform the operations of
\* run_courseware, the records of every course agree and no course that is gone can
\* be enrolled in.
THEOREM LinearCourseInvariant == ASSUME CoursewareStore PROVE Spec => []LinearCourseInv
<1>1. Init => LinearCourseInv BY CourseInvInit, CoursesAgreeInit DEF LinearCourseInv
<1>2. LinearCourseInv /\ [Next]_vars => LinearCourseInv'
  <2> SUFFICES ASSUME LinearCourseInv, [Next]_vars PROVE LinearCourseInv'
    OBVIOUS
  <2>1. CourseInv /\ CourseInv' BY CourseInvStep DEF LinearCourseInv
  <2>2. ASSUME OnlyProgramOps' PROVE OnlyProgramOps
    <3>1. CASE Next
      <4>1. level' = level /\ client' = client BY <2>1, <3>1, LevelAndClientKept
      <4> QED BY <2>2, <4>1 DEF OnlyProgramOps
    <3>2. CASE UNCHANGED vars
      BY <2>2, <3>2 DEF OnlyProgramOps, vars, storeVars, appVars
    <3> QED BY <3>1, <3>2
  <2>3. ASSUME OnlyProgramOps' PROVE CoursesAgree'
    <3>1. OnlyProgramOps /\ CoursesAgree BY <2>2, <2>3 DEF LinearCourseInv
    <3>2. CASE Next BY <2>1, <3>1, <3>2, ProgramStepAgrees
    <3>3. CASE UNCHANGED vars
      BY <3>1, <3>3 DEF vars, storeVars, CoursesAgree, ToldEnrolled, Offered, Seated, LatestOpen,
                        LatestList, Present
    <3> QED BY <3>2, <3>3
  <2> QED BY <2>1, <2>3 DEF LinearCourseInv
<1> QED BY <1>1, <1>2, PTL DEF Spec

\* On a linearizable store no course has more students who are told that they are
\* enrolled than it has seats, for any number of clients (courseware.h:278-333).
THEOREM SeatsAreRespected == ASSUME CoursewareStore PROVE Spec => []SeatsRespected
<1>1. LinearCourseInv => SeatsRespected BY DEF LinearCourseInv, CoursesAgree, SeatsRespected
<1> QED BY <1>1, LinearCourseInvariant, PTL

\* On a linearizable store a course's list of students and the students' lists of
\* courses agree as long as the course exists (courseware.h:313-332).
THEOREM ListsDoAgree == ASSUME CoursewareStore PROVE Spec => []ListsAgree
<1>1. LinearCourseInv => ListsAgree
  BY DEF LinearCourseInv, CoursesAgree, ListsAgree, Offered, Seated
<1> QED BY <1>1, LinearCourseInvariant, PTL

\* On a linearizable store a course that has been removed lists no student, however
\* enroll and delete_course interleave (courseware.h:201-228).
THEOREM RemovedCoursesStayEmpty == ASSUME CoursewareStore PROVE Spec => []RemovedCourseEmpty
<1>1. LinearCourseInv => RemovedCourseEmpty
  BY DEF LinearCourseInv, CoursesAgree, RemovedCourseEmpty, Offered
<1> QED BY <1>1, LinearCourseInvariant, PTL
-----------------------------------------------------------------------------
(* The programs of run_courseware *)

\* What the threads have still to do: calls for students and courses that exist.
Calls == {Call(op, x, c) : op \in OpNames, x \in Students, c \in Courses}
TodoOK == todo \in [Threads -> Seq(Calls)]

LEMMA CallsTyped ==
  /\ \A o \in Calls : o.student \in Students /\ o.course \in Courses
  /\ \A op \in OpNames, x \in Students, c \in Courses : Call(op, x, c) \in Calls
  BY DEF Calls, Call

LEMMA RandomTyped ==
  ASSUME NEW choice \in 0 .. 2, NEW j \in Nat \ {0}
  PROVE  RandomCall(choice, j) \in Calls
<1> DEFINE idx == ((j - 1) % NumCourses) + 1
<1>1. /\ NumCourses \in Nat /\ NumStudents \in Nat /\ NumCourses > 0 /\ NumCourses <= NumStudents
      /\ 1 \in Students /\ 1 \in Courses
  BY CoursewareAssumption, RunAssumption DEF Students, Courses
<1>2. j - 1 \in Nat OBVIOUS
<1>3. (j - 1) % NumCourses \in 0 .. NumCourses - 1 BY <1>1, <1>2
<1>4. idx \in Courses /\ idx \in Students BY <1>1, <1>3 DEF Courses, Students
<1>5. /\ "enroll" \in OpNames /\ "get_enrollments" \in OpNames /\ "delete_course" \in OpNames
  BY DEF OpNames, ProgramOps
<1> HIDE DEF idx
<1>6. /\ Call("enroll", idx, idx) \in Calls /\ Call("get_enrollments", 1, 1) \in Calls
      /\ Call("delete_course", 1, idx) \in Calls
  BY <1>1, <1>4, <1>5, CallsTyped
<1>7. choice = 0 \/ choice = 1 \/ choice = 2 OBVIOUS
<1> QED BY <1>6, <1>7 DEF RandomCall, EnrollCall, EnrollmentsCall, DK, cs101, idx

LEMMA ProgramsTyped ==
  ASSUME RunInit
  PROVE  TodoOK
<1>1. client.run \in {"any", "fixed", "random", "dfs"}
  BY CoursewareAssumption DEF RunInit, Init, ClientKinds
<1>2. /\ 1 \in Students /\ 2 \in Students /\ 1 \in Courses /\ 2 \in Courses
  BY CoursewareAssumption, RunAssumption DEF Students, Courses
<1>3. /\ "enroll" \in OpNames /\ "get_enrollments" \in OpNames /\ "delete_course" \in OpNames
      /\ "get_enrolled_students" \in OpNames
  BY DEF OpNames, ProgramOps
<1>4. \A x, c \in {1, 2} :
        /\ Call("enroll", x, c) \in Calls /\ Call("get_enrollments", x, c) \in Calls
        /\ Call("delete_course", x, c) \in Calls /\ Call("get_enrolled_students", x, c) \in Calls
  BY <1>2, <1>3, CallsTyped
<1>5. CASE client.run = "any"
  <2>1. todo = [t \in Threads |-> <<>>] BY <1>5 DEF RunInit, Programs
  <2>2. <<>> \in Seq(Calls) OBVIOUS
  <2> QED BY <2>1, <2>2 DEF TodoOK
<1>6. CASE client.run = "fixed"
  <2>1. todo = Fixed BY <1>6 DEF RunInit, Programs
  <2>2. \A a, b, c, d \in Calls : <<a, b, c, d>> \in Seq(Calls) OBVIOUS
  <2>3. <<EnrollCall(DK, cs101), EnrollmentsCall, EnrollCall(DK, hs201), EnrollmentsCall>>
          \in Seq(Calls)
    BY <1>4, <2>2 DEF EnrollCall, EnrollmentsCall, DK, cs101, hs201
  <2>4. <<EnrollCall(JV, cs101), EnrollmentsCall, Call("delete_course", DK, hs201),
          Call("get_enrolled_students", DK, hs201)>> \in Seq(Calls)
    BY <1>4, <2>2 DEF EnrollCall, EnrollmentsCall, DK, JV, cs101, hs201
  <2> QED BY <2>1, <2>3, <2>4 DEF TodoOK, Fixed
<1>7. CASE client.run = "dfs"
  <2>1. todo = Dfs BY <1>7 DEF RunInit, Programs
  <2>2. \A a, b \in Calls : <<a, b>> \in Seq(Calls) OBVIOUS
  <2>3. \A t \in Threads :
          <<EnrollCall(IF t = 1 THEN DK ELSE JV, cs101), EnrollmentsCall>> \in Seq(Calls)
    BY <1>4, <2>2 DEF EnrollCall, EnrollmentsCall, DK, JV, cs101
  <2> QED BY <2>1, <2>3 DEF TodoOK, Dfs
<1>8. CASE client.run = "random"
  <2>1. PICK c \in [1 .. NumOps -> 0 .. 2] : todo = Random(c) BY <1>8 DEF RunInit, Programs
  <2>2. NumOps \in Nat BY RunAssumption
  <2>3. \A j \in 1 .. NumOps : RandomCall(c[j], j) \in Calls BY <2>2, RandomTyped
  <2>4. [j \in 1 .. NumOps |-> RandomCall(c[j], j)] \in Seq(Calls) BY <2>2, <2>3
  <2> QED BY <2>1, <2>4 DEF TodoOK, Random
<1> QED BY <1>1, <1>5, <1>6, <1>7, <1>8

LEMMA ProgramStep ==
  ASSUME TodoOK, [RunNext]_runVars
  PROVE  TodoOK' /\ [Next]_vars
<1>1. CASE AnyStep BY <1>1 DEF AnyStep, TodoOK
<1>2. CASE UNCHANGED runVars BY <1>2 DEF runVars, TodoOK
<1>3. ASSUME NEW t \in Threads, Step(t) PROVE TodoOK' /\ Next
  <2> DEFINE o == Head(todo[t])
  <2>1. /\ todo[t] \in Seq(Calls) /\ todo[t] # <<>> /\ todo' = [todo EXCEPT ![t] = Tail(@)]
    BY <1>3 DEF TodoOK, Step
  <2>2. o \in Calls /\ Tail(todo[t]) \in Seq(Calls) BY <2>1
  <2>3. o.student \in Students /\ o.course \in Courses BY <2>2, CallsTyped
  <2>4. \/ Enroll(t, o.student, o.course) \/ DeleteCourse(t, o.course) \/ GetEnrollments(t)
        \/ GetEnrolledStudents(t, o.course)
    BY <1>3 DEF Step
  <2>5. t \in Sessions BY RunAssumption
  <2> HIDE DEF o
  <2>6. Next BY <2>3, <2>4, <2>5 DEF Next
  <2>7. TodoOK' BY <2>1, <2>2 DEF TodoOK
  <2> QED BY <2>6, <2>7
<1> QED BY <1>1, <1>2, <1>3 DEF RunNext, AnyStep

\* The programs of run_courseware only perform operations of the courseware: each
\* step of a thread is a step of Courseware, so that all of the above holds of them.
THEOREM ProgramsRunCourseware == RunSpec => Spec
<1>1. RunInit => Init /\ TodoOK BY ProgramsTyped DEF RunInit
<1>2. TodoOK /\ [RunNext]_runVars => TodoOK' /\ [Next]_vars BY ProgramStep
<1> QED BY <1>1, <1>2, PTL DEF RunSpec, Spec
-----------------------------------------------------------------------------
(* What do_op keeps *)

\* cs101 has one seat (course.h:49) and main populates the students and courses that
\* do_op names (run_courseware.cpp:38-48).
CoursesAsMade ==
  /\ Capacity[cs101] = 1
  /\ \A c \in Clients : c.run = "fixed" => c.students >= 2 /\ c.courses >= 2

\* do_op: what a thread may have left to do.  Thread 1 is DK's, thread 2 is JV's.
Third(t) == IF t = 1 THEN EnrollCall(DK, hs201) ELSE Call("delete_course", DK, hs201)
Fourth(t) == IF t = 1 THEN EnrollmentsCall ELSE Call("get_enrolled_students", DK, hs201)
Left(t) ==
  {<<EnrollCall(t, cs101), EnrollmentsCall, Third(t), Fourth(t)>>,
   <<EnrollmentsCall, Third(t), Fourth(t)>>, <<Third(t), Fourth(t)>>, <<Fourth(t)>>, <<>>}

\* The second and the fourth call of each thread are reads.
ShownBy(n, q) ==
  q = IF n >= 3 THEN <<>> ELSE IF n >= 1 THEN <<q[1]>> ELSE <<q[1], q[2]>>

AtPoint ==
  /\ todo = [t \in Threads |-> todo[t]] /\ shown = [t \in Threads |-> shown[t]]
  /\ \A t \in Threads : todo[t] \in Left(t) /\ ShownBy(Len(todo[t]), shown[t])

\* The records that do_op names exist from the start.
FixedKeys ==
  {CourseList}
    \cup {Course(c) : c \in {cs101, hs201}} \cup {EnrollmentsIn(c) : c \in {cs101, hs201}}
    \cup {Student(t) : t \in Threads} \cup {EnrollmentsOf(t) : t \in Threads}
AllThere == \A k \in FixedKeys : Present(k)

\* Only its own thread writes the list of a student, which therefore reads its last version.
OwnLists ==
  \A t \in Threads : \/ Len(versions[EnrollmentsOf(t)]) = 1
                     \/ floor[t][EnrollmentsOf(t)] = Len(versions[EnrollmentsOf(t)])

\* A student whom a version of a course's list has ever named has the course in the
\* own list, which nothing in do_op empties.
ListedIn(c, x) ==
  \E i \in DOMAIN versions[EnrollmentsIn(c)] : Holds(versions[EnrollmentsIn(c)][i].list, x)
Told(x, c) == Holds(LatestList(EnrollmentsOf(x)), c)
ListedAreTold == \A t \in Threads, c \in Courses : ListedIn(c, t) => Told(t, c)

\* What thread 2 can be shown of hs201 once it has removed it.
StaysListed ==
  Len(todo[2]) <= 1 =>
    \A i \in DOMAIN versions[EnrollmentsIn(hs201)] :
      i >= floor[2][EnrollmentsIn(hs201)] /\ Holds(versions[EnrollmentsIn(hs201)][i].list, DK)
        => Holds(LatestList(EnrollmentsIn(hs201)), DK)

\* What a thread was shown of its student has happened.
ShownAreReal ==
  /\ \A t \in Threads :
       Len(todo[t]) <= 2 /\ IsListed(t, cs101, shown[t][1]) = 1 => Told(t, cs101)
  /\ Len(todo[2]) = 0 /\ Occurrences(shown[2][2], DK) = 1 =>
       Told(DK, hs201) /\ Holds(LatestList(EnrollmentsIn(hs201)), DK)

\* On a linearizable store: who is in cs101 and in hs201, and which course is closed,
\* by how far the two threads are.
LatestFlag(k) == versions[k][Len(versions[k])].flag
In(c) == LatestList(EnrollmentsIn(c))
Seat(x) == IF In(cs101) = <<x>> THEN 1 ELSE 0

LinearRecords ==
  /\ In(cs101) \in {<<>>, <<DK>>, <<JV>>}
  /\ In(cs101) = <<>> => LatestFlag(Course(cs101)) = "open" /\ \A t \in Threads : Len(todo[t]) = 4
  /\ In(hs201) \in {<<>>, <<DK>>}
  /\ Len(todo[1]) >= 2 => In(hs201) = <<>>
  /\ Len(todo[2]) <= 1 => In(hs201) = <<>> /\ LatestFlag(Course(hs201)) # "open"
  /\ \A c \in Courses \ {cs101, hs201} : In(c) = <<>>
  /\ \A t \in Threads : LatestFlag(Student(t)) = "true"
  /\ Holds(LatestList(CourseList), cs101)

\* What the reads have shown there: the seat in cs101 as it is, and hs201 without DK
\* once it is removed.
LinearShown ==
  /\ \A t \in Threads : Len(todo[t]) <= 2 => IsListed(t, cs101, shown[t][1]) = Seat(t)
  /\ Len(todo[1]) = 0 => TimesListed(DK, shown[1][2]) \in {Seat(DK), Seat(DK) + 1}
  /\ Len(todo[2]) = 0 => shown[2][2] = <<>>

LEMMA TuplesUnfold ==
  /\ \A a, b, c, d : /\ Head(<<a, b, c, d>>) = a /\ Tail(<<a, b, c, d>>) = <<b, c, d>>
                     /\ Len(<<a, b, c, d>>) = 4
  /\ \A a, b, c : /\ Head(<<a, b, c>>) = a /\ Tail(<<a, b, c>>) = <<b, c>>
                  /\ Len(<<a, b, c>>) = 3
  /\ \A a, b : /\ Head(<<a, b>>) = a /\ Tail(<<a, b>>) = <<b>> /\ Len(<<a, b>>) = 2
  /\ \A a : Head(<<a>>) = a /\ Tail(<<a>>) = <<>> /\ Len(<<a>>) = 1
  /\ Len(<<>>) = 0
<1>1. \A a, b, c, d : /\ Head(<<a, b, c, d>>) = a /\ Tail(<<a, b, c, d>>) = <<b, c, d>>
                      /\ Len(<<a, b, c, d>>) = 4
  OBVIOUS
<1>2. \A a, b, c : /\ Head(<<a, b, c>>) = a /\ Tail(<<a, b, c>>) = <<b, c>>
                   /\ Len(<<a, b, c>>) = 3
  OBVIOUS
<1>3. \A a, b : /\ Head(<<a, b>>) = a /\ Tail(<<a, b>>) = <<b>> /\ Len(<<a, b>>) = 2
  OBVIOUS
<1>4. \A a : Head(<<a>>) = a /\ Tail(<<a>>) = <<>> /\ Len(<<a>>) = 1
  OBVIOUS
<1> QED BY <1>1, <1>2, <1>3, <1>4

LEMMA NextCalls ==
  ASSUME NEW t \in Threads, NEW q \in Left(t), q # <<>>
  PROVE  /\ Tail(q) \in Left(t) /\ Len(Tail(q)) = Len(q) - 1 /\ Len(q) \in 1 .. 4
         /\ Len(q) = 4 => Head(q) = EnrollCall(t, cs101)
         /\ Len(q) = 3 => Head(q) = EnrollmentsCall
         /\ Len(q) = 2 => Head(q) = Third(t)
         /\ Len(q) = 1 => Head(q) = Fourth(t)
<1> DEFINE a == EnrollCall(t, cs101)
           b == EnrollmentsCall
           c == Third(t)
           d == Fourth(t)
<1>1. Left(t) = {<<a, b, c, d>>, <<b, c, d>>, <<c, d>>, <<d>>, <<>>} BY DEF Left
<1> HIDE DEF a, b, c, d
<1>2. CASE q = <<a, b, c, d>> BY <1>1, <1>2, TuplesUnfold DEF a
<1>3. CASE q = <<b, c, d>> BY <1>1, <1>3, TuplesUnfold DEF b
<1>4. CASE q = <<c, d>> BY <1>1, <1>4, TuplesUnfold DEF c
<1>5. CASE q = <<d>> BY <1>1, <1>5, TuplesUnfold DEF d
<1> QED BY <1>1, <1>2, <1>3, <1>4, <1>5

LEMMA LeftLengths ==
  ASSUME NEW t \in Threads, NEW q \in Left(t)
  PROVE  Len(q) \in 0 .. 4 /\ (Len(q) = 0 <=> q = <<>>)
  BY NextCalls, TuplesUnfold

\* Which call the step of a thread makes.
RunCase(t) ==
  \/ Len(todo[t]) = 4 /\ Enroll(t, t, cs101) /\ shown' = shown
  \/ /\ Len(todo[t]) = 3 /\ GetEnrollments(t) /\ shown'[t] = <<Enrollments(t)>>
  \/ Len(todo[t]) = 2 /\ t = 1 /\ Enroll(t, t, hs201) /\ shown' = shown
  \/ Len(todo[t]) = 2 /\ t = 2 /\ DeleteCourse(t, hs201) /\ shown' = shown
  \/ /\ Len(todo[t]) = 1 /\ t = 1 /\ GetEnrollments(t)
     /\ shown'[t] = <<shown[t][1], Enrollments(t)>>
  \/ /\ Len(todo[t]) = 1 /\ t = 2 /\ GetEnrolledStudents(t, hs201)
     /\ shown'[t] = <<shown[t][1], ReadHere(t, EnrollmentsIn(hs201))>>

LEMMA RunCases ==
  ASSUME AtPoint, NEW t \in Threads, Step(t)
  PROVE  /\ RunCase(t) /\ AtPoint'
         /\ Len(todo'[t]) = Len(todo[t]) - 1
         /\ \A u \in Threads \ {t} : todo'[u] = todo[u] /\ shown'[u] = shown[u]
<1> DEFINE q == todo[t]
           o == Head(q)
<1>1. q \in Left(t) /\ q # <<>> /\ todo' = [todo EXCEPT ![t] = Tail(q)]
  BY DEF AtPoint, Step
<1>2. /\ Tail(q) \in Left(t) /\ Len(Tail(q)) = Len(q) - 1 /\ Len(q) \in 1 .. 4
      /\ Len(q) = 4 => o = EnrollCall(t, cs101)
      /\ Len(q) = 3 => o = EnrollmentsCall
      /\ Len(q) = 2 => o = Third(t)
      /\ Len(q) = 1 => o = Fourth(t)
  BY <1>1, NextCalls
<1>3. /\ todo' = [u \in Threads |-> todo'[u]] /\ todo'[t] = Tail(q)
      /\ \A u \in Threads \ {t} : todo'[u] = todo[u]
  BY <1>1 DEF AtPoint
<1>4. \/ o.op = "enroll" /\ Enroll(t, o.student, o.course) /\ UNCHANGED shown
      \/ o.op = "delete_course" /\ DeleteCourse(t, o.course) /\ UNCHANGED shown
      \/ o.op = "get_enrollments" /\ GetEnrollments(t) /\ Shows(t, Enrollments(t))
      \/ /\ o.op = "get_enrolled_students" /\ GetEnrolledStudents(t, o.course)
         /\ Shows(t, ReadHere(t, EnrollmentsIn(o.course)))
  BY DEF Step
<1>5. ShownBy(Len(q), shown[t]) BY DEF AtPoint
<1>6. ASSUME NEW e, Shows(t, e)
      PROVE  /\ shown' = [u \in Threads |-> shown'[u]]
             /\ \A u \in Threads \ {t} : shown'[u] = shown[u]
             /\ Len(q) = 3 => shown'[t] = <<e>>
             /\ Len(q) = 1 => shown'[t] = <<shown[t][1], e>>
  <2>1. shown' = [shown EXCEPT ![t] = Append(shown[t], e)] BY <1>6 DEF Shows
  <2>2. /\ shown' = [u \in Threads |-> shown'[u]] /\ shown'[t] = Append(shown[t], e)
        /\ \A u \in Threads \ {t} : shown'[u] = shown[u]
    BY <2>1 DEF AtPoint
  <2>3. Len(q) = 3 => shown[t] = <<>> BY <1>5 DEF ShownBy
  <2>4. Len(q) = 1 => shown[t] = <<shown[t][1]>> BY <1>5 DEF ShownBy
  <2>5. Append(<<>>, e) = <<e>> OBVIOUS
  <2> QED BY <2>2, <2>3, <2>4, <2>5, AppendedPair
<1>7. UNCHANGED shown =>
        /\ shown' = [u \in Threads |-> shown'[u]] /\ shown'[t] = shown[t]
        /\ \A u \in Threads \ {t} : shown'[u] = shown[u]
  BY DEF AtPoint
<1>8. /\ EnrollCall(t, cs101).op = "enroll" /\ EnrollCall(t, cs101).student = t
      /\ EnrollCall(t, cs101).course = cs101
      /\ EnrollmentsCall.op = "get_enrollments"
      /\ t = 1 => /\ Third(t).op = "enroll" /\ Third(t).student = t /\ Third(t).course = hs201
                  /\ Fourth(t).op = "get_enrollments"
      /\ t = 2 => /\ Third(t).op = "delete_course" /\ Third(t).course = hs201
                  /\ Fourth(t).op = "get_enrolled_students" /\ Fourth(t).course = hs201
  BY DEF Third, Fourth, EnrollCall, EnrollmentsCall, Call, DK, Threads
<1>9. t = 1 \/ t = 2 BY DEF Threads
<1>10. PICK e : e = Enrollments(t) OBVIOUS
<1>11. PICK l : l = ReadHere(t, EnrollmentsIn(o.course)) OBVIOUS
<1>12. /\ RunCase(t)
       /\ shown' = [u \in Threads |-> shown'[u]]
       /\ \A u \in Threads \ {t} : shown'[u] = shown[u]
       /\ ShownBy(Len(q) - 1, shown'[t])
  <2> HIDE DEF q, o
  <2>1. CASE Len(q) = 4
    <3>1. o.op = "enroll" /\ o.student = t /\ o.course = cs101 BY <1>2, <1>8, <2>1
    <3>2. Enroll(t, t, cs101) /\ UNCHANGED shown BY <1>4, <3>1
    <3>3. shown[t] = <<>> BY <1>5, <2>1 DEF ShownBy
    <3>4. ShownBy(Len(q) - 1, shown'[t]) BY <1>7, <2>1, <3>2, <3>3 DEF ShownBy
    <3> QED BY <1>7, <2>1, <3>2, <3>4 DEF RunCase, q
  <2>2. CASE Len(q) = 3
    <3>1. o.op = "get_enrollments" BY <1>2, <1>8, <2>2
    <3>2. GetEnrollments(t) /\ Shows(t, e) BY <1>4, <1>10, <3>1
    <3>3. ShownBy(Len(q) - 1, shown'[t]) BY <1>6, <2>2, <3>2 DEF ShownBy
    <3> QED BY <1>6, <1>10, <2>2, <3>2, <3>3 DEF RunCase, q
  <2>3. CASE Len(q) = 2 /\ t = 1
    <3>1. o.op = "enroll" /\ o.student = t /\ o.course = hs201 BY <1>2, <1>8, <2>3
    <3>2. Enroll(t, t, hs201) /\ UNCHANGED shown BY <1>4, <3>1
    <3>3. shown[t] = <<shown[t][1]>> BY <1>5, <2>3 DEF ShownBy
    <3>4. ShownBy(Len(q) - 1, shown'[t]) BY <1>7, <2>3, <3>2, <3>3 DEF ShownBy
    <3> QED BY <1>7, <2>3, <3>2, <3>4 DEF RunCase, q
  <2>4. CASE Len(q) = 2 /\ t = 2
    <3>1. o.op = "delete_course" /\ o.course = hs201 BY <1>2, <1>8, <2>4
    <3>2. DeleteCourse(t, hs201) /\ UNCHANGED shown BY <1>4, <3>1
    <3>3. shown[t] = <<shown[t][1]>> BY <1>5, <2>4 DEF ShownBy
    <3>4. ShownBy(Len(q) - 1, shown'[t]) BY <1>7, <2>4, <3>2, <3>3 DEF ShownBy
    <3> QED BY <1>7, <2>4, <3>2, <3>4 DEF RunCase, q
  <2>5. CASE Len(q) = 1 /\ t = 1
    <3>1. o.op = "get_enrollments" BY <1>2, <1>8, <2>5
    <3>2. GetEnrollments(t) /\ Shows(t, e) BY <1>4, <1>10, <3>1
    <3>3. ShownBy(Len(q) - 1, shown'[t]) BY <1>6, <2>5, <3>2 DEF ShownBy
    <3> QED BY <1>6, <1>10, <2>5, <3>2, <3>3 DEF RunCase, q
  <2>6. CASE Len(q) = 1 /\ t = 2
    <3>1. o.op = "get_enrolled_students" /\ o.course = hs201 BY <1>2, <1>8, <2>6
    <3>2. GetEnrolledStudents(t, hs201) /\ Shows(t, l) BY <1>4, <1>11, <3>1
    <3>3. ShownBy(Len(q) - 1, shown'[t]) BY <1>6, <2>6, <3>2 DEF ShownBy
    <3>4. l = ReadHere(t, EnrollmentsIn(hs201)) BY <1>11, <3>1
    <3> QED BY <1>6, <2>6, <3>2, <3>3, <3>4 DEF RunCase, q
  <2> QED BY <1>2, <1>9, <2>1, <2>2, <2>3, <2>4, <2>5, <2>6
<1>13. AtPoint'
  <2> SUFFICES ASSUME NEW u \in Threads
               PROVE  todo'[u] \in Left(u) /\ ShownBy(Len(todo'[u]), shown'[u])
    BY <1>3, <1>12 DEF AtPoint
  <2>1. CASE u = t BY <1>2, <1>3, <1>12, <2>1
  <2>2. CASE u # t BY <1>3, <1>12, <2>2 DEF AtPoint
  <2> QED BY <2>1, <2>2
<1> QED BY <1>2, <1>3, <1>12, <1>13
-----------------------------------------------------------------------------
(* What the operations of the programs append *)

Grows(k, v) == versions'[k] = Append(versions[k], v)
OnlyAt(D) == \A k \in Keys \ D : versions'[k] = versions[k]

\* The list l is one that session s may be shown of k.
MayRead(s, k, l) ==
  IF Present(k) THEN \E i \in Visible(s, k) : l = versions[k][i].list ELSE l = <<>>

Closes(c) == Grows(Course(c), Details("close")) /\ OnlyAt({Course(c)})
Seats(x, c, in, of) ==
  /\ Grows(EnrollmentsIn(c), List(Append(in, x))) /\ Grows(EnrollmentsOf(x), List(Append(of, c)))
  /\ OnlyAt({EnrollmentsIn(c), EnrollmentsOf(x)})
Removes(c, listed) ==
  /\ Grows(Course(c), Details("close")) /\ Grows(CourseList, List(Without(listed, c)))
  /\ Grows(EnrollmentsIn(c), List(<<>>))
  /\ OnlyAt({Course(c), CourseList, EnrollmentsIn(c)})

SeatTaken(s, x, c) ==
  \E in, of \in Seq(Ids) :
    /\ MayRead(s, EnrollmentsIn(c), in) /\ MayRead(s, EnrollmentsOf(x), of)
    /\ Len(in) < Capacity[c] /\ Seats(x, c, in, of)
    /\ floor'[s][EnrollmentsOf(x)] = Len(versions[EnrollmentsOf(x)]) + 1
CourseRemoved(s, c) ==
  \E listed \in Seq(Ids) :
    /\ MayRead(s, CourseList, listed) /\ Removes(c, listed)
    /\ floor'[s][EnrollmentsIn(c)] = Len(versions[EnrollmentsIn(c)]) + 1

LEMMA FittingEffect ==
  ASSUME CoursewareStore, CourseInv, NEW s \in Sessions, NEW r, NEW w, Fitting(s, r, w)
  PROVE  /\ \A k \in DOMAIN w : Grows(k, w[k]) /\ floor'[s][k] = Len(versions[k]) + 1
         /\ OnlyAt(DOMAIN w) /\ DOMAIN w \subseteq Keys
         /\ \A k \in DOMAIN r \ DOMAIN w : floor'[s][k] = r[k] /\ r[k] \in Visible(s, k)
<1>1. \A m \in DOMAIN w : w[m] \in Values BY DEF Fitting, Writable, CoursewareStore
<1>2. StoreSound BY DEF CourseInv
<1>3. DOMAIN w \subseteq Keys /\ DOMAIN r \subseteq Keys BY DEF Fitting, Writable
<1>4. Transact(s, r, w) BY DEF Fitting
<1>5. /\ \A m \in DOMAIN w : /\ versions'[m] = Append(versions[m], w[m])
                             /\ floor'[s][m] = Len(versions[m]) + 1
      /\ \A m \in Keys \ DOMAIN w : versions'[m] = versions[m]
      /\ \A k \in DOMAIN r \ DOMAIN w : floor'[s][k] = r[k]
      /\ \A k \in DOMAIN r : r[k] \in Visible(s, k)
  BY <1>1, <1>2, <1>3, <1>4, TransactEffect
<1> QED BY <1>3, <1>5 DEF Grows, OnlyAt

LEMMA ChoiceMayRead ==
  ASSUME NEW s \in Sessions, NEW ks \in SUBSET Keys, NEW r \in ReadChoices(s, ks), NEW k \in ks
  PROVE  MayRead(s, k, ListRead(k, r))
<1>1. Reads(s, r) /\ DOMAIN r = {m \in ks : Present(m)} BY ReadsOfChoices
<1>2. k \in DOMAIN r <=> Present(k) BY <1>1
<1>3. CASE Present(k)
  <2>1. r[k] \in Visible(s, k) BY <1>1, <1>2, <1>3 DEF Reads
  <2> QED BY <1>2, <1>3, <2>1 DEF MayRead, ListRead
<1>4. CASE ~ Present(k) BY <1>2, <1>4 DEF MayRead, ListRead
<1> QED BY <1>3, <1>4

LEMMA NothingEffect ==
  ASSUME CoursewareStore, CourseInv, NEW s \in Sessions, NEW r, Reads(s, r), Transact(s, r, NoWrites)
  PROVE  /\ OnlyAt({})
         /\ \A k \in DOMAIN r : floor'[s][k] = r[k] /\ r[k] \in Visible(s, k)
<1>1. Fitting(s, r, NoWrites) BY WritableNothing DEF Fitting, Reads
<1>2. DOMAIN NoWrites = {} BY DEF NoWrites
<1> QED BY <1>1, <1>2, FittingEffect

LEMMA SeatEffect ==
  ASSUME CoursewareStore, CourseInv, NEW s \in Sessions, NEW x \in Students, NEW c \in Courses,
         NEW q, NEW p, NEW all, TakesSeat(s, x, c, q, p, all)
  PROVE  SeatTaken(s, x, c)
<1> DEFINE in == ListRead(EnrollmentsIn(c), q)
           of == ListRead(EnrollmentsOf(x), p)
           w == SeatWrites(x, c, q, p)
<1>1. /\ Reads(s, q) /\ Reads(s, p) /\ Reads(s, all) /\ Transact(s, all, w)
      /\ q \in ReadChoices(s, {EnrollmentsIn(c)}) /\ p \in ReadChoices(s, {EnrollmentsOf(x)})
      /\ Len(in) < Capacity[c]
  BY DEF TakesSeat
<1>2. in \in Seq(Ids) /\ of \in Seq(Ids) BY <1>1, ListsTyped DEF CourseInv
<1>3. MayRead(s, EnrollmentsIn(c), in) /\ MayRead(s, EnrollmentsOf(x), of)
  BY <1>1, ChoiceMayRead, KeysTyped
<1>4. Fitting(s, all, w)
  <2>1. Writable(w) BY SeatFits DEF CourseInv
  <2> QED BY <1>1, <2>1 DEF Fitting, Reads
<1>5. /\ DOMAIN w = {EnrollmentsIn(c), EnrollmentsOf(x)}
      /\ w[EnrollmentsIn(c)] = List(Append(in, x)) /\ w[EnrollmentsOf(x)] = List(Append(of, c))
  <2> DEFINE f == At(EnrollmentsIn(c), List(Append(in, x)))
             g == At(EnrollmentsOf(x), List(Append(of, c)))
  <2>1. w = f ++ g BY DEF SeatWrites
  <2>2. /\ DOMAIN f = {EnrollmentsIn(c)} /\ f[EnrollmentsIn(c)] = List(Append(in, x))
        /\ DOMAIN g = {EnrollmentsOf(x)} /\ g[EnrollmentsOf(x)] = List(Append(of, c))
    BY AtIsOne
  <2> HIDE DEF f, g, w
  <2> QED BY <2>1, <2>2, KeysDiffer DEF ++
<1> HIDE DEF w, in, of
<1>6. /\ \A k \in DOMAIN w : Grows(k, w[k]) /\ floor'[s][k] = Len(versions[k]) + 1
      /\ OnlyAt(DOMAIN w)
  BY <1>4, FittingEffect
<1>7. Seats(x, c, in, of) /\ floor'[s][EnrollmentsOf(x)] = Len(versions[EnrollmentsOf(x)]) + 1
  BY <1>5, <1>6 DEF Seats
<1> QED BY <1>1, <1>2, <1>3, <1>7 DEF SeatTaken

LEMMA ClosingEffect ==
  ASSUME CoursewareStore, CourseInv, NEW s \in Sessions, NEW c \in Courses, NEW r, Reads(s, r),
         Transact(s, r, At(Course(c), Details("close")))
  PROVE  Closes(c)
<1>1. PICK w : w = At(Course(c), Details("close")) OBVIOUS
<1>2. DOMAIN w = {Course(c)} /\ w[Course(c)] = Details("close") BY <1>1, AtIsOne
<1>3. Writable(w) BY <1>1, KeysTyped, ValuesTyped, FitsElsewhere, WritableAt
<1>4. Fitting(s, r, w) BY <1>1, <1>3 DEF Fitting, Reads
<1> QED BY <1>2, <1>4, FittingEffect DEF Closes

LEMMA EnrollEffect ==
  ASSUME CoursewareStore, CourseInv, NEW s \in Sessions, NEW x \in Students, NEW c \in Courses,
         Enroll(s, x, c)
  PROVE  OnlyAt({}) \/ Closes(c) \/ SeatTaken(s, x, c)
<1>1. StoreSound BY DEF CourseInv
<1>2. PICK r : Reads(s, r) /\ (Transact(s, r, NoWrites) \/ Eligible(s, x, c, r)) BY EnrollCases
<1>3. CASE Transact(s, r, NoWrites) BY <1>2, <1>3, NothingEffect
<1>4. CASE Eligible(s, x, c, r)
  <2>1. \/ \E all : Reads(s, all) /\ Transact(s, all, At(Course(c), Details("close")))
        \/ \E q, p, all : TakesSeat(s, x, c, q, p, all)
    BY <1>1, <1>2, <1>4, EligibleCases
  <2> QED BY <2>1, ClosingEffect, SeatEffect
<1> QED BY <1>2, <1>3, <1>4

\* On a linearizable store enroll does what the latest details and list say.
LEMMA LinearEnroll ==
  ASSUME CoursewareStore, CourseInv, level = "linear",
         NEW s \in Sessions, NEW x \in Students, NEW c \in Courses, Enroll(s, x, c),
         Present(Student(x)), Present(Course(c)), LatestFlag(Student(x)) = "true"
  PROVE  /\ LatestFlag(Course(c)) # "open" => OnlyAt({})
         /\ LatestFlag(Course(c)) = "open" =>
              IF Len(In(c)) >= Capacity[c] THEN Closes(c) ELSE SeatTaken(s, x, c)
<1>1. StoreSound BY DEF CourseInv
<1> DEFINE throws(r) == FlagRead(Student(x), r) = "0"
           eligible(r) == ~ throws(r) /\ FlagRead(Course(c), r) = "open"
<1>2. PICK r \in ReadChoices(s, {Student(x), Course(c)}) :
        IF eligible(r) THEN EnrollIfSeat(s, x, c, r) ELSE Transact(s, r, NoWrites)
  BY DEF Enroll
<1>3. Reads(s, r) /\ DOMAIN r = {Student(x), Course(c)}
  BY <1>2, ReadsOfChoices, KeysTyped
<1>4. /\ FlagRead(Student(x), r) = LatestFlag(Student(x))
      /\ FlagRead(Course(c), r) = LatestFlag(Course(c))
  BY <1>3, LatestRead, KeysTyped DEF LatestFlag
<1>5. eligible(r) <=> LatestFlag(Course(c)) = "open" BY <1>4
<1> HIDE DEF eligible
<1>6. CASE LatestFlag(Course(c)) = "open"
  <2>1. PICK q \in ReadChoices(s, {EnrollmentsIn(c)}) :
          IF Len(ListRead(EnrollmentsIn(c), q)) >= Capacity[c]
            THEN Transact(s, r ++ q, At(Course(c), Details("close")))
            ELSE \E p \in ReadChoices(s, {EnrollmentsOf(x)}) :
                   Transact(s, r ++ q ++ p, SeatWrites(x, c, q, p))
    BY <1>2, <1>5, <1>6 DEF EnrollIfSeat, SeatWrites
  <2>2. Reads(s, q) /\ DOMAIN q = {k \in {EnrollmentsIn(c)} : Present(k)}
    BY <2>1, KeysTyped, ReadsOfChoices
  <2>3. ListRead(EnrollmentsIn(c), q) = In(c) BY <2>2, LatestRead, KeysTyped DEF In
  <2>4. Reads(s, r ++ q) BY <1>3, <2>2, ReadsJoin
  <2>5. CASE Len(In(c)) >= Capacity[c]
    <3>1. Transact(s, r ++ q, At(Course(c), Details("close"))) BY <2>1, <2>3, <2>5
    <3> QED BY <1>6, <2>4, <2>5, <3>1, ClosingEffect
  <2>6. CASE ~ (Len(In(c)) >= Capacity[c])
    <3>1. PICK p \in ReadChoices(s, {EnrollmentsOf(x)}) :
            Transact(s, r ++ q ++ p, SeatWrites(x, c, q, p))
      BY <2>1, <2>3, <2>6
    <3>2. Reads(s, p) BY <3>1, KeysTyped, ReadsOfChoices
    <3>3. Reads(s, r ++ q ++ p) BY <2>4, <3>2, ReadsJoin
    <3>4. In(c) \in Seq(Ids) BY LatestTyped, KeysTyped DEF In
    <3>5. Len(ListRead(EnrollmentsIn(c), q)) < Capacity[c]
      <4>1. Len(In(c)) \in Nat /\ Capacity[c] \in Nat BY <3>4, CoursewareAssumption
      <4> QED BY <2>3, <2>6, <4>1
    <3>6. PICK all : all = r ++ q ++ p OBVIOUS
    <3>7. TakesSeat(s, x, c, q, p, all)
      BY <2>1, <2>2, <3>1, <3>2, <3>3, <3>5, <3>6 DEF TakesSeat
    <3> QED BY <1>6, <2>6, <3>7, SeatEffect
  <2> QED BY <2>5, <2>6
<1>7. CASE LatestFlag(Course(c)) # "open"
  <2>1. Transact(s, r, NoWrites) BY <1>2, <1>5, <1>7
  <2> QED BY <1>3, <1>7, <2>1, NothingEffect
<1> QED BY <1>6, <1>7

LEMMA RemovalEffect ==
  ASSUME CoursewareStore, CourseInv, NEW s \in Sessions, NEW c \in Courses, DeleteCourse(s, c),
         Present(Course(c)), Present(CourseList)
  PROVE  CourseRemoved(s, c)
<1>1. PICK r \in ReadChoices(s, {Course(c), CourseList}) : Transact(s, r, RemovingWrites(c, r))
  BY DEF DeleteCourse, RemovingWrites, ClosingWrites
<1>2. Reads(s, r) BY <1>1, KeysTyped, ReadsOfChoices
<1> DEFINE listed == ListRead(CourseList, r)
           w == RemovingWrites(c, r)
           close == At(Course(c), Details("close"))
           list == At(CourseList, List(Without(listed, c)))
           students == At(EnrollmentsIn(c), List(<<>>))
<1>3. listed \in Seq(Ids) BY <1>2, ListsTyped DEF CourseInv
<1>4. MayRead(s, CourseList, listed) BY <1>1, ChoiceMayRead, KeysTyped
<1>5. Fitting(s, r, w)
  <2>1. Writable(w) BY <1>2, RemovingFits
  <2> QED BY <1>1, <1>2, <2>1 DEF Fitting, Reads
<1>6. w = close ++ (list ++ students) BY DEF RemovingWrites, ClosingWrites
<1>7. /\ DOMAIN close = {Course(c)} /\ close[Course(c)] = Details("close")
      /\ DOMAIN list = {CourseList} /\ list[CourseList] = List(Without(listed, c))
      /\ DOMAIN students = {EnrollmentsIn(c)} /\ students[EnrollmentsIn(c)] = List(<<>>)
  BY AtIsOne
<1> HIDE DEF w, close, list, students, listed
<1>8. /\ DOMAIN w = {Course(c), CourseList, EnrollmentsIn(c)}
      /\ w[Course(c)] = Details("close") /\ w[CourseList] = List(Without(listed, c))
      /\ w[EnrollmentsIn(c)] = List(<<>>)
  BY <1>6, <1>7, KeysDiffer DEF ++
<1>9. /\ \A k \in DOMAIN w : Grows(k, w[k]) /\ floor'[s][k] = Len(versions[k]) + 1
      /\ OnlyAt(DOMAIN w)
  BY <1>5, FittingEffect
<1>10. Removes(c, listed) /\ floor'[s][EnrollmentsIn(c)] = Len(versions[EnrollmentsIn(c)]) + 1
  BY <1>8, <1>9 DEF Removes
<1> QED BY <1>3, <1>4, <1>10 DEF CourseRemoved

\* What a read shows is a version that the session may be shown.
LEMMA ListingEffect ==
  ASSUME CoursewareStore, CourseInv, NEW s \in Sessions, NEW c \in Courses, GetEnrolledStudents(s, c)
  PROVE  OnlyAt({}) /\ MayRead(s, EnrollmentsIn(c), ReadHere(s, EnrollmentsIn(c)))
<1>1. PICK r \in ReadChoices(s, {EnrollmentsIn(c)}) : Transact(s, r, NoWrites)
  BY DEF GetEnrolledStudents, GetList
<1>2. Reads(s, r) /\ DOMAIN r = {k \in {EnrollmentsIn(c)} : Present(k)}
  BY <1>1, KeysTyped, ReadsOfChoices
<1>3. OnlyAt({}) /\ \A k \in DOMAIN r : floor'[s][k] = r[k] /\ r[k] \in Visible(s, k)
  BY <1>1, <1>2, NothingEffect
<1> QED BY <1>2, <1>3 DEF MayRead, ReadHere

LEMMA OverviewEffect ==
  ASSUME CoursewareStore, CourseInv, NEW s \in Sessions, GetEnrollments(s)
  PROVE  /\ OnlyAt({}) /\ MayRead(s, CourseList, ReadHere(s, CourseList))
         /\ ReadHere(s, CourseList) \in Seq(Courses)
         /\ \A c \in Courses :
              Holds(ReadHere(s, CourseList), c)
                => MayRead(s, EnrollmentsIn(c), ReadHere(s, EnrollmentsIn(c)))
<1> DEFINE listed(r) == ListRead(CourseList, r)
           keys(r) == {EnrollmentsIn(listed(r)[i]) : i \in DOMAIN listed(r)}
<1>1. PICK r \in ReadChoices(s, {CourseList}) :
        \E q \in ReadChoices(s, keys(r)) : Transact(s, r ++ q, NoWrites)
  BY DEF GetEnrollments
<1>2. PICK q \in ReadChoices(s, keys(r)) : Transact(s, r ++ q, NoWrites) BY <1>1
<1>3. Reads(s, r) /\ DOMAIN r = {k \in {CourseList} : Present(k)} BY <1>1, KeysTyped, ReadsOfChoices
<1>4. keys(r) \subseteq Keys BY <1>3, EnrollmentKeysTyped
<1>5. Reads(s, q) /\ DOMAIN q = {k \in keys(r) : Present(k)} BY <1>2, <1>4, ReadsOfChoices
<1>6. Reads(s, r ++ q) BY <1>3, <1>5, ReadsJoin
<1>7. PICK b : b = r ++ q OBVIOUS
<1>8. OnlyAt({}) /\ \A k \in DOMAIN b : floor'[s][k] = b[k] /\ b[k] \in Visible(s, k)
  BY <1>2, <1>6, <1>7, NothingEffect
<1>9. listed(r) \in Seq(Courses) BY <1>3, CourseListRead
<1>10. \A c \in Courses : Holds(listed(r), c) => EnrollmentsIn(c) \in keys(r) BY DEF Holds
<1> HIDE DEF keys
<1>11. /\ DOMAIN b = DOMAIN r \cup DOMAIN q
       /\ \A k \in DOMAIN r : b[k] = r[k]
  BY <1>7 DEF ++
<1>12. ReadHere(s, CourseList) = listed(r)
  BY <1>3, <1>8, <1>11 DEF ReadHere, ListRead
<1>13. MayRead(s, CourseList, ReadHere(s, CourseList))
  BY <1>3, <1>8, <1>11 DEF ReadHere, MayRead
<1>14. ASSUME NEW c \in Courses, Holds(ReadHere(s, CourseList), c)
       PROVE  MayRead(s, EnrollmentsIn(c), ReadHere(s, EnrollmentsIn(c)))
  <2>1. EnrollmentsIn(c) \in keys(r) BY <1>10, <1>12, <1>14
  <2>2. Present(EnrollmentsIn(c)) => EnrollmentsIn(c) \in DOMAIN b BY <1>5, <1>11, <2>1
  <2> QED BY <1>8, <2>2 DEF ReadHere, MayRead
<1> QED BY <1>8, <1>9, <1>12, <1>13, <1>14
-----------------------------------------------------------------------------
(* What the programs keep at every level *)

LEMMA NextKeeps ==
  ASSUME CoursewareStore, CourseInv, Next
  PROVE  CourseInv' /\ VersionsKept /\ FloorsKept /\ level' = level /\ client' = client
<1>1. PICK s \in Sessions : FittingStep(s) BY NextFits
<1>2. PICK r, w : Fitting(s, r, w) BY <1>1 DEF FittingStep
<1>3. \A m \in DOMAIN w : w[m] \in Values BY <1>2 DEF Fitting, Writable, CoursewareStore
<1>4. DOMAIN w \subseteq Keys /\ DOMAIN r \subseteq Keys /\ Transact(s, r, w) /\ StoreSound
  BY <1>2 DEF Fitting, Writable, CourseInv
<1>5. VersionsKept /\ FloorsKept BY <1>3, <1>4, TransactEffect
<1> QED BY <1>5, CourseInvStep, LevelAndClientKept

LEMMA GrownLatest ==
  ASSUME CoursewareStore, CourseInv, NEW k \in Keys, NEW v \in CoursewareValues, Grows(k, v)
  PROVE  /\ Present(k)' /\ LatestList(k)' = v.list /\ LatestFlag(k)' = v.flag
         /\ Len(versions'[k]) = Len(versions[k]) + 1
         /\ versions'[k][Len(versions[k]) + 1] = v
         /\ DOMAIN versions'[k] = DOMAIN versions[k] \cup {Len(versions[k]) + 1}
         /\ \A i \in DOMAIN versions[k] : versions'[k][i] = versions[k][i]
<1>1. versions[k] \in Seq(CoursewareValues)
  BY VersionsTyped DEF CourseInv, StoreSound, CoursewareStore
<1> DEFINE q == versions[k]
           p == versions'[k]
<1>2. p = Append(q, v) BY DEF Grows
<1>3. q \in Seq(CoursewareValues) BY <1>1
<1> HIDE DEF q, p
<1>4. /\ p # <<>> /\ Len(p) = Len(q) + 1 /\ p[Len(q) + 1] = v
      /\ DOMAIN p = DOMAIN q \cup {Len(q) + 1}
      /\ \A i \in DOMAIN q : p[i] = q[i]
  BY <1>2, <1>3
<1> QED BY <1>4 DEF p, q, Present, LatestList, LatestFlag

LEMMA KeptLatest ==
  ASSUME NEW k, versions'[k] = versions[k]
  PROVE  /\ (Present(k)' <=> Present(k)) /\ LatestList(k)' = LatestList(k)
         /\ LatestFlag(k)' = LatestFlag(k)
  BY DEF Present, LatestList, LatestFlag

ListsAlone ==
  /\ \A c \in Courses : versions'[EnrollmentsIn(c)] = versions[EnrollmentsIn(c)]
  /\ \A x \in Students : versions'[EnrollmentsOf(x)] = versions[EnrollmentsOf(x)]

\* What a step of thread t does to the lists.
StepKind(t) ==
  \/ ListsAlone /\ (t = 2 => Len(todo[t]) # 2)
  \/ Len(todo[t]) = 4 /\ SeatTaken(t, t, cs101)
  \/ Len(todo[t]) = 2 /\ t = 1 /\ SeatTaken(t, t, hs201)
  \/ Len(todo[t]) = 2 /\ t = 2 /\ CourseRemoved(t, hs201)

LEMMA FixedIds ==
  /\ cs101 \in Courses /\ hs201 \in Courses /\ cs101 # hs201 /\ DK \in Threads /\ JV \in Threads
  /\ \A t \in Threads : t \in Students /\ t \in Sessions /\ t \in Ids
  /\ \A c \in Courses : c \in Ids
  /\ \A t \in Threads : t = 1 \/ t = 2
<1>1. /\ 1 \in Students /\ 2 \in Students /\ 1 \in Courses /\ 2 \in Courses
  BY CoursewareAssumption, RunAssumption DEF Students, Courses
<1>2. \A t \in Threads : t \in Sessions BY RunAssumption
<1> QED BY <1>1, <1>2 DEF Threads, Ids, cs101, hs201, DK, JV

LEMMA FixedPresent ==
  ASSUME AllThere
  PROVE  /\ Present(CourseList)
         /\ \A c \in {cs101, hs201} : Present(Course(c)) /\ Present(EnrollmentsIn(c))
         /\ \A t \in Threads : Present(Student(t)) /\ Present(EnrollmentsOf(t))
  BY DEF AllThere, FixedKeys

LEMMA QuietLists ==
  ASSUME CoursewareStore, NEW c, OnlyAt({}) \/ Closes(c)
  PROVE  ListsAlone
  BY KeysTyped, KeysDiffer DEF OnlyAt, Closes, ListsAlone

LEMMA StepKinds ==
  ASSUME CoursewareStore, CourseInv, AllThere, NEW t \in Threads, RunCase(t)
  PROVE  StepKind(t)
<1>1. t \in Students /\ t \in Sessions /\ cs101 \in Courses /\ hs201 \in Courses BY FixedIds
<1>2. CASE Len(todo[t]) = 4 /\ Enroll(t, t, cs101)
  BY <1>1, <1>2, EnrollEffect, QuietLists DEF StepKind
<1>3. CASE Len(todo[t]) \in {1, 3} /\ GetEnrollments(t)
  <2>1. OnlyAt({}) BY <1>1, <1>3, OverviewEffect
  <2> QED BY <1>3, <2>1, QuietLists DEF StepKind
<1>4. CASE Len(todo[t]) = 2 /\ t = 1 /\ Enroll(t, t, hs201)
  BY <1>1, <1>4, EnrollEffect, QuietLists DEF StepKind
<1>5. CASE Len(todo[t]) = 2 /\ t = 2 /\ DeleteCourse(t, hs201)
  <2>1. CourseRemoved(t, hs201) BY <1>1, <1>5, RemovalEffect, FixedPresent
  <2> QED BY <1>5, <2>1 DEF StepKind
<1>6. CASE Len(todo[t]) = 1 /\ GetEnrolledStudents(t, hs201)
  <2>1. OnlyAt({}) BY <1>1, <1>6, ListingEffect
  <2> QED BY <1>6, <2>1, QuietLists DEF StepKind
<1> QED BY <1>2, <1>3, <1>4, <1>5, <1>6 DEF RunCase

\* A thread reads the last version of its student's own list.
LEMMA OwnListRead ==
  ASSUME CoursewareStore, CourseInv, AllThere, OwnLists, NEW t \in Threads, NEW of,
         MayRead(t, EnrollmentsOf(t), of)
  PROVE  of = LatestList(EnrollmentsOf(t))
<1> DEFINE k == EnrollmentsOf(t)
<1>1. t \in Sessions /\ k \in Keys /\ Present(k) BY FixedIds, FixedPresent, KeysTyped
<1>2. PICK i \in Visible(t, k) : of = versions[k][i].list BY <1>1 DEF MayRead
<1>3. Len(versions[k]) = 1 \/ floor[t][k] = Len(versions[k]) BY DEF OwnLists
<1> HIDE DEF k
<1>4. /\ i \in Nat /\ i > 0 /\ i <= Len(versions[k]) /\ floor[t][k] <= i
      /\ Len(versions[k]) \in Nat
  BY <1>1, <1>2, VisibleAboveFloor, VersionsTyped DEF CourseInv, StoreSound
<1>5. CASE Len(versions[k]) = 1
  <2>1. i > 0 /\ i <= 1 /\ i \in Nat BY <1>4, <1>5
  <2>2. i = 1 BY <2>1
  <2> QED BY <1>1, <1>2, <1>5, <2>2 DEF LatestList, k
<1>6. CASE floor[t][k] = Len(versions[k])
  <2>1. i = Len(versions[k]) BY <1>4, <1>6
  <2> QED BY <1>1, <1>2, <2>1 DEF LatestList, k
<1> QED BY <1>3, <1>5, <1>6

LEMMA SeatsTyped ==
  ASSUME CoursewareStore, NEW x \in Ids, NEW c \in Ids, NEW in \in Seq(Ids), NEW of \in Seq(Ids)
  PROVE  /\ List(Append(in, x)) \in CoursewareValues /\ List(Append(of, c)) \in CoursewareValues
         /\ List(Append(in, x)).list = Append(in, x) /\ List(Append(of, c)).list = Append(of, c)
         /\ List(<<>>) \in CoursewareValues /\ List(<<>>).list = <<>>
<1>1. Append(in, x) \in Seq(Ids) /\ Append(of, c) \in Seq(Ids) /\ <<>> \in Seq(Ids) OBVIOUS
<1> QED BY <1>1, ValuesTyped

\* What taking a seat does to the lists.
LEMMA SeatTakenLists ==
  ASSUME CoursewareStore, CourseInv, AllThere, OwnLists, NEW t \in Threads, NEW c \in Courses,
         SeatTaken(t, t, c)
  PROVE  /\ LatestList(EnrollmentsOf(t))' = Append(LatestList(EnrollmentsOf(t)), c)
         /\ floor'[t][EnrollmentsOf(t)] = Len(versions'[EnrollmentsOf(t)])
         /\ \A x \in Students \ {t} : versions'[EnrollmentsOf(x)] = versions[EnrollmentsOf(x)]
         /\ \A d \in Courses \ {c} : versions'[EnrollmentsIn(d)] = versions[EnrollmentsIn(d)]
         /\ \E in \in Seq(Ids) : /\ Grows(EnrollmentsIn(c), List(Append(in, t)))
                                 /\ MayRead(t, EnrollmentsIn(c), in)
                                 /\ Len(in) < Capacity[c]
         /\ versions'[CourseList] = versions[CourseList]
         /\ \A d \in Courses : versions'[Course(d)] = versions[Course(d)]
         /\ \A x \in Students : versions'[Student(x)] = versions[Student(x)]
<1>1. t \in Students /\ t \in Sessions /\ t \in Ids /\ c \in Ids BY FixedIds
<1>2. PICK in, of \in Seq(Ids) :
        /\ MayRead(t, EnrollmentsIn(c), in) /\ MayRead(t, EnrollmentsOf(t), of)
        /\ Len(in) < Capacity[c] /\ Seats(t, c, in, of)
        /\ floor'[t][EnrollmentsOf(t)] = Len(versions[EnrollmentsOf(t)]) + 1
  BY DEF SeatTaken
<1>3. of = LatestList(EnrollmentsOf(t)) BY <1>2, OwnListRead
<1>4. /\ Grows(EnrollmentsIn(c), List(Append(in, t))) /\ Grows(EnrollmentsOf(t), List(Append(of, c)))
      /\ OnlyAt({EnrollmentsIn(c), EnrollmentsOf(t)})
  BY <1>2 DEF Seats
<1>5. /\ List(Append(of, c)) \in CoursewareValues /\ List(Append(of, c)).list = Append(of, c)
  BY <1>1, <1>2, SeatsTyped
<1>6. /\ LatestList(EnrollmentsOf(t))' = Append(of, c)
      /\ Len(versions'[EnrollmentsOf(t)]) = Len(versions[EnrollmentsOf(t)]) + 1
  BY <1>1, <1>4, <1>5, GrownLatest, KeysTyped
<1>7. /\ \A x \in Students \ {t} : versions'[EnrollmentsOf(x)] = versions[EnrollmentsOf(x)]
      /\ \A d \in Courses \ {c} : versions'[EnrollmentsIn(d)] = versions[EnrollmentsIn(d)]
      /\ versions'[CourseList] = versions[CourseList]
      /\ \A d \in Courses : versions'[Course(d)] = versions[Course(d)]
      /\ \A x \in Students : versions'[Student(x)] = versions[Student(x)]
  BY <1>4, KeysTyped, KeysDiffer DEF OnlyAt
<1> QED BY <1>2, <1>3, <1>4, <1>6, <1>7

\* What removing a course does to the lists.
LEMMA CourseRemovedLists ==
  ASSUME CoursewareStore, CourseInv, NEW s \in Sessions, NEW c \in Courses, CourseRemoved(s, c)
  PROVE  /\ Grows(EnrollmentsIn(c), List(<<>>))
         /\ floor'[s][EnrollmentsIn(c)] = Len(versions[EnrollmentsIn(c)]) + 1
         /\ \A x \in Students : versions'[EnrollmentsOf(x)] = versions[EnrollmentsOf(x)]
         /\ \A d \in Courses \ {c} : versions'[EnrollmentsIn(d)] = versions[EnrollmentsIn(d)]
         /\ \A d \in Courses \ {c} : versions'[Course(d)] = versions[Course(d)]
         /\ \A x \in Students : versions'[Student(x)] = versions[Student(x)]
         /\ LatestFlag(Course(c))' = "close"
         /\ \E listed \in Seq(Ids) : /\ MayRead(s, CourseList, listed)
                                     /\ LatestList(CourseList)' = Without(listed, c)
<1>1. PICK listed \in Seq(Ids) :
        /\ MayRead(s, CourseList, listed) /\ Removes(c, listed)
        /\ floor'[s][EnrollmentsIn(c)] = Len(versions[EnrollmentsIn(c)]) + 1
  BY DEF CourseRemoved
<1>2. /\ Grows(Course(c), Details("close")) /\ Grows(CourseList, List(Without(listed, c)))
      /\ Grows(EnrollmentsIn(c), List(<<>>))
      /\ OnlyAt({Course(c), CourseList, EnrollmentsIn(c)})
  BY <1>1 DEF Removes
<1>3. /\ \A x \in Students : versions'[EnrollmentsOf(x)] = versions[EnrollmentsOf(x)]
      /\ \A d \in Courses \ {c} : versions'[EnrollmentsIn(d)] = versions[EnrollmentsIn(d)]
      /\ \A d \in Courses \ {c} : versions'[Course(d)] = versions[Course(d)]
      /\ \A x \in Students : versions'[Student(x)] = versions[Student(x)]
  BY <1>2, KeysTyped, KeysDiffer DEF OnlyAt
<1>4. /\ Details("close") \in CoursewareValues /\ Details("close").flag = "close"
      /\ List(Without(listed, c)) \in CoursewareValues
      /\ List(Without(listed, c)).list = Without(listed, c)
  <2>1. Without(listed, c) \in Seq(Ids) BY <1>1, WithoutHolds
  <2> QED BY <2>1, ValuesTyped
<1>5. LatestFlag(Course(c))' = "close" BY <1>2, <1>4, GrownLatest, KeysTyped
<1>6. LatestList(CourseList)' = Without(listed, c) BY <1>2, <1>4, GrownLatest, KeysTyped
<1> QED BY <1>1, <1>2, <1>3, <1>5, <1>6

LEMMA OwnListsKept ==
  ASSUME CoursewareStore, CourseInv, CourseInv', FloorsKept, AllThere, OwnLists,
         NEW t \in Threads, StepKind(t)
  PROVE  OwnLists'
<1> SUFFICES ASSUME NEW u \in Threads
             PROVE  \/ Len(versions'[EnrollmentsOf(u)]) = 1
                    \/ floor'[u][EnrollmentsOf(u)] = Len(versions'[EnrollmentsOf(u)])
  BY DEF OwnLists
<1>1. /\ u \in Students /\ u \in Sessions /\ t \in Students /\ t \in Sessions
      /\ cs101 \in Courses /\ hs201 \in Courses /\ EnrollmentsOf(u) \in Keys
  BY FixedIds, KeysTyped
<1>2. CASE versions'[EnrollmentsOf(u)] = versions[EnrollmentsOf(u)]
  <2> DEFINE k == EnrollmentsOf(u)
  <2>1. /\ floor[u][k] <= floor'[u][k] /\ floor'[u][k] <= Len(versions'[k])
        /\ floor[u][k] \in Nat /\ floor'[u][k] \in Nat /\ Len(versions'[k]) \in Nat
    BY <1>1, VersionsTyped DEF FloorsKept, CourseInv, StoreSound, FloorsBounded, StoreTypeOK
  <2>2. Len(versions[k]) = 1 \/ floor[u][k] = Len(versions[k]) BY DEF OwnLists
  <2> HIDE DEF k
  <2>3. CASE Len(versions[k]) = 1 BY <1>2, <2>3 DEF k
  <2>4. CASE floor[u][k] = Len(versions[k])
    <3>1. versions'[k] = versions[k] BY <1>2 DEF k
    <3>2. floor[u][k] = Len(versions'[k]) BY <2>4, <3>1
    <3>3. floor'[u][k] = Len(versions'[k]) BY <2>1, <3>2
    <3> QED BY <3>3 DEF k
  <2> QED BY <2>2, <2>3, <2>4
<1>3. ASSUME NEW c \in Courses, SeatTaken(t, t, c)
      PROVE  \/ versions'[EnrollmentsOf(u)] = versions[EnrollmentsOf(u)]
             \/ floor'[u][EnrollmentsOf(u)] = Len(versions'[EnrollmentsOf(u)])
  BY <1>1, <1>3, SeatTakenLists
<1>4. CASE t = 2 /\ CourseRemoved(t, hs201)
  <2>1. versions'[EnrollmentsOf(u)] = versions[EnrollmentsOf(u)]
    BY <1>1, <1>4, CourseRemovedLists
  <2> QED BY <1>2, <2>1
<1>5. CASE ListsAlone
  <2>1. versions'[EnrollmentsOf(u)] = versions[EnrollmentsOf(u)] BY <1>1, <1>5 DEF ListsAlone
  <2> QED BY <1>2, <2>1
<1> QED BY <1>1, <1>2, <1>3, <1>4, <1>5 DEF StepKind

\* Nobody who was told of a course is told otherwise.
LEMMA ToldKept ==
  ASSUME CoursewareStore, CourseInv, AllThere, OwnLists, NEW t \in Threads, StepKind(t),
         NEW u \in Threads, NEW c
  PROVE  Told(u, c) => Told(u, c)'
<1>1. /\ u \in Students /\ t \in Students /\ t \in Sessions
      /\ cs101 \in Courses /\ hs201 \in Courses
  BY FixedIds, KeysTyped
<1>2. CASE versions'[EnrollmentsOf(u)] = versions[EnrollmentsOf(u)]
  BY <1>2, KeptLatest DEF Told
<1>3. ASSUME NEW d \in Courses, SeatTaken(t, t, d) PROVE Told(u, c) => Told(u, c)'
  <2>1. CASE u # t
    <3>1. versions'[EnrollmentsOf(u)] = versions[EnrollmentsOf(u)]
      BY <1>1, <1>3, <2>1, SeatTakenLists
    <3> QED BY <1>2, <3>1
  <2>2. CASE u = t
    <3>1. LatestList(EnrollmentsOf(u))' = Append(LatestList(EnrollmentsOf(u)), d)
      BY <1>3, <2>2, SeatTakenLists
    <3>2. LatestList(EnrollmentsOf(u)) \in Seq(Ids) /\ d \in Ids
      BY <1>1, LatestTyped, KeysTyped, FixedIds
    <3> QED BY <3>1, <3>2, HoldsAppend DEF Told
  <2> QED BY <2>1, <2>2
<1>4. CASE CourseRemoved(t, hs201)
  <2>1. versions'[EnrollmentsOf(u)] = versions[EnrollmentsOf(u)]
    BY <1>1, <1>4, CourseRemovedLists
  <2> QED BY <1>2, <2>1
<1>5. CASE ListsAlone
  <2>1. versions'[EnrollmentsOf(u)] = versions[EnrollmentsOf(u)] BY <1>1, <1>5 DEF ListsAlone
  <2> QED BY <1>2, <2>1
<1> QED BY <1>1, <1>3, <1>4, <1>5 DEF StepKind

\* What is listed in a list that may be read was listed before.
LEMMA ReadIsListed ==
  ASSUME NEW s, NEW c, NEW in, MayRead(s, EnrollmentsIn(c), in), NEW x, Holds(in, x)
  PROVE  ListedIn(c, x)
<1>1. CASE Present(EnrollmentsIn(c)) BY <1>1 DEF MayRead, Visible, ListedIn
<1>2. CASE ~ Present(EnrollmentsIn(c))
  <2>1. in = <<>> BY <1>2 DEF MayRead
  <2> QED BY <2>1 DEF Holds
<1> QED BY <1>1, <1>2

LEMMA ListedKept ==
  ASSUME CoursewareStore, CourseInv, AllThere, OwnLists, ListedAreTold,
         NEW t \in Threads, StepKind(t)
  PROVE  ListedAreTold'
<1> SUFFICES ASSUME NEW u \in Threads, NEW d \in Courses, ListedIn(d, u)'
             PROVE  Told(u, d)'
  BY DEF ListedAreTold
<1>1. /\ u \in Students /\ t \in Students /\ t \in Sessions /\ t \in Ids /\ u \in Ids
      /\ cs101 \in Courses /\ hs201 \in Courses /\ EnrollmentsIn(d) \in Keys
  BY FixedIds, KeysTyped
<1>2. ListedIn(d, u) => Told(u, d)' BY ToldKept DEF ListedAreTold
<1>3. CASE versions'[EnrollmentsIn(d)] = versions[EnrollmentsIn(d)]
  <2>1. ListedIn(d, u) BY <1>3 DEF ListedIn
  <2> QED BY <1>2, <2>1
<1>4. ASSUME NEW v \in CoursewareValues, Grows(EnrollmentsIn(d), v)
      PROVE  ListedIn(d, u) \/ Holds(v.list, u)
  BY <1>1, <1>4, GrownLatest DEF ListedIn
<1>5. ASSUME NEW c \in Courses, SeatTaken(t, t, c) PROVE Told(u, d)'
  <2>1. CASE d # c
    <3>1. versions'[EnrollmentsIn(d)] = versions[EnrollmentsIn(d)]
      BY <1>5, <2>1, SeatTakenLists
    <3> QED BY <1>3, <3>1
  <2>2. CASE d = c
    <3>1. PICK in \in Seq(Ids) : /\ Grows(EnrollmentsIn(d), List(Append(in, t)))
                                 /\ MayRead(t, EnrollmentsIn(d), in)
      BY <1>5, <2>2, SeatTakenLists
    <3>2. /\ List(Append(in, t)) \in CoursewareValues
          /\ List(Append(in, t)).list = Append(in, t)
      BY <1>1, <3>1, SeatsTyped
    <3>3. ListedIn(d, u) \/ Holds(Append(in, t), u) BY <1>4, <3>1, <3>2
    <3>4. Holds(Append(in, t), u) => u = t \/ Holds(in, u) BY <1>1, <3>1, HoldsAppend
    <3>5. CASE u = t
      <4>1. LatestList(EnrollmentsOf(u))' = Append(LatestList(EnrollmentsOf(u)), d)
        BY <1>5, <2>2, <3>5, SeatTakenLists
      <4>2. LatestList(EnrollmentsOf(u)) \in Seq(Ids) /\ d \in Ids
        BY <1>1, LatestTyped, KeysTyped, FixedIds
      <4> QED BY <4>1, <4>2, HoldsAppend DEF Told
    <3>6. CASE Holds(in, u)
      <4>1. ListedIn(d, u) BY <3>1, <3>6, ReadIsListed
      <4> QED BY <1>2, <4>1
    <3> QED BY <1>2, <3>3, <3>4, <3>5, <3>6
  <2> QED BY <2>1, <2>2
<1>6. CASE CourseRemoved(t, hs201)
  <2>1. CASE d # hs201
    <3>1. versions'[EnrollmentsIn(d)] = versions[EnrollmentsIn(d)]
      BY <1>1, <1>6, <2>1, CourseRemovedLists
    <3> QED BY <1>3, <3>1
  <2>2. CASE d = hs201
    <3>1. Grows(EnrollmentsIn(d), List(<<>>)) BY <1>1, <1>6, <2>2, CourseRemovedLists
    <3>2. List(<<>>) \in CoursewareValues /\ List(<<>>).list = <<>>
      <4>1. <<>> \in Seq(Ids) OBVIOUS
      <4> QED BY <4>1, ValuesTyped
    <3>3. ListedIn(d, u) \/ Holds(<<>>, u) BY <1>4, <3>1, <3>2
    <3>4. ~ Holds(<<>>, u) BY DEF Holds
    <3> QED BY <1>2, <3>3, <3>4
  <2> QED BY <2>1, <2>2
<1>7. CASE ListsAlone
  <2>1. versions'[EnrollmentsIn(d)] = versions[EnrollmentsIn(d)] BY <1>7 DEF ListsAlone
  <2> QED BY <1>3, <2>1
<1> QED BY <1>1, <1>5, <1>6, <1>7 DEF StepKind

\* A thread that has one call less to make, and the other one as many as before.
OneCallLess(t) ==
  /\ Len(todo'[t]) = Len(todo[t]) - 1 /\ \A u \in Threads : Len(todo[u]) \in 0 .. 4
  /\ \A u \in Threads \ {t} : todo'[u] = todo[u]

LEMMA StaysKept ==
  ASSUME CoursewareStore, CourseInv, CourseInv', FloorsKept, AllThere, OwnLists, StaysListed,
         NEW t \in Threads, StepKind(t), OneCallLess(t)
  PROVE  StaysListed'
<1> DEFINE k == EnrollmentsIn(hs201)
<1> SUFFICES ASSUME Len(todo'[2]) <= 1,
                    NEW i \in DOMAIN versions'[k],
                    i >= floor'[2][k], Holds(versions'[k][i].list, DK)
             PROVE  Holds(LatestList(k)', DK)
  BY DEF StaysListed
<1>1. /\ 2 \in Sessions /\ 2 \in Threads /\ 1 \in Threads /\ t \in Sessions /\ t \in Ids
      /\ cs101 \in Courses /\ hs201 \in Courses /\ k \in Keys /\ cs101 # hs201
  BY FixedIds, KeysTyped DEF Threads
<1>2. /\ floor[2][k] <= floor'[2][k] /\ floor[2][k] \in Nat /\ floor'[2][k] \in Nat
      /\ Len(versions[k]) \in Nat /\ i \in Nat
      /\ DOMAIN versions[k] = 1 .. Len(versions[k])
      /\ DOMAIN versions'[k] = 1 .. Len(versions'[k])
  BY <1>1, VersionsTyped DEF FloorsKept, CourseInv, StoreSound, StoreTypeOK
<1>3. t = 1 \/ t = 2 BY DEF Threads
<1>9. Len(todo[2]) <= 1 \/ (t = 2 /\ Len(todo[t]) = 2)
  <2>1. CASE t = 1
    <3>1. todo'[2] = todo[2] BY <1>1, <2>1 DEF OneCallLess
    <3> QED BY <3>1
  <2>2. CASE t = 2
    <3>1. PICK n \in 0 .. 4 : n = Len(todo[2]) BY <1>1 DEF OneCallLess
    <3>2. n - 1 <= 1 BY <2>2, <3>1 DEF OneCallLess
    <3>3. n <= 1 \/ n = 2 BY <3>2
    <3>4. Len(todo[t]) = n BY <2>2, <3>1
    <3> QED BY <2>2, <3>1, <3>3, <3>4
  <2> QED BY <1>3, <2>1, <2>2
<1>4. CASE Len(todo[2]) <= 1 /\ versions'[k] = versions[k]
  <2>1. i >= floor[2][k] BY <1>2
  <2>2. Holds(LatestList(k), DK) BY <1>4, <2>1 DEF StaysListed
  <2> QED BY <1>4, <2>2, KeptLatest
<1>5. CASE ListsAlone /\ (t = 2 => Len(todo[t]) # 2)
  <2>1. Len(todo[2]) <= 1 BY <1>5, <1>9
  <2>2. versions'[k] = versions[k] BY <1>1, <1>5 DEF ListsAlone
  <2> QED BY <1>4, <2>1, <2>2
<1>6. CASE Len(todo[t]) = 4 /\ SeatTaken(t, t, cs101)
  <2>1. Len(todo[t]) # 2 BY <1>6
  <2>3. Len(todo[2]) <= 1 BY <2>1, <1>9
  <2>2. versions'[k] = versions[k] BY <1>1, <1>6, SeatTakenLists
  <2> QED BY <1>4, <2>2, <2>3
<1>7. CASE t = 1 /\ SeatTaken(t, t, hs201)
  <2>1. PICK in \in Seq(Ids) : Grows(k, List(Append(in, t))) BY <1>1, <1>7, SeatTakenLists
  <2>2. List(Append(in, t)) \in CoursewareValues /\ List(Append(in, t)).list = Append(in, t)
    BY <1>1, <2>1, SeatsTyped
  <2>3. LatestList(k)' = Append(in, t) BY <1>1, <2>1, <2>2, GrownLatest
  <2>4. Holds(Append(in, t), t) BY <1>1, <2>1, HoldsAppend
  <2> QED BY <1>7, <2>3, <2>4 DEF DK
<1>8. CASE t = 2 /\ CourseRemoved(t, hs201)
  <2>1. Grows(k, List(<<>>)) /\ floor'[2][k] = Len(versions[k]) + 1
    BY <1>1, <1>8, CourseRemovedLists
  <2>2. List(<<>>) \in CoursewareValues /\ List(<<>>).list = <<>>
    <3>1. <<>> \in Seq(Ids) OBVIOUS
    <3> QED BY <3>1, ValuesTyped
  <2>3. /\ DOMAIN versions'[k] = DOMAIN versions[k] \cup {Len(versions[k]) + 1}
        /\ versions'[k][Len(versions[k]) + 1] = List(<<>>)
    BY <1>1, <2>1, <2>2, GrownLatest
  <2>4. i = Len(versions[k]) + 1 BY <1>2, <2>1, <2>3
  <2>5. Holds(<<>>, DK) BY <2>2, <2>3, <2>4
  <2> QED BY <2>5 DEF Holds
<1> QED BY <1>5, <1>6, <1>7, <1>8 DEF StepKind

LEMMA AllThereKept ==
  ASSUME CoursewareStore, CourseInv, CourseInv', VersionsKept, AllThere
  PROVE  AllThere'
<1>1. FixedKeys \subseteq Keys BY KeysTyped, FixedIds DEF FixedKeys
<1> SUFFICES ASSUME NEW k \in FixedKeys PROVE Present(k)'
  BY DEF AllThere, FixedKeys
<1>2. k \in Keys /\ Present(k) BY <1>1 DEF AllThere
<1>3. Len(versions[k]) > 0 /\ Len(versions[k]) \in Nat
  BY <1>2, VersionsTyped DEF CourseInv, StoreSound
<1>4. Len(versions[k]) <= Len(versions'[k]) BY <1>2 DEF VersionsKept
<1>5. versions'[k] \in Seq(Values) BY <1>2 DEF CourseInv, StoreSound, StoreTypeOK
<1>6. Len(versions'[k]) > 0 BY <1>3, <1>4, <1>5
<1> QED BY <1>5, <1>6 DEF Present

LEMMA EnrollmentsShow ==
  ASSUME NEW t
  PROVE  \A c : /\ c \in DOMAIN Enrollments(t) <=> Holds(ReadHere(t, CourseList), c)
                /\ c \in DOMAIN Enrollments(t) => Enrollments(t)[c] = ReadHere(t, EnrollmentsIn(c))
  BY DEF Enrollments, Holds

\* What a step of thread t does to what the threads have still to do and have been shown.
RunStep(t) ==
  /\ RunCase(t) /\ StepKind(t) /\ OneCallLess(t)
  /\ \A u \in Threads \ {t} : shown'[u] = shown[u]

\* The reads of the threads, as n calls were left to thread u.
ReadsFirst(u) == Len(todo[u]) = 3 /\ GetEnrollments(u) /\ shown'[u] = <<Enrollments(u)>>
ReadsSecond(u) ==
  /\ Len(todo[u]) = 1
  /\ \/ u = 1 /\ GetEnrollments(u) /\ shown'[u] = <<shown[u][1], Enrollments(u)>>
     \/ /\ u = 2 /\ GetEnrolledStudents(u, hs201)
        /\ shown'[u] = <<shown[u][1], ReadHere(u, EnrollmentsIn(hs201))>>

LEMMA FirstShown ==
  ASSUME NEW t \in Threads, RunStep(t), NEW u \in Threads, Len(todo'[u]) <= 2
  PROVE  \/ Len(todo[u]) <= 2 /\ shown'[u][1] = shown[u][1]
         \/ u = t /\ ReadsFirst(u)
<1>1. CASE u # t BY <1>1 DEF RunStep, OneCallLess
<1>2. CASE u = t
  <2>1. PICK n \in 0 .. 4 : n = Len(todo[u]) BY DEF RunStep, OneCallLess
  <2>2. n - 1 <= 2 BY <1>2, <2>1 DEF RunStep, OneCallLess
  <2>3. n \in {0, 1, 2, 3} BY <2>2
  <2>4. \A a, b : <<a, b>>[1] = a OBVIOUS
  <2>5. RunCase(u) BY <1>2 DEF RunStep
  <2>6. CASE n = 1
    <3>1. shown'[u][1] = shown[u][1] BY <2>1, <2>4, <2>5, <2>6 DEF RunCase
    <3> QED BY <2>1, <2>6, <3>1
  <2>7. CASE n = 2
    <3>1. shown' = shown BY <2>1, <2>5, <2>7 DEF RunCase
    <3> QED BY <2>1, <2>7, <3>1
  <2>8. CASE n = 3 BY <1>2, <2>1, <2>5, <2>8 DEF RunCase, ReadsFirst
  <2>9. CASE n = 0 BY <2>1, <2>5, <2>9 DEF RunCase
  <2> QED BY <2>3, <2>6, <2>7, <2>8, <2>9
<1> QED BY <1>1, <1>2

LEMMA SecondShown ==
  ASSUME NEW t \in Threads, RunStep(t), NEW u \in Threads, Len(todo'[u]) = 0
  PROVE  \/ Len(todo[u]) = 0 /\ shown'[u] = shown[u] /\ u # t
         \/ u = t /\ ReadsSecond(u)
<1>1. CASE u # t BY <1>1 DEF RunStep, OneCallLess
<1>2. CASE u = t
  <2>1. PICK n \in 0 .. 4 : n = Len(todo[u]) BY DEF RunStep, OneCallLess
  <2>2. n - 1 = 0 BY <1>2, <2>1 DEF RunStep, OneCallLess
  <2>3. Len(todo[u]) = 1 BY <2>1, <2>2
  <2> QED BY <1>2, <2>3 DEF RunStep, RunCase, ReadsSecond
<1> QED BY <1>1, <1>2

\* The only student of the fixed program who enrolls in hs201 is DK.
LEMMA HeldKept ==
  ASSUME CoursewareStore, CourseInv, AllThere, OwnLists, StepKind(1),
         Holds(LatestList(EnrollmentsIn(hs201)), DK)
  PROVE  Holds(LatestList(EnrollmentsIn(hs201))', DK)
<1> DEFINE k == EnrollmentsIn(hs201)
<1>1. /\ 1 \in Threads /\ 1 \in Sessions /\ 1 \in Ids
      /\ cs101 \in Courses /\ hs201 \in Courses /\ k \in Keys /\ cs101 # hs201
  BY FixedIds, KeysTyped DEF Threads
<1>2. CASE versions'[k] = versions[k] BY <1>2, KeptLatest
<1>3. CASE ListsAlone
  <2>1. versions'[k] = versions[k] BY <1>1, <1>3 DEF ListsAlone
  <2> QED BY <1>2, <2>1
<1>4. CASE SeatTaken(1, 1, cs101)
  <2>1. versions'[k] = versions[k] BY <1>1, <1>4, SeatTakenLists
  <2> QED BY <1>2, <2>1
<1>5. CASE SeatTaken(1, 1, hs201)
  <2>1. PICK in \in Seq(Ids) : Grows(k, List(Append(in, 1))) BY <1>1, <1>5, SeatTakenLists
  <2>2. List(Append(in, 1)) \in CoursewareValues /\ List(Append(in, 1)).list = Append(in, 1)
    BY <1>1, <2>1, SeatsTyped
  <2>3. LatestList(k)' = Append(in, 1) BY <1>1, <2>1, <2>2, GrownLatest
  <2>4. Holds(Append(in, 1), 1) BY <1>1, <2>1, HoldsAppend
  <2> QED BY <2>3, <2>4 DEF DK
<1> QED BY <1>3, <1>4, <1>5 DEF StepKind

LEMMA ShownKept ==
  ASSUME CoursewareStore, CourseInv, CourseInv', AllThere, OwnLists, ListedAreTold, StaysListed,
         ShownAreReal, NEW t \in Threads, RunStep(t)
  PROVE  ShownAreReal'
<1>1. /\ cs101 \in Courses /\ hs201 \in Courses /\ DK \in Threads
      /\ \A u \in Threads : u \in Sessions /\ u \in Students
  BY FixedIds
<1>2. StepKind(t) BY DEF RunStep
<1>3. ASSUME NEW u \in Threads, Len(todo'[u]) <= 2, IsListed(u, cs101, shown'[u][1]) = 1
      PROVE  Told(u, cs101)'
  <2>1. Told(u, cs101) => Told(u, cs101)' BY <1>2, ToldKept
  <2>2. CASE Len(todo[u]) <= 2 /\ shown'[u][1] = shown[u][1]
    BY <1>3, <2>1, <2>2 DEF ShownAreReal
  <2>3. CASE ReadsFirst(u)
    <3>1. PICK e : e = Enrollments(u) OBVIOUS
    <3>2. \A a : <<a>>[1] = a OBVIOUS
    <3>3. shown'[u][1] = e BY <2>3, <3>1, <3>2 DEF ReadsFirst
    <3>4. cs101 \in DOMAIN e /\ Holds(e[cs101], u) BY <1>3, <3>3 DEF IsListed
    <3>5. /\ Holds(ReadHere(u, CourseList), cs101)
          /\ e[cs101] = ReadHere(u, EnrollmentsIn(cs101))
      BY <3>1, <3>4, EnrollmentsShow
    <3>6. MayRead(u, EnrollmentsIn(cs101), e[cs101])
      BY <1>1, <2>3, <3>5, OverviewEffect DEF ReadsFirst
    <3>7. ListedIn(cs101, u) BY <3>4, <3>6, ReadIsListed
    <3> QED BY <1>1, <2>1, <3>7 DEF ListedAreTold
  <2> QED BY <1>3, <2>2, <2>3, FirstShown
<1>4. ASSUME Len(todo'[2]) = 0, Occurrences(shown'[2][2], DK) = 1
      PROVE  Told(DK, hs201)' /\ Holds(LatestList(EnrollmentsIn(hs201))', DK)
  <2>1. Told(DK, hs201) => Told(DK, hs201)' BY <1>1, <1>2, ToldKept
  <2>2. 2 \in Threads /\ (t # 2 => t = 1) BY DEF Threads
  <2>3. CASE Len(todo[2]) = 0 /\ shown'[2] = shown[2] /\ 2 # t
    <3>1. Told(DK, hs201) /\ Holds(LatestList(EnrollmentsIn(hs201)), DK)
      BY <1>4, <2>3 DEF ShownAreReal
    <3>2. StepKind(1) BY <1>2, <2>2, <2>3
    <3> QED BY <2>1, <3>1, <3>2, HeldKept
  <2>4. CASE ReadsSecond(2)
    <3> DEFINE k == EnrollmentsIn(hs201)
    <3>1. /\ GetEnrolledStudents(2, hs201) /\ Len(todo[2]) = 1
          /\ shown'[2] = <<shown[2][1], ReadHere(2, k)>>
      BY <2>4 DEF ReadsSecond
    <3>2. PICK l : l = ReadHere(2, k) OBVIOUS
    <3>3. \A a, b : <<a, b>>[2] = b OBVIOUS
    <3>4. shown'[2][2] = l BY <3>1, <3>2, <3>3
    <3>5. Holds(l, DK)
      <4> SUFFICES ASSUME ~ Holds(l, DK) PROVE FALSE
        OBVIOUS
      <4>1. {i \in DOMAIN l : l[i] = DK} = {} BY DEF Holds
      <4>2. Occurrences(l, DK) = 0 BY <4>1, FS_EmptySet DEF Occurrences
      <4> QED BY <1>4, <3>4, <4>2
    <3>6. OnlyAt({}) /\ MayRead(2, k, l) BY <1>1, <2>2, <3>1, <3>2, ListingEffect
    <3>7. Present(k) /\ k \in Keys BY <1>1, FixedPresent, KeysTyped
    <3>8. PICK i \in Visible(2, k) : l = versions[k][i].list BY <3>6, <3>7 DEF MayRead
    <3>9. i \in DOMAIN versions[k] /\ floor[2][k] <= i /\ i \in Nat /\ floor[2][k] \in Nat
      BY <1>1, <2>2, <3>7, <3>8, VisibleAboveFloor, VersionsTyped DEF CourseInv, StoreSound
    <3>10. Len(todo[2]) <= 1 BY <3>1
    <3>11. i >= floor[2][k] BY <3>9
    <3>12. Holds(LatestList(k), DK) BY <3>5, <3>8, <3>9, <3>10, <3>11 DEF StaysListed
    <3>13. ListedIn(hs201, DK) BY <3>5, <3>6, ReadIsListed
    <3>14. Told(DK, hs201) BY <1>1, <3>13 DEF ListedAreTold
    <3>15. versions'[k] = versions[k] BY <3>6, <3>7 DEF OnlyAt
    <3>16. LatestList(k)' = LatestList(k) BY <3>15, KeptLatest
    <3> QED BY <2>1, <3>12, <3>14, <3>16
  <2> QED BY <1>4, <2>2, <2>3, <2>4, SecondShown
<1> QED BY <1>3, <1>4 DEF ShownAreReal

RecordsInv ==
  AtPoint /\ AllThere /\ OwnLists /\ ListedAreTold /\ StaysListed /\ ShownAreReal

\* While do_op runs.
FixedRunInv == CourseInv /\ (client.run = "fixed" => RecordsInv)

LEMMA FixedStart ==
  ASSUME RunInit, client.run = "fixed"
  PROVE  AtPoint /\ \A t \in Threads : Len(todo[t]) = 4 /\ shown[t] = <<>>
<1>1. todo = Fixed /\ shown = [t \in Threads |-> <<>>] BY DEF RunInit, Programs
<1>2. ASSUME NEW t \in Threads
      PROVE  Fixed[t] = <<EnrollCall(t, cs101), EnrollmentsCall, Third(t), Fourth(t)>>
  <2>1. CASE t = 1 BY <2>1 DEF Fixed, Threads, Third, Fourth, DK
  <2>2. CASE t = 2 BY <2>2 DEF Fixed, Threads, Third, Fourth, JV
  <2> QED BY <2>1, <2>2 DEF Threads
<1>3. ASSUME NEW t \in Threads
      PROVE  Fixed[t] \in Left(t) /\ Len(Fixed[t]) = 4
  <2>1. Fixed[t] \in Left(t) BY <1>2 DEF Left
  <2>2. \A a, b, c, d : Len(<<a, b, c, d>>) = 4 OBVIOUS
  <2> QED BY <1>2, <2>1, <2>2
<1>4. Fixed = [t \in Threads |-> Fixed[t]] BY DEF Fixed
<1>5. \A t \in Threads : todo[t] = Fixed[t] /\ shown[t] = <<>> BY <1>1
<1>6. \A t \in Threads : todo[t] \in Left(t) /\ Len(todo[t]) = 4 BY <1>3, <1>5
<1>7. \A t \in Threads : ShownBy(Len(todo[t]), shown[t]) BY <1>5, <1>6 DEF ShownBy
<1>8. /\ todo = [t \in Threads |-> todo[t]] /\ shown = [t \in Threads |-> shown[t]]
  BY <1>1, <1>4
<1> QED BY <1>5, <1>6, <1>7, <1>8 DEF AtPoint

LEMMA RecordsStart ==
  ASSUME CoursewareStore, CoursesAsMade, RunInit, client.run = "fixed"
  PROVE  RecordsInv
<1>1. Init /\ AtPoint /\ \A t \in Threads : Len(todo[t]) = 4 BY FixedStart DEF RunInit
<1> DEFINE n == client.students
           m == client.courses
<1>2. n >= 2 /\ m >= 2 BY <1>1 DEF CoursesAsMade, Init
<1>3. /\ n \in Nat /\ m \in Nat /\ m <= NumCourses
      /\ versions[CourseList] = Counting(m)
      /\ \A x \in Students :
           /\ versions[Student(x)] = IF x <= n THEN <<Details("true")>> ELSE <<>>
           /\ versions[EnrollmentsOf(x)] = IF x <= n THEN <<List(<<>>)>> ELSE <<>>
      /\ \A c \in Courses :
           /\ versions[Course(c)] = IF c <= m THEN <<Details("close"), Details("open")>> ELSE <<>>
           /\ versions[EnrollmentsIn(c)] = IF c <= m THEN <<List(<<>>)>> ELSE <<>>
  BY <1>1, PopulatedRecords
<1> HIDE DEF n, m
<1>4. \A t \in Threads : t \in Students /\ t <= n BY <1>2, <1>3, FixedIds
<1>5. \A c \in {cs101, hs201} : c \in Courses /\ c <= m BY <1>2, <1>3, FixedIds DEF cs101, hs201
<1>6. /\ \A t \in Threads : /\ versions[Student(t)] = <<Details("true")>>
                            /\ versions[EnrollmentsOf(t)] = <<List(<<>>)>>
      /\ \A c \in {cs101, hs201} : /\ versions[Course(c)] = <<Details("close"), Details("open")>>
                                   /\ versions[EnrollmentsIn(c)] = <<List(<<>>)>>
  BY <1>3, <1>4, <1>5
<1>7. /\ \A a : <<a>> # <<>> /\ Len(<<a>>) = 1
      /\ \A a, b : <<a, b>> # <<>>
  OBVIOUS
<1>8. Counting(m) # <<>>
  <2>1. NumCourses \in Nat BY CoursewareAssumption
  <2>2. DOMAIN Counting(m) = 1 .. m BY <1>3, <2>1, CountingTyped
  <2>3. 1 \in 1 .. m BY <1>2, <1>3
  <2>4. DOMAIN <<>> = {} OBVIOUS
  <2> QED BY <2>2, <2>3, <2>4
<1>9. AllThere BY <1>3, <1>6, <1>7, <1>8 DEF AllThere, FixedKeys, Present
<1>10. OwnLists BY <1>6, <1>7 DEF OwnLists
<1>11. ListedAreTold
  <2> SUFFICES ASSUME NEW t \in Threads, NEW c \in Courses PROVE ~ ListedIn(c, t)
    BY DEF ListedAreTold
  <2>1. versions[EnrollmentsIn(c)] = <<>> \/ versions[EnrollmentsIn(c)] = <<List(<<>>)>> BY <1>3
  <2>2. \A i \in DOMAIN <<List(<<>>)>> : <<List(<<>>)>>[i] = List(<<>>) OBVIOUS
  <2>3. List(<<>>).list = <<>> BY DEF List
  <2>4. \A i \in DOMAIN versions[EnrollmentsIn(c)] : versions[EnrollmentsIn(c)][i].list = <<>>
    BY <2>1, <2>2, <2>3
  <2> QED BY <2>4 DEF ListedIn, Holds
<1>12. 1 \in Threads /\ 2 \in Threads BY DEF Threads
<1>14. /\ \A t \in Threads : ~ (Len(todo[t]) <= 2) /\ ~ (Len(todo[t]) <= 1) /\ Len(todo[t]) # 0
      /\ 2 \in Threads
  BY <1>1, <1>12
<1>13. StaysListed /\ ShownAreReal BY <1>14 DEF StaysListed, ShownAreReal
<1> QED BY <1>1, <1>9, <1>10, <1>11, <1>13 DEF RecordsInv

\* The steps of the threads while do_op runs.
LEMMA RunStepFacts ==
  ASSUME CoursewareStore, CourseInv, RecordsInv, NEW t \in Threads, Step(t)
  PROVE  /\ RunStep(t) /\ AtPoint' /\ Next
         /\ CourseInv' /\ VersionsKept /\ FloorsKept /\ level' = level /\ client' = client
<1>1. AtPoint /\ AllThere BY DEF RecordsInv
<1>2. /\ RunCase(t) /\ AtPoint' /\ Len(todo'[t]) = Len(todo[t]) - 1
      /\ \A u \in Threads \ {t} : todo'[u] = todo[u] /\ shown'[u] = shown[u]
  BY <1>1, RunCases
<1>3. \A u \in Threads : Len(todo[u]) \in 0 .. 4 BY <1>1, LeftLengths DEF AtPoint
<1>4. RunStep(t) BY <1>1, <1>2, <1>3, StepKinds DEF RunStep, OneCallLess
<1>5. Next
  <2>1. t \in Sessions /\ t \in Students /\ cs101 \in Courses /\ hs201 \in Courses BY FixedIds
  <2>2. GetEnrollments(t) => Next BY <2>1 DEF Next
  <2>3. Enroll(t, t, cs101) \/ Enroll(t, t, hs201) => Next BY <2>1 DEF Next
  <2>4. DeleteCourse(t, hs201) \/ GetEnrolledStudents(t, hs201) => Next BY <2>1 DEF Next
  <2> QED BY <1>2, <2>2, <2>3, <2>4 DEF RunCase
<1> QED BY <1>2, <1>4, <1>5, NextKeeps

LEMMA RecordsStep ==
  ASSUME CoursewareStore, CourseInv, RecordsInv, NEW t \in Threads, Step(t)
  PROVE  RecordsInv'
<1>1. /\ RunStep(t) /\ AtPoint' /\ CourseInv' /\ VersionsKept /\ FloorsKept
  BY RunStepFacts
<1>2. AllThere /\ OwnLists /\ ListedAreTold /\ StaysListed /\ ShownAreReal BY DEF RecordsInv
<1>3. StepKind(t) /\ OneCallLess(t) BY <1>1 DEF RunStep
<1>4. AllThere' BY <1>1, <1>2, AllThereKept
<1>5. OwnLists' BY <1>1, <1>2, <1>3, OwnListsKept
<1>6. ListedAreTold' BY <1>2, <1>3, ListedKept
<1>7. StaysListed' BY <1>1, <1>2, <1>3, StaysKept
<1>8. ShownAreReal' BY <1>1, <1>2, ShownKept
<1> QED BY <1>1, <1>4, <1>5, <1>6, <1>7, <1>8 DEF RecordsInv

LEMMA RecordsStutter ==
  ASSUME RecordsInv, UNCHANGED runVars
  PROVE  RecordsInv'
<1>1. versions' = versions /\ floor' = floor /\ todo' = todo /\ shown' = shown
  BY DEF runVars, vars, storeVars
<1>2. AtPoint' BY <1>1 DEF RecordsInv, AtPoint
<1>3. AllThere' BY <1>1 DEF RecordsInv, AllThere, Present
<1>4. OwnLists' BY <1>1 DEF RecordsInv, OwnLists
<1>5. \A k : LatestList(k)' = LatestList(k) BY <1>1, KeptLatest
<1>6. ListedAreTold' BY <1>1, <1>5 DEF RecordsInv, ListedAreTold, ListedIn, Told
<1>7. StaysListed' BY <1>1, <1>5 DEF RecordsInv, StaysListed
<1>8. ShownAreReal' BY <1>1, <1>5 DEF RecordsInv, ShownAreReal, Told
<1> QED BY <1>2, <1>3, <1>4, <1>6, <1>7, <1>8 DEF RecordsInv

LEMMA RunKeeps ==
  ASSUME CoursewareStore, CourseInv, TodoOK, [RunNext]_runVars
  PROVE  CourseInv' /\ client' = client /\ level' = level
<1>1. [Next]_vars BY ProgramStep
<1>2. CourseInv' BY <1>1, CourseInvStep
<1>3. CASE Next BY <1>2, <1>3, LevelAndClientKept
<1>4. CASE UNCHANGED vars BY <1>2, <1>4 DEF vars, storeVars, appVars
<1> QED BY <1>1, <1>3, <1>4

\* The inductive invariant of do_op at every level: where the two threads stand, that
\* a student's own list names every course whose list has ever named the student, and
\* that what the reads of the threads have shown is still so.
THEOREM FixedRunInvariant ==
  ASSUME CoursewareStore, CoursesAsMade PROVE RunSpec => []FixedRunInv
<1>1. RunInit => FixedRunInv
  <2>1. RunInit => CourseInv BY CourseInvInit DEF RunInit
  <2> QED BY <2>1, RecordsStart DEF FixedRunInv
<1>2. FixedRunInv /\ TodoOK /\ [RunNext]_runVars => FixedRunInv'
  <2> SUFFICES ASSUME FixedRunInv, TodoOK, [RunNext]_runVars PROVE FixedRunInv'
    OBVIOUS
  <2>1. CourseInv BY DEF FixedRunInv
  <2>2. CourseInv' /\ client' = client BY <2>1, RunKeeps
  <2>3. ASSUME client'.run = "fixed" PROVE RecordsInv'
    <3>1. RecordsInv BY <2>2, <2>3 DEF FixedRunInv
    <3>2. ~ AnyStep BY <2>2, <2>3 DEF AnyStep
    <3>3. CASE UNCHANGED runVars BY <3>1, <3>3, RecordsStutter
    <3>4. ASSUME NEW t \in Threads, Step(t) PROVE RecordsInv'
      BY <2>1, <3>1, <3>4, RecordsStep
    <3> QED BY <3>2, <3>3, <3>4 DEF RunNext
  <2> QED BY <2>2, <2>3 DEF FixedRunInv
<1>3. RunInit => TodoOK BY ProgramsTyped
<1>4. TodoOK /\ [RunNext]_runVars => TodoOK' BY ProgramStep
<1> QED BY <1>1, <1>2, <1>3, <1>4, PTL DEF RunSpec

\* What main counts has happened, at every level: when both students found themselves
\* in cs101, more students are told that they are enrolled than there are seats, and
\* DK, when seen in the removed hs201, is told of it and still in its list
\* (run_courseware.cpp:21-26, 243-247).
THEOREM CountedHappened ==
  ASSUME CoursewareStore, CoursesAsMade PROVE RunSpec => []CountedIsReal
<1>1. FixedRunInv => CountedIsReal
  <2> SUFFICES ASSUME FixedRunInv, FixedDone
               PROVE  /\ Overflow(Results) => Cardinality(ToldEnrolled(cs101)) > Capacity[cs101]
                      /\ RemovedRegister(Results) =>
                           DK \in ToldEnrolled(hs201) /\ Holds(LatestList(EnrollmentsIn(hs201)), DK)
    BY DEF CountedIsReal
  <2>1. /\ AtPoint /\ ShownAreReal /\ \A t \in Threads : todo[t] = <<>>
    BY DEF FixedRunInv, FixedDone, RecordsInv
  <2>2. /\ 1 \in Threads /\ 2 \in Threads /\ \A t \in Threads : t \in Students
    BY FixedIds DEF Threads
  <2>3. Len(todo[1]) = 0 /\ Len(todo[2]) = 0
    <3>1. Len(<<>>) = 0 OBVIOUS
    <3> QED BY <2>1, <2>2, <3>1
  <2>4. /\ Results[1] = IsListed(DK, cs101, shown[1][1])
        /\ Results[3] = IsListed(JV, cs101, shown[2][1])
        /\ Results[4] = Occurrences(shown[2][2], DK)
    <3>1. \A a, b, c, d : /\ <<a, b, c, d>>[1] = a /\ <<a, b, c, d>>[3] = c
                          /\ <<a, b, c, d>>[4] = d
      OBVIOUS
    <3> QED BY <3>1 DEF Results
  <2>5. ASSUME Overflow(Results) PROVE Cardinality(ToldEnrolled(cs101)) > Capacity[cs101]
    <3>1. Told(1, cs101) /\ Told(2, cs101)
      BY <2>1, <2>2, <2>3, <2>4, <2>5 DEF Overflow, ShownAreReal, DK, JV
    <3>2. {1, 2} \subseteq ToldEnrolled(cs101) BY <2>2, <3>1 DEF ToldEnrolled, Told
    <3>3. IsFiniteSet(ToldEnrolled(cs101))
      <4>1. NumStudents \in Nat /\ 1 \in Nat BY CoursewareAssumption
      <4>2. IsFiniteSet(Students) BY <4>1, FS_Interval DEF Students
      <4>3. ToldEnrolled(cs101) \subseteq Students BY DEF ToldEnrolled
      <4> QED BY <4>2, <4>3, FS_Subset
    <3>4. Cardinality({1, 2}) = 2
      <4>1. IsFiniteSet({1}) /\ Cardinality({1}) = 1 BY FS_Singleton
      <4>2. {1, 2} = {1} \cup {2} /\ 2 \notin {1} OBVIOUS
      <4>3. Cardinality({1} \cup {2}) = Cardinality({1}) + 1 BY <4>1, <4>2, FS_AddElement
      <4> QED BY <4>1, <4>2, <4>3
    <3>5. /\ Cardinality({1, 2}) <= Cardinality(ToldEnrolled(cs101))
          /\ Cardinality(ToldEnrolled(cs101)) \in Nat
      BY <3>2, <3>3, FS_Subset, FS_CardinalityType
    <3>6. Capacity[cs101] = 1 BY DEF CoursesAsMade
    <3> QED BY <3>4, <3>5, <3>6
  <2>6. ASSUME RemovedRegister(Results)
        PROVE  DK \in ToldEnrolled(hs201) /\ Holds(LatestList(EnrollmentsIn(hs201)), DK)
    <3>1. Occurrences(shown[2][2], DK) = 1 BY <2>4, <2>6 DEF RemovedRegister
    <3>2. Told(DK, hs201) /\ Holds(LatestList(EnrollmentsIn(hs201)), DK)
      BY <2>1, <2>3, <3>1 DEF ShownAreReal
    <3>3. DK \in Students BY <2>2 DEF DK
    <3> QED BY <3>2, <3>3 DEF ToldEnrolled, Told
  <2> QED BY <2>5, <2>6
<1> QED BY <1>1, FixedRunInvariant, PTL
-----------------------------------------------------------------------------
(* What the programs keep on a linearizable store *)

LEMMA LinearMayRead ==
  ASSUME CourseInv, level = "linear", NEW s \in Sessions, NEW k \in Keys, NEW l, MayRead(s, k, l)
  PROVE  l = LatestList(k)
<1>1. CASE Present(k)
  <2>1. PICK i \in Visible(s, k) : l = versions[k][i].list BY <1>1 DEF MayRead
  <2>2. i = Len(versions[k]) BY <2>1, VisibleAboveFloor DEF CourseInv
  <2> QED BY <1>1, <2>1, <2>2 DEF LatestList
<1>2. CASE ~ Present(k) BY <1>2 DEF MayRead, LatestList
<1> QED BY <1>1, <1>2

\* What of the records the linear invariant looks at.
OthersKept(c) ==
  /\ \A d \in Courses \ {c} : In(d)' = In(d)
  /\ \A t \in Threads : LatestFlag(Student(t))' = LatestFlag(Student(t))
OffersKept(c) ==
  /\ \A d \in Courses \ {c} : LatestFlag(Course(d))' = LatestFlag(Course(d))
  /\ LatestList(CourseList)' = LatestList(CourseList)

LEMMA QuietKeeps ==
  ASSUME CoursewareStore, NEW c \in Courses, OnlyAt({}) \/ Closes(c)
  PROVE  OthersKept(c) /\ OffersKept(c) /\ In(c)' = In(c)
<1>1. /\ \A d \in Courses : versions'[EnrollmentsIn(d)] = versions[EnrollmentsIn(d)]
      /\ \A d \in Courses \ {c} : versions'[Course(d)] = versions[Course(d)]
      /\ \A x \in Students : versions'[Student(x)] = versions[Student(x)]
      /\ versions'[CourseList] = versions[CourseList]
  BY KeysTyped, KeysDiffer DEF OnlyAt, Closes
<1>2. \A t \in Threads : t \in Students BY FixedIds
<1> QED BY <1>1, <1>2, KeptLatest DEF OthersKept, OffersKept, In

LEMMA NothingKeeps ==
  ASSUME CoursewareStore, OnlyAt({})
  PROVE  /\ \A d \in Courses : In(d)' = In(d) /\ LatestFlag(Course(d))' = LatestFlag(Course(d))
         /\ \A t \in Threads : LatestFlag(Student(t))' = LatestFlag(Student(t))
         /\ LatestList(CourseList)' = LatestList(CourseList)
<1>1. \A k \in Keys : versions'[k] = versions[k] BY DEF OnlyAt
<1>2. \A t \in Threads : t \in Students BY FixedIds
<1> QED BY <1>1, <1>2, KeptLatest, KeysTyped DEF In

LEMMA LinearSeatTaken ==
  ASSUME CoursewareStore, CourseInv, AllThere, OwnLists, level = "linear",
         NEW t \in Threads, NEW c \in Courses, SeatTaken(t, t, c), In(c) = <<>>
  PROVE  /\ OthersKept(c) /\ OffersKept(c) /\ In(c)' = <<t>>
         /\ LatestFlag(Course(c))' = LatestFlag(Course(c))
<1>1. t \in Ids /\ t \in Sessions /\ EnrollmentsIn(c) \in Keys BY FixedIds, KeysTyped
<1>2. /\ \A d \in Courses \ {c} : versions'[EnrollmentsIn(d)] = versions[EnrollmentsIn(d)]
      /\ versions'[CourseList] = versions[CourseList]
      /\ \A d \in Courses : versions'[Course(d)] = versions[Course(d)]
      /\ \A x \in Students : versions'[Student(x)] = versions[Student(x)]
  BY SeatTakenLists
<1>3. PICK in \in Seq(Ids) : /\ Grows(EnrollmentsIn(c), List(Append(in, t)))
                             /\ MayRead(t, EnrollmentsIn(c), in)
  BY SeatTakenLists
<1>4. in = <<>> BY <1>1, <1>3, LinearMayRead DEF In
<1>5. List(Append(in, t)) \in CoursewareValues /\ List(Append(in, t)).list = Append(in, t)
  BY <1>1, <1>3, SeatsTyped
<1>6. In(c)' = Append(in, t) BY <1>1, <1>3, <1>5, GrownLatest DEF In
<1>7. Append(<<>>, t) = <<t>> OBVIOUS
<1>8. \A u \in Threads : u \in Students BY FixedIds
<1>9. OthersKept(c) BY <1>2, <1>8, KeptLatest DEF OthersKept, In
<1>10. OffersKept(c) /\ LatestFlag(Course(c))' = LatestFlag(Course(c))
  BY <1>2, KeptLatest DEF OffersKept
<1> QED BY <1>4, <1>6, <1>7, <1>9, <1>10

\* A step of thread t on a linearizable store.
LinearStep(t) ==
  /\ CoursewareStore /\ CourseInv /\ AllThere /\ OwnLists /\ level = "linear"
  /\ LinearRecords /\ Capacity[cs101] = 1 /\ RunStep(t)

\* The first to enroll in cs101 gets the seat; everything else is left alone.
LEMMA SeatOfCs101 ==
  ASSUME NEW t \in Threads, LinearStep(t), Enroll(t, t, cs101)
  PROVE  /\ OthersKept(cs101) /\ OffersKept(cs101)
         /\ In(cs101)' = IF In(cs101) = <<>> THEN <<t>> ELSE In(cs101)
<1>1. /\ CoursewareStore /\ CourseInv /\ AllThere /\ OwnLists /\ level = "linear"
      /\ LinearRecords /\ Capacity[cs101] = 1
  BY DEF LinearStep
<1>2. t \in Students /\ t \in Sessions /\ cs101 \in Courses BY FixedIds
<1>3. /\ Present(Student(t)) /\ Present(Course(cs101)) /\ LatestFlag(Student(t)) = "true"
  BY <1>1, FixedPresent DEF LinearRecords
<1>4. /\ LatestFlag(Course(cs101)) # "open" => OnlyAt({})
      /\ LatestFlag(Course(cs101)) = "open" =>
           IF Len(In(cs101)) >= Capacity[cs101] THEN Closes(cs101) ELSE SeatTaken(t, t, cs101)
  BY <1>1, <1>2, <1>3, LinearEnroll
<1>5. Len(<<>>) = 0 /\ \A x : Len(<<x>>) = 1 /\ <<x>> # <<>> OBVIOUS
<1>6. CASE In(cs101) = <<>>
  <2>1. LatestFlag(Course(cs101)) = "open" BY <1>1, <1>6 DEF LinearRecords
  <2>2. ~ (Len(In(cs101)) >= Capacity[cs101]) BY <1>1, <1>5, <1>6
  <2>3. SeatTaken(t, t, cs101) BY <1>4, <2>1, <2>2
  <2> QED BY <1>1, <1>2, <1>6, <2>3, LinearSeatTaken
<1>7. CASE In(cs101) # <<>>
  <2>1. Len(In(cs101)) = 1 BY <1>1, <1>5, <1>7 DEF LinearRecords
  <2>2. Len(In(cs101)) >= Capacity[cs101] BY <1>1, <2>1
  <2>3. OnlyAt({}) \/ Closes(cs101) BY <1>4, <2>2
  <2> QED BY <1>1, <1>2, <1>7, <2>3, QuietKeeps
<1> QED BY <1>6, <1>7

\* DK gets a seat of hs201, unless the course is closed or full.
LEMMA SeatOfHs201 ==
  ASSUME LinearStep(1), Enroll(1, 1, hs201), Len(todo[1]) = 2
  PROVE  /\ OthersKept(hs201) /\ OffersKept(hs201)
         /\ In(hs201)' \in {<<>>, <<DK>>}
         /\ LatestFlag(Course(hs201)) # "open" =>
              In(hs201)' = <<>> /\ LatestFlag(Course(hs201))' # "open"
<1>1. /\ CoursewareStore /\ CourseInv /\ AllThere /\ OwnLists /\ level = "linear"
      /\ LinearRecords
  BY DEF LinearStep
<1>2. /\ 1 \in Threads /\ 1 \in Students /\ 1 \in Sessions /\ hs201 \in Courses /\ DK = 1
  BY FixedIds DEF DK
<1>3. Present(Student(1)) /\ Present(Course(hs201)) /\ LatestFlag(Student(1)) = "true"
  BY <1>1, <1>2, FixedPresent DEF LinearRecords
<1>4. /\ LatestFlag(Course(hs201)) # "open" => OnlyAt({})
      /\ LatestFlag(Course(hs201)) = "open" =>
           IF Len(In(hs201)) >= Capacity[hs201] THEN Closes(hs201) ELSE SeatTaken(1, 1, hs201)
  BY <1>1, <1>2, <1>3, LinearEnroll
<1>5. In(hs201) = <<>> BY <1>1 DEF LinearRecords
<1>6. CASE LatestFlag(Course(hs201)) # "open"
  <2>1. OnlyAt({}) BY <1>4, <1>6
  <2> QED BY <1>1, <1>2, <1>5, <1>6, <2>1, QuietKeeps, NothingKeeps
<1>7. CASE LatestFlag(Course(hs201)) = "open"
  <2>1. Closes(hs201) \/ SeatTaken(1, 1, hs201) BY <1>4, <1>7
  <2>2. CASE Closes(hs201) BY <1>1, <1>2, <1>5, <1>7, <2>2, QuietKeeps
  <2>3. CASE SeatTaken(1, 1, hs201)
    BY <1>1, <1>2, <1>5, <1>7, <2>3, LinearSeatTaken
  <2> QED BY <2>1, <2>2, <2>3
<1> QED BY <1>6, <1>7

LEMMA RemovalOfHs201 ==
  ASSUME LinearStep(2), DeleteCourse(2, hs201)
  PROVE  /\ OthersKept(hs201) /\ In(hs201)' = <<>> /\ LatestFlag(Course(hs201))' # "open"
         /\ LatestFlag(Course(cs101))' = LatestFlag(Course(cs101))
         /\ Holds(LatestList(CourseList)', cs101)
<1>1. /\ CoursewareStore /\ CourseInv /\ AllThere /\ level = "linear" /\ LinearRecords
  BY DEF LinearStep
<1>2. /\ 2 \in Threads /\ 2 \in Sessions /\ hs201 \in Courses /\ cs101 \in Courses
      /\ cs101 # hs201 /\ CourseList \in Keys /\ EnrollmentsIn(hs201) \in Keys
  BY <1>1, FixedIds, KeysTyped DEF Threads
<1>3. CourseRemoved(2, hs201) BY <1>1, <1>2, RemovalEffect, FixedPresent
<1>4. /\ Grows(EnrollmentsIn(hs201), List(<<>>))
      /\ \A d \in Courses \ {hs201} : versions'[EnrollmentsIn(d)] = versions[EnrollmentsIn(d)]
      /\ \A d \in Courses \ {hs201} : versions'[Course(d)] = versions[Course(d)]
      /\ \A x \in Students : versions'[Student(x)] = versions[Student(x)]
      /\ LatestFlag(Course(hs201))' = "close"
  BY <1>1, <1>2, <1>3, CourseRemovedLists
<1>5. PICK listed \in Seq(Ids) : /\ MayRead(2, CourseList, listed)
                                 /\ LatestList(CourseList)' = Without(listed, hs201)
  BY <1>1, <1>2, <1>3, CourseRemovedLists
<1>6. listed = LatestList(CourseList) BY <1>1, <1>2, <1>5, LinearMayRead
<1>7. Holds(Without(listed, hs201), cs101)
  <2>1. Holds(listed, cs101) BY <1>1, <1>6 DEF LinearRecords
  <2> QED BY <1>2, <1>5, <2>1, WithoutHolds
<1>8. List(<<>>) \in CoursewareValues /\ List(<<>>).list = <<>>
  <2>1. <<>> \in Seq(Ids) OBVIOUS
  <2> QED BY <2>1, ValuesTyped
<1>9. In(hs201)' = <<>> BY <1>1, <1>2, <1>4, <1>8, GrownLatest DEF In
<1>10. \A t \in Threads : t \in Students BY FixedIds
<1>11. OthersKept(hs201) BY <1>4, <1>10, KeptLatest DEF OthersKept, In
<1>12. LatestFlag(Course(cs101))' = LatestFlag(Course(cs101)) BY <1>2, <1>4, KeptLatest
<1> QED BY <1>4, <1>5, <1>7, <1>9, <1>11, <1>12

LEMMA Lengths ==
  ASSUME NEW t \in Threads, RunStep(t)
  PROVE  /\ ~ (\A u \in Threads : Len(todo'[u]) = 4)
         /\ \A u \in Threads :
              /\ Len(todo'[u]) >= 2 => Len(todo[u]) >= 2
              /\ Len(todo'[u]) <= 1 => Len(todo[u]) <= 1 \/ (u = t /\ Len(todo[u]) = 2)
              /\ Len(todo[u]) = 2 => ~ (Len(todo[u]) <= 1) /\ Len(todo[u]) >= 2 /\ Len(todo[u]) # 4
<1>1. PICK n \in 0 .. 4 : n = Len(todo[t]) BY DEF RunStep, OneCallLess
<1>2. Len(todo'[t]) = n - 1 BY <1>1 DEF RunStep, OneCallLess
<1>3. Len(todo'[t]) # 4 BY <1>2
<1>5. \A m : m = 2 => ~ (m <= 1) /\ m >= 2 /\ m # 4 OBVIOUS
<1>4. ASSUME NEW u \in Threads
      PROVE  /\ Len(todo'[u]) >= 2 => Len(todo[u]) >= 2
             /\ Len(todo'[u]) <= 1 => Len(todo[u]) <= 1 \/ (u = t /\ Len(todo[u]) = 2)
             /\ Len(todo[u]) = 2 => ~ (Len(todo[u]) <= 1) /\ Len(todo[u]) >= 2 /\ Len(todo[u]) # 4
  <2>1. CASE u = t
    <3>1. n - 1 >= 2 => n >= 2 OBVIOUS
    <3>2. n - 1 <= 1 => n <= 1 \/ n = 2 OBVIOUS
    <3> QED BY <1>1, <1>2, <1>5, <2>1, <3>1, <3>2
  <2>2. CASE u # t
    <3>1. todo'[u] = todo[u] BY <2>2 DEF RunStep, OneCallLess
    <3> QED BY <1>5, <3>1
  <2> QED BY <2>1, <2>2
<1> QED BY <1>3, <1>4

\* What a step of thread t changes on a linearizable store.
SeatChange(t) == In(cs101)' = IF In(cs101) = <<>> THEN <<t>> ELSE In(cs101)
RemovalChange(t) ==
  \/ In(hs201)' = In(hs201) /\ LatestFlag(Course(hs201))' = LatestFlag(Course(hs201))
  \/ /\ t = 1 /\ Len(todo[1]) = 2 /\ In(hs201)' \in {<<>>, <<DK>>}
     /\ LatestFlag(Course(hs201)) # "open" =>
          In(hs201)' = <<>> /\ LatestFlag(Course(hs201))' # "open"
  \/ /\ t = 2 /\ Len(todo[2]) = 2
     /\ In(hs201)' = <<>> /\ LatestFlag(Course(hs201))' # "open"
OthersChange ==
  /\ \A c \in Courses \ {cs101, hs201} : In(c)' = In(c)
  /\ \A u \in Threads : LatestFlag(Student(u))' = LatestFlag(Student(u))
  /\ Holds(LatestList(CourseList)', cs101)

LEMMA LinearChanges ==
  ASSUME NEW t \in Threads, LinearStep(t)
  PROVE  SeatChange(t) /\ RemovalChange(t) /\ OthersChange
<1>1. /\ CoursewareStore /\ CourseInv /\ LinearRecords /\ RunCase(t)
  BY DEF LinearStep, RunStep
<1>2. /\ cs101 \in Courses /\ hs201 \in Courses /\ cs101 # hs201
      /\ t \in Sessions /\ t \in Students
  BY FixedIds
<1>3. Holds(LatestList(CourseList), cs101) BY <1>1 DEF LinearRecords
<1>4. Len(todo[t]) # 4 => In(cs101) # <<>> BY <1>1 DEF LinearRecords
<1>5. ASSUME Enroll(t, t, cs101) PROVE SeatChange(t) /\ RemovalChange(t) /\ OthersChange
  <2>1. /\ OthersKept(cs101) /\ OffersKept(cs101)
        /\ In(cs101)' = IF In(cs101) = <<>> THEN <<t>> ELSE In(cs101)
    BY <1>5, SeatOfCs101
  <2> QED BY <1>2, <1>3, <2>1
          DEF SeatChange, RemovalChange, OthersChange, OthersKept, OffersKept
<1>6. ASSUME OnlyAt({}), Len(todo[t]) # 4 PROVE SeatChange(t) /\ RemovalChange(t) /\ OthersChange
  BY <1>1, <1>2, <1>3, <1>4, <1>6, NothingKeeps DEF SeatChange, RemovalChange, OthersChange
<1>7. ASSUME t = 1, Len(todo[t]) = 2, Enroll(t, t, hs201)
      PROVE  SeatChange(t) /\ RemovalChange(t) /\ OthersChange
  <2>1. Len(todo[t]) # 4 BY <1>7
  <2>2. /\ OthersKept(hs201) /\ OffersKept(hs201)
        /\ In(hs201)' \in {<<>>, <<DK>>}
        /\ LatestFlag(Course(hs201)) # "open" =>
             In(hs201)' = <<>> /\ LatestFlag(Course(hs201))' # "open"
    BY <1>7, SeatOfHs201
  <2>3. SeatChange(t) BY <1>2, <1>4, <2>1, <2>2 DEF SeatChange, OthersKept
  <2>4. RemovalChange(t) BY <1>7, <2>2 DEF RemovalChange
  <2>5. OthersChange BY <1>2, <1>3, <2>2 DEF OthersChange, OthersKept, OffersKept
  <2> QED BY <2>3, <2>4, <2>5
<1>8. ASSUME t = 2, Len(todo[t]) = 2, DeleteCourse(t, hs201)
      PROVE  SeatChange(t) /\ RemovalChange(t) /\ OthersChange
  <2>1. Len(todo[t]) # 4 BY <1>8
  <2>2. /\ OthersKept(hs201) /\ In(hs201)' = <<>> /\ LatestFlag(Course(hs201))' # "open"
        /\ Holds(LatestList(CourseList)', cs101)
    BY <1>8, RemovalOfHs201
  <2>3. SeatChange(t) BY <1>2, <1>4, <2>1, <2>2 DEF SeatChange, OthersKept
  <2>4. RemovalChange(t) BY <1>8, <2>2 DEF RemovalChange
  <2>5. OthersChange BY <2>2 DEF OthersChange, OthersKept
  <2> QED BY <2>3, <2>4, <2>5
<1>9. GetEnrollments(t) \/ GetEnrolledStudents(t, hs201) => OnlyAt({})
  BY <1>1, <1>2, OverviewEffect, ListingEffect
<1>10. Len(todo[t]) = 3 \/ Len(todo[t]) = 1 => Len(todo[t]) # 4 OBVIOUS
<1> QED BY <1>1, <1>5, <1>6, <1>7, <1>8, <1>9, <1>10 DEF RunCase

\* The records stay as the linear invariant says, and a seat that is taken stays taken.
LEMMA LinearRecordsKept ==
  ASSUME NEW t \in Threads, LinearStep(t)
  PROVE  LinearRecords' /\ In(cs101)' # <<>> /\ (In(cs101) # <<>> => In(cs101)' = In(cs101))
<1>1. LinearRecords /\ RunStep(t) BY DEF LinearStep
<1>2. SeatChange(t) /\ RemovalChange(t) /\ OthersChange BY LinearChanges
<1>3. /\ 1 \in Threads /\ 2 \in Threads /\ (t = 1 \/ t = 2) BY DEF Threads
<1>4. \A x : <<x>> # <<>> OBVIOUS
<1>5. In(cs101)' # <<>> /\ In(cs101)' \in {<<>>, <<DK>>, <<JV>>}
  BY <1>1, <1>2, <1>3, <1>4 DEF SeatChange, LinearRecords, DK, JV
<1>6. In(hs201)' \in {<<>>, <<DK>>} BY <1>1, <1>2 DEF RemovalChange, LinearRecords
<1>7. ASSUME Len(todo'[1]) >= 2 PROVE In(hs201)' = <<>>
  <2>1. Len(todo[1]) >= 2 BY <1>1, <1>3, <1>7, Lengths
  <2>2. In(hs201) = <<>> BY <1>1, <2>1 DEF LinearRecords
  <2>3. ~ (t = 1 /\ Len(todo[1]) = 2)
    <3> SUFFICES ASSUME t = 1, Len(todo[1]) = 2 PROVE FALSE
      OBVIOUS
    <3>1. Len(todo'[1]) = 2 - 1 BY <1>1 DEF RunStep, OneCallLess
    <3>2. ~ (2 - 1 >= 2) OBVIOUS
    <3> QED BY <1>7, <3>1, <3>2
  <2> QED BY <1>2, <2>2, <2>3 DEF RemovalChange
<1>8. ASSUME Len(todo'[2]) <= 1 PROVE In(hs201)' = <<>> /\ LatestFlag(Course(hs201))' # "open"
  <2>1. Len(todo[2]) <= 1 \/ (2 = t /\ Len(todo[2]) = 2) BY <1>1, <1>3, <1>8, Lengths
  <2>2. CASE Len(todo[2]) <= 1
    <3>1. In(hs201) = <<>> /\ LatestFlag(Course(hs201)) # "open" BY <1>1, <2>2 DEF LinearRecords
    <3> QED BY <1>2, <3>1 DEF RemovalChange
  <2>3. CASE t = 2 /\ Len(todo[2]) = 2
    <3>1. DeleteCourse(2, hs201) BY <1>1, <2>3 DEF RunStep, RunCase
    <3> QED BY <2>3, <3>1, RemovalOfHs201
  <2> QED BY <2>1, <2>2, <2>3
<1>9. /\ \A c \in Courses \ {cs101, hs201} : In(c)' = <<>>
      /\ \A u \in Threads : LatestFlag(Student(u))' = "true"
      /\ Holds(LatestList(CourseList)', cs101)
  BY <1>1, <1>2 DEF OthersChange, LinearRecords
<1>10. LinearRecords' BY <1>5, <1>6, <1>7, <1>8, <1>9 DEF LinearRecords
<1> QED BY <1>2, <1>5, <1>10 DEF SeatChange

\* What the reads of the programs show on a linearizable store.
LEMMA LinearOverview ==
  ASSUME NEW t \in Threads, LinearStep(t), GetEnrollments(t)
  PROVE  /\ In(cs101)' = In(cs101) /\ cs101 \in DOMAIN Enrollments(t)
         /\ \A c \in DOMAIN Enrollments(t) : c \in Courses /\ Enrollments(t)[c] = In(c)
<1>1. CoursewareStore /\ CourseInv /\ level = "linear" /\ LinearRecords BY DEF LinearStep
<1>2. t \in Sessions /\ cs101 \in Courses /\ CourseList \in Keys BY <1>1, FixedIds, KeysTyped
<1>3. /\ OnlyAt({}) /\ MayRead(t, CourseList, ReadHere(t, CourseList))
      /\ ReadHere(t, CourseList) \in Seq(Courses)
      /\ \A c \in Courses :
           Holds(ReadHere(t, CourseList), c)
             => MayRead(t, EnrollmentsIn(c), ReadHere(t, EnrollmentsIn(c)))
  BY <1>1, <1>2, OverviewEffect
<1>4. PICK l : l = ReadHere(t, CourseList) OBVIOUS
<1>5. PICK e : e = Enrollments(t) OBVIOUS
<1>6. \A c : /\ c \in DOMAIN e <=> Holds(l, c)
             /\ c \in DOMAIN e => e[c] = ReadHere(t, EnrollmentsIn(c))
  BY <1>4, <1>5, EnrollmentsShow
<1>7. l = LatestList(CourseList) BY <1>1, <1>2, <1>3, <1>4, LinearMayRead
<1>8. cs101 \in DOMAIN e BY <1>1, <1>6, <1>7 DEF LinearRecords
<1>9. ASSUME NEW c \in DOMAIN e PROVE c \in Courses /\ e[c] = In(c)
  <2>1. Holds(l, c) /\ e[c] = ReadHere(t, EnrollmentsIn(c)) BY <1>6
  <2>2. c \in Courses
    <3>1. l \in Seq(Courses) BY <1>3, <1>4
    <3>2. \A i \in DOMAIN l : l[i] \in Courses BY <3>1
    <3> QED BY <2>1, <3>2 DEF Holds
  <2>3. MayRead(t, EnrollmentsIn(c), e[c]) BY <1>3, <1>4, <2>1, <2>2
  <2>4. EnrollmentsIn(c) \in Keys BY <1>1, <2>2, KeysTyped
  <2> QED BY <1>1, <1>2, <2>2, <2>3, <2>4, LinearMayRead DEF In
<1>10. In(cs101)' = In(cs101) BY <1>1, <1>2, <1>3, NothingKeeps
<1> QED BY <1>5, <1>8, <1>9, <1>10

LEMMA LinearFirst ==
  ASSUME NEW t \in Threads, LinearStep(t), ReadsFirst(t)
  PROVE  IsListed(t, cs101, shown'[t][1]) = Seat(t)'
<1>1. PICK e : e = Enrollments(t) OBVIOUS
<1>2. \A a : <<a>>[1] = a OBVIOUS
<1>3. shown'[t][1] = e BY <1>1, <1>2 DEF ReadsFirst
<1>4. In(cs101)' = In(cs101) /\ cs101 \in DOMAIN e /\ e[cs101] = In(cs101)
  BY <1>1, LinearOverview DEF ReadsFirst
<1>5. In(cs101) \in {<<>>, <<DK>>, <<JV>>} BY DEF LinearStep, LinearRecords
<1>6. Holds(In(cs101), t) <=> In(cs101) = <<t>>
  <2>1. \A x : Holds(<<x>>, t) <=> <<x>> = <<t>>
    <3>1. \A x, y : (\E i \in DOMAIN <<x>> : <<x>>[i] = y) <=> <<x>> = <<y>> OBVIOUS
    <3> QED BY <3>1 DEF Holds
  <2>2. ~ Holds(<<>>, t) /\ <<>> # <<t>> BY DEF Holds
  <2> QED BY <1>5, <2>1, <2>2
<1>7. IsListed(t, cs101, e) = Seat(t) BY <1>4, <1>6 DEF IsListed, Seat
<1>8. Seat(t)' = Seat(t) BY <1>4 DEF Seat
<1> QED BY <1>3, <1>7, <1>8

LEMMA LinearTimes ==
  ASSUME LinearStep(1), GetEnrollments(1), NEW e, e = Enrollments(1)
  PROVE  TimesListed(DK, e) \in {Seat(DK), Seat(DK) + 1}
<1>1. 1 \in Threads BY DEF Threads
<1>2. cs101 \in DOMAIN e /\ \A c \in DOMAIN e : c \in Courses /\ e[c] = In(c)
  BY <1>1, LinearOverview
<1>3. /\ In(cs101) \in {<<>>, <<DK>>, <<JV>>} /\ In(hs201) \in {<<>>, <<DK>>}
      /\ \A c \in Courses \ {cs101, hs201} : In(c) = <<>>
  BY DEF LinearStep, LinearRecords
<1>4. PICK b : b = client.bound OBVIOUS
<1>5. b \in Nat /\ 1 <= b
  <2>1. b \in Nat BY <1>4, CoursewareAssumption DEF LinearStep, CourseInv, CountOK, ClientKinds
  <2>2. ops \in 0 .. b BY <1>4 DEF LinearStep, CourseInv, CountOK
  <2>3. ops < b BY <1>4 DEF GetEnrollments, Performs
  <2> QED BY <2>1, <2>2, <2>3
<1>6. PICK S : S = {p \in (DOMAIN e) \X (1 .. b) : p[2] \in DOMAIN e[p[1]] /\ e[p[1]][p[2]] = DK}
  OBVIOUS
<1>7. TimesListed(DK, e) = Cardinality(S) BY <1>4, <1>6 DEF TimesListed
<1> DEFINE A == <<cs101, 1>>
           B == <<hs201, 1>>
<1>8. DK # JV /\ cs101 # hs201 BY FixedIds DEF DK, JV
<1>9. \A x, y : /\ y \in DOMAIN <<x>> <=> y = 1
                /\ <<x>>[1] = x /\ y \notin DOMAIN <<>>
  OBVIOUS
<1>10. A \in S <=> In(cs101) = <<DK>>
  <2>1. A \in (DOMAIN e) \X (1 .. b) /\ A[1] = cs101 /\ A[2] = 1 BY <1>2, <1>5
  <2>2. A \in S <=> 1 \in DOMAIN e[cs101] /\ e[cs101][1] = DK BY <1>6, <2>1
  <2>3. e[cs101] = In(cs101) BY <1>2
  <2>4. <<JV>>[1] = JV /\ <<JV>> # <<DK>> /\ 1 \in DOMAIN <<DK>> /\ <<DK>>[1] = DK
    BY <1>8, <1>9
  <2>5. 1 \notin DOMAIN <<>> /\ <<>> # <<DK>> BY <1>9
  <2> QED BY <1>3, <2>2, <2>3, <2>4, <2>5
<1>11. ASSUME NEW p \in S PROVE p = A \/ p = B
  <2>1. /\ p \in (DOMAIN e) \X (1 .. b) /\ p[2] \in DOMAIN e[p[1]] BY <1>6
  <2>2. p[1] \in DOMAIN e /\ p = <<p[1], p[2]>> BY <2>1
  <2>3. p[1] \in Courses /\ e[p[1]] = In(p[1]) BY <1>2, <2>2
  <2>4. p[1] \in {cs101, hs201} BY <1>3, <1>9, <2>1, <2>3
  <2>5. e[p[1]] \in {<<>>, <<DK>>, <<JV>>} BY <1>3, <2>3, <2>4
  <2>6. p[2] = 1 BY <1>9, <2>1, <2>5
  <2> QED BY <2>2, <2>4, <2>6
<1>12. A # B BY <1>8
<1> HIDE DEF A, B
<1>13. /\ Cardinality({}) = 0 /\ Cardinality({A}) = 1 /\ Cardinality({B}) = 1
       /\ Cardinality({A, B}) = 1 + 1
  <2>1. Cardinality({}) = 0 BY FS_EmptySet
  <2>2. \A x : IsFiniteSet({x}) /\ Cardinality({x}) = 1 BY FS_Singleton
  <2>3. {A, B} = {A} \cup {B} /\ B \notin {A} BY <1>12
  <2>4. Cardinality({A} \cup {B}) = Cardinality({A}) + 1 BY <2>2, <2>3, FS_AddElement
  <2> QED BY <2>1, <2>2, <2>3, <2>4
<1>14. S \in {{}, {A}, {B}, {A, B}} BY <1>11
<1>15. CASE In(cs101) = <<DK>>
  <2>1. S \in {{A}, {A, B}} BY <1>10, <1>12, <1>14, <1>15
  <2>2. Seat(DK) = 1 BY <1>15 DEF Seat
  <2> QED BY <1>7, <1>13, <2>1, <2>2
<1>16. CASE In(cs101) # <<DK>>
  <2>1. S \in {{}, {B}} BY <1>10, <1>14, <1>16
  <2>2. Seat(DK) = 0 BY <1>16 DEF Seat
  <2> QED BY <1>7, <1>13, <2>1, <2>2
<1> QED BY <1>15, <1>16

\* What a thread has been shown on a linearizable store stays true.
LEMMA LinearShownKept ==
  ASSUME NEW t \in Threads, LinearStep(t), LinearShown, client' = client
  PROVE  LinearShown'
<1>1. RunStep(t) /\ LinearRecords /\ CoursewareStore /\ CourseInv /\ level = "linear"
  BY DEF LinearStep
<1>2. In(cs101) # <<>> => In(cs101)' = In(cs101) BY LinearRecordsKept
<1>3. 1 \in Threads /\ 2 \in Threads /\ DK = 1 BY DEF Threads, DK
<1>4. ASSUME NEW u \in Threads, Len(todo[u]) <= 2 PROVE \A x : Seat(x)' = Seat(x)
  <2>1. Len(todo[u]) # 4
    <3>1. Len(todo[u]) \in 0 .. 4 BY <1>1 DEF RunStep, OneCallLess
    <3>2. \A m \in 0 .. 4 : m <= 2 => m # 4 OBVIOUS
    <3> QED BY <1>4, <3>1, <3>2
  <2>2. In(cs101)' = In(cs101) BY <1>1, <1>2, <2>1 DEF LinearRecords
  <2> QED BY <2>2 DEF Seat
<1>5. ASSUME NEW u \in Threads, Len(todo'[u]) <= 2
      PROVE  IsListed(u, cs101, shown'[u][1]) = Seat(u)'
  <2>1. CASE Len(todo[u]) <= 2 /\ shown'[u][1] = shown[u][1]
    BY <1>4, <2>1 DEF LinearShown
  <2>2. CASE u = t /\ ReadsFirst(u) BY <2>2, LinearFirst
  <2> QED BY <1>1, <1>5, <2>1, <2>2, FirstShown
<1>6. \A a, b : <<a, b>>[2] = b OBVIOUS
<1>7. ASSUME Len(todo'[1]) = 0
      PROVE  TimesListed(DK, shown[1][2])' \in {Seat(DK)', Seat(DK)' + 1}
  <2>1. PICK e : e = shown'[1][2] OBVIOUS
  <2>2. TimesListed(DK, e)' = TimesListed(DK, e) BY DEF TimesListed
  <2>3. TimesListed(DK, shown[1][2])' = TimesListed(DK, e)' BY <2>1 DEF TimesListed
  <2>4. CASE Len(todo[1]) = 0 /\ shown'[1] = shown[1]
    <3>1. Len(todo[1]) <= 2 BY <2>4
    <3>2. Seat(DK)' = Seat(DK) BY <1>3, <1>4, <3>1
    <3>3. TimesListed(DK, e) \in {Seat(DK), Seat(DK) + 1} BY <2>1, <2>4 DEF LinearShown
    <3> QED BY <2>2, <2>3, <3>2, <3>3
  <2>5. CASE 1 = t /\ ReadsSecond(1)
    <3>1. /\ GetEnrollments(1) /\ Len(todo[1]) = 1
          /\ shown'[1] = <<shown[1][1], Enrollments(1)>>
      BY <2>5 DEF ReadsSecond
    <3>2. e = Enrollments(1) BY <1>6, <2>1, <3>1
    <3>3. TimesListed(DK, e) \in {Seat(DK), Seat(DK) + 1} BY <2>5, <3>1, <3>2, LinearTimes
    <3>4. Len(todo[1]) <= 2 BY <3>1
    <3>5. Seat(DK)' = Seat(DK) BY <1>3, <1>4, <3>4
    <3> QED BY <2>2, <2>3, <3>3, <3>5
  <2> QED BY <1>1, <1>3, <1>7, <2>4, <2>5, SecondShown
<1>8. ASSUME Len(todo'[2]) = 0 PROVE shown'[2][2] = <<>>
  <2>1. CASE Len(todo[2]) = 0 /\ shown'[2] = shown[2] BY <2>1 DEF LinearShown
  <2>2. CASE ReadsSecond(2)
    <3> DEFINE k == EnrollmentsIn(hs201)
    <3>1. /\ GetEnrolledStudents(2, hs201) /\ Len(todo[2]) = 1
          /\ shown'[2] = <<shown[2][1], ReadHere(2, k)>>
      BY <2>2 DEF ReadsSecond
    <3>2. PICK l : l = ReadHere(2, k) OBVIOUS
    <3>3. shown'[2][2] = l BY <1>6, <3>1, <3>2
    <3>4. 2 \in Sessions /\ hs201 \in Courses /\ k \in Keys BY <1>1, <1>3, FixedIds, KeysTyped
    <3>5. MayRead(2, k, l) BY <1>1, <3>1, <3>2, <3>4, ListingEffect
    <3>6. l = In(hs201) BY <1>1, <3>4, <3>5, LinearMayRead DEF In
    <3>7. Len(todo[2]) <= 1 BY <3>1
    <3> QED BY <1>1, <3>3, <3>6, <3>7 DEF LinearRecords
  <2> QED BY <1>1, <1>3, <1>8, <2>1, <2>2, SecondShown
<1> QED BY <1>5, <1>7, <1>8 DEF LinearShown

LEMMA LinearStart ==
  ASSUME CoursewareStore, CoursesAsMade, RunInit, client.run = "fixed"
  PROVE  LinearRecords /\ LinearShown
<1>1. Init /\ \A t \in Threads : Len(todo[t]) = 4 BY FixedStart DEF RunInit
<1> DEFINE n == client.students
           m == client.courses
<1>2. n >= 2 /\ m >= 2 BY <1>1 DEF CoursesAsMade, Init
<1>3. /\ n \in Nat /\ m \in Nat /\ m <= NumCourses
      /\ versions[CourseList] = Counting(m)
      /\ \A x \in Students : versions[Student(x)] = IF x <= n THEN <<Details("true")>> ELSE <<>>
      /\ \A c \in Courses :
           /\ versions[Course(c)] = IF c <= m THEN <<Details("close"), Details("open")>> ELSE <<>>
           /\ versions[EnrollmentsIn(c)] = IF c <= m THEN <<List(<<>>)>> ELSE <<>>
  BY <1>1, PopulatedRecords
<1> HIDE DEF n, m
<1>4. \A t \in Threads : t \in Students /\ t <= n BY <1>2, <1>3, FixedIds
<1>5. cs101 \in Courses /\ cs101 <= m /\ cs101 = 1 BY <1>2, <1>3, FixedIds DEF cs101
<1>6. /\ \A a : <<a>> # <<>> /\ Len(<<a>>) = 1 /\ <<a>>[1] = a
      /\ \A a, b : Len(<<a, b>>) = 2 /\ <<a, b>>[2] = b
  OBVIOUS
<1>7. \A t \in Threads : LatestFlag(Student(t)) = "true"
  <2>1. \A t \in Threads : versions[Student(t)] = <<Details("true")>> BY <1>3, <1>4
  <2>2. Details("true").flag = "true" BY DEF Details
  <2> QED BY <1>6, <2>1, <2>2 DEF LatestFlag
<1>8. LatestFlag(Course(cs101)) = "open"
  <2>1. versions[Course(cs101)] = <<Details("close"), Details("open")>> BY <1>3, <1>5
  <2>2. Details("open").flag = "open" BY DEF Details
  <2> QED BY <1>6, <2>1, <2>2 DEF LatestFlag
<1>9. \A k : versions[k] = <<>> \/ versions[k] = <<List(<<>>)>> => LatestList(k) = <<>>
  BY DEF LatestList, Present, List
<1>10. \A c \in Courses : In(c) = <<>> BY <1>3, <1>9 DEF In
<1>11. Holds(LatestList(CourseList), cs101)
  <2>1. NumCourses \in Nat /\ m \in 1 .. m /\ 1 \in 1 .. m
    BY <1>2, <1>3, CoursewareAssumption
  <2>2. /\ Counting(m) \in Seq([list : Seq(1 .. NumCourses), flag : {"list"}])
        /\ DOMAIN Counting(m) = 1 .. m /\ Counting(m)[m].list = [j \in 1 .. m |-> j]
    BY <1>3, <2>1, CountingTyped
  <2>3. versions[CourseList] # <<>> /\ Len(versions[CourseList]) = m BY <1>3, <2>1, <2>2
  <2>4. LatestList(CourseList) = [j \in 1 .. m |-> j]
    BY <1>3, <2>2, <2>3 DEF LatestList, Present
  <2> QED BY <1>5, <2>1, <2>4 DEF Holds
<1>12. \A t \in Threads : ~ (Len(todo[t]) <= 2) /\ ~ (Len(todo[t]) <= 1) /\ Len(todo[t]) # 0
  BY <1>1
<1>13. 1 \in Threads /\ 2 \in Threads /\ cs101 \in Courses /\ hs201 \in Courses
  BY FixedIds DEF Threads
<1>14. LinearRecords BY <1>1, <1>7, <1>8, <1>10, <1>11, <1>12, <1>13 DEF LinearRecords
<1>15. LinearShown BY <1>12, <1>13 DEF LinearShown
<1> QED BY <1>14, <1>15

LEMMA LinearStutter ==
  ASSUME LinearRecords, LinearShown, UNCHANGED runVars
  PROVE  LinearRecords' /\ LinearShown'
<1>1. versions' = versions /\ client' = client /\ todo' = todo /\ shown' = shown
  BY DEF runVars, vars, storeVars, appVars
<1>2. \A k : LatestList(k)' = LatestList(k) /\ LatestFlag(k)' = LatestFlag(k)
  BY <1>1, KeptLatest
<1>3. \A c : In(c)' = In(c) BY <1>2 DEF In
<1>4. \A x : Seat(x)' = Seat(x) BY <1>3 DEF Seat
<1>5. LinearRecords' BY <1>1, <1>2, <1>3 DEF LinearRecords
<1>6. TimesListed(DK, shown[1][2])' = TimesListed(DK, shown[1][2]) BY <1>1 DEF TimesListed
<1> QED BY <1>1, <1>4, <1>5, <1>6 DEF LinearShown

LinearRunInv ==
  FixedRunInv /\ (client.run = "fixed" /\ level = "linear" => LinearRecords /\ LinearShown)

\* The inductive invariant of do_op on a linearizable store: the only seat of cs101 goes
\* to the first who asks and stays with that student; only DK is ever in hs201, and
\* nobody is from its removal on; what the reads have shown of it is so
\* (run_courseware.cpp:62-115).
THEOREM LinearRunInvariant ==
  ASSUME CoursewareStore, CoursesAsMade PROVE RunSpec => []LinearRunInv
<1>1. RunInit => LinearRunInv
  <2> SUFFICES ASSUME RunInit PROVE LinearRunInv
    OBVIOUS
  <2>1. FixedRunInv BY CourseInvInit, RecordsStart DEF RunInit, FixedRunInv
  <2> QED BY <2>1, LinearStart DEF LinearRunInv
<1>2. LinearRunInv /\ FixedRunInv' /\ TodoOK /\ [RunNext]_runVars => LinearRunInv'
  <2> SUFFICES ASSUME LinearRunInv, FixedRunInv', TodoOK, [RunNext]_runVars PROVE LinearRunInv'
    OBVIOUS
  <2>1. FixedRunInv /\ CourseInv BY DEF LinearRunInv, FixedRunInv
  <2>2. client' = client /\ level' = level BY <2>1, RunKeeps
  <2>3. ASSUME client'.run = "fixed", level' = "linear" PROVE LinearRecords' /\ LinearShown'
    <3>1. client.run = "fixed" /\ level = "linear" BY <2>2, <2>3
    <3>2. RecordsInv /\ LinearRecords /\ LinearShown BY <2>1, <3>1 DEF LinearRunInv, FixedRunInv
    <3>3. ~ AnyStep BY <3>1 DEF AnyStep
    <3>4. CASE UNCHANGED runVars BY <3>2, <3>4, LinearStutter
    <3>5. ASSUME NEW t \in Threads, Step(t) PROVE LinearRecords' /\ LinearShown'
      <4>1. RunStep(t) BY <2>1, <3>2, <3>5, RunStepFacts
      <4>2. LinearStep(t)
        BY <2>1, <3>1, <3>2, <4>1 DEF LinearStep, RecordsInv, CoursesAsMade
      <4> QED BY <2>2, <3>2, <4>2, LinearRecordsKept, LinearShownKept
    <3> QED BY <3>3, <3>4, <3>5 DEF RunNext
  <2> QED BY <2>3 DEF LinearRunInv
<1>3. RunInit => TodoOK BY ProgramsTyped
<1>4. TodoOK /\ [RunNext]_runVars => TodoOK' BY ProgramStep
<1> QED BY <1>1, <1>2, <1>3, <1>4, FixedRunInvariant, PTL DEF RunSpec

\* On a linearizable store the fixed program ends with results that the code lists as
\* serial, so main counts nothing, however the two threads interleave
\* (run_courseware.cpp:21-26, 243-247).
THEOREM FixedProgramsAreSerial ==
  ASSUME CoursewareStore, CoursesAsMade PROVE RunSpec => []SerialResults
<1>1. LinearRunInv => SerialResults
  <2> SUFFICES ASSUME LinearRunInv, level = "linear", FixedDone PROVE Results \in SerialTable
    BY DEF SerialResults
  <2>1. AtPoint /\ LinearRecords /\ LinearShown /\ \A t \in Threads : todo[t] = <<>>
    BY DEF LinearRunInv, FixedRunInv, FixedDone, RecordsInv
  <2>2. 1 \in Threads /\ 2 \in Threads /\ DK = 1 /\ JV = 2 BY DEF Threads, DK, JV
  <2>3. /\ Len(todo[1]) = 0 /\ Len(todo[2]) = 0 /\ Len(todo[1]) <= 2 /\ Len(todo[2]) <= 2
        /\ Len(todo[1]) # 4
    <3>1. Len(<<>>) = 0 OBVIOUS
    <3> QED BY <2>1, <2>2, <3>1
  <2>4. PICK s1, s2, n :
          /\ s1 = Seat(DK) /\ s2 = Seat(JV) /\ n = TimesListed(DK, shown[1][2])
          /\ IsListed(DK, cs101, shown[1][1]) = s1 /\ IsListed(JV, cs101, shown[2][1]) = s2
          /\ n \in {s1, s1 + 1}
    BY <2>1, <2>2, <2>3 DEF LinearShown
  <2>5. Occurrences(shown[2][2], DK) = 0
    <3>1. shown[2][2] = <<>> BY <2>1, <2>3 DEF LinearShown
    <3>2. {i \in DOMAIN <<>> : <<>>[i] = DK} = {} OBVIOUS
    <3> QED BY <3>1, <3>2, FS_EmptySet DEF Occurrences
  <2>6. Results = <<s1, n, s2, 0>> BY <2>4, <2>5 DEF Results
  <2>7. In(cs101) = <<DK>> \/ In(cs101) = <<JV>> BY <2>1, <2>2, <2>3 DEF LinearRecords
  <2>8. <<DK>> # <<JV>>
    <3>1. \A x, y : <<x>> = <<y>> => x = y OBVIOUS
    <3> QED BY <2>2, <3>1
  <2>9. \/ s1 = 1 /\ s2 = 0
        \/ s1 = 0 /\ s2 = 1
    BY <2>4, <2>7, <2>8 DEF Seat
  <2>10. <<s1, n, s2, 0>> \in {<<1, 2, 0, 0>>, <<0, 1, 1, 0>>, <<0, 0, 1, 0>>, <<1, 1, 0, 0>>}
    BY <2>4, <2>9
  <2> QED BY <2>6, <2>10 DEF SerialTable
<1> QED BY <1>1, LinearRunInvariant, PTL
=============================================================================
