----------------------------- MODULE Courseware -----------------------------
(***************************************************************************)
(* applications/courseware: students, courses and enrollments kept under   *)
(* one key each in the store.  Every client brackets an operation by       *)
(* tx_start and tx_end, so an operation is one step; what it reads may     *)
(* still be stale when the store is not linearizable.  An exception that   *)
(* leaves an operation ends the program (it leaves a std::thread).         *)
(***************************************************************************)
EXTENDS SessionStore, AppData

CONSTANTS
  NumStudents, NumCourses,   \* ids are 1 .. NumStudents and 1 .. NumCourses
  Clients,                   \* the kinds of clients there may be
  Capacity                   \* Capacity[c]: the capacity of the course object c

Students == 1 .. NumStudents
Courses == 1 .. NumCourses

StudentList == <<"students">>
CourseList == <<"courses">>
Student(x) == <<"student", x>>
Course(c) == <<"course", c>>
EnrollmentsOf(x) == <<"enrollment:student", x>>
EnrollmentsIn(c) == <<"enrollment:course", c>>

CoursewareKeys ==
  {StudentList, CourseList} \cup {Student(x) : x \in Students} \cup {Course(c) : c \in Courses}
    \cup {EnrollmentsOf(x) : x \in Students} \cup {EnrollmentsIn(c) : c \in Courses}

\* The operations of run_courseware's clients, and close_course: none of them adds
\* a student or a course, or opens a course again.
ProgramOps == {"enroll", "get_enrollments", "delete_course", "get_enrolled_students",
               "close_course"}
OpNames == ProgramOps \cup
  {"add_student", "delete_student", "add_course", "register_student", "deregister_student",
   "open_course", "get_enrolled_courses"}

\* A value is a list with its count, or a record of details whose "registered"
\* or "status" field is what matters.  deregister_student writes the number 0.
List(q) == [list |-> q, flag |-> "list"]
Details(flag) == [list |-> <<>>, flag |-> flag]
CoursewareValues ==
  [list : Seq(Students \cup Courses), flag : {"list", "true", "0", "open", "close"}]

\* Clients of a kind perform only the operations ops, at most bound of them, after
\* the first students and courses have been populated; run names their program.
ClientKinds ==
  [run : {"any", "fixed", "random", "dfs"}, ops : SUBSET OpNames, bound : Nat,
   students : 0 .. NumStudents, courses : 0 .. NumCourses]

ASSUME CoursewareAssumption ==
  /\ NumStudents \in Nat /\ NumCourses \in Nat
  /\ Clients \subseteq ClientKinds
  /\ Capacity \in [Courses -> Nat]

VARIABLES
  client,    \* the kind of clients there are
  ops,       \* operations performed
  crashed    \* an exception has ended the program

appVars == <<client, ops, crashed>>
vars == <<storeVars, appVars>>

TypeOK ==
  /\ StoreTypeOK
  /\ client \in Clients
  /\ ops \in 0 .. client.bound
  /\ crashed \in BOOLEAN

\* What populate_courseware has put, in a session no client uses.
Counting(n) == [i \in 1 .. n |-> List([j \in 1 .. i |-> j])]

Populated(students, courses) ==
  [k \in Keys |->
     CASE k = StudentList -> Counting(students)
       [] k = CourseList  -> Counting(courses)
       [] \E x \in 1 .. students : k = Student(x) -> <<Details("true")>>
       [] \E c \in 1 .. courses : k = Course(c) -> <<Details("close"), Details("open")>>
       [] \/ \E x \in 1 .. students : k = EnrollmentsOf(x)
          \/ \E c \in 1 .. courses : k = EnrollmentsIn(c) -> <<List(<<>>)>>
       [] OTHER -> <<>>]

Init ==
  /\ client \in Clients
  /\ versions = Populated(client.students, client.courses)
  /\ floor = [s \in Sessions |-> [k \in Keys |-> 0]]
  /\ level \in Levels
  /\ ops = 0
  /\ crashed = FALSE

\* A list as read under r, empty when its key is absent.
ListRead(k, r) == IF k \in DOMAIN r THEN versions[k][r[k]].list ELSE <<>>
FlagRead(k, r) == versions[k][r[k]].flag

Performs(op) ==
  /\ op \in client.ops
  /\ ~ crashed /\ ops < client.bound
  /\ ops' = ops + 1
  /\ UNCHANGED client

-----------------------------------------------------------------------------
AddStudent(s, x) ==
  /\ Performs("add_student")
  /\ \E r \in ReadChoices(s, {StudentList}) :
       Transact(s, r, At(StudentList, List(Append(ListRead(StudentList, r), x)))
                        ++ At(Student(x), Details("true"))
                        ++ At(EnrollmentsOf(x), List(<<>>)))
  /\ UNCHANGED crashed

\* deregister_student first, which does nothing for an unknown student.
DeleteStudent(s, x) ==
  /\ Performs("delete_student")
  /\ \E r \in ReadChoices(s, {Student(x), StudentList}) :
       LET deregister == IF Present(Student(x)) THEN At(Student(x), Details("0")) ELSE NoWrites
           remove == At(StudentList, List(Without(ListRead(StudentList, r), x)))
                       ++ At(EnrollmentsOf(x), List(<<>>))
       IN Transact(s, r, IF Present(StudentList) THEN deregister ++ remove ELSE deregister)
  /\ UNCHANGED crashed

AddCourse(s, c) ==
  /\ Performs("add_course")
  /\ \E r \in ReadChoices(s, {CourseList}) :
       Transact(s, r, At(CourseList, List(Append(ListRead(CourseList, r), c)))
                        ++ At(Course(c), Details("close"))
                        ++ At(EnrollmentsIn(c), List(<<>>)))
  /\ UNCHANGED crashed

\* Mistake: the course is not closed.
DeleteOpenCourse(s, c) ==
  /\ Performs("delete_course")
  /\ \E r \in ReadChoices(s, {CourseList}) :
       Transact(s, r, At(CourseList, List(Without(ListRead(CourseList, r), c)))
                        ++ At(EnrollmentsIn(c), List(<<>>)))
  /\ UNCHANGED crashed

\* close_course first; the enrollments of the students are left as they are.
DeleteCourse(s, c) ==
  /\ Performs("delete_course")
  /\ \E r \in ReadChoices(s, {Course(c), CourseList}) :
       LET close == IF Present(Course(c)) THEN At(Course(c), Details("close")) ELSE NoWrites
           remove == At(CourseList, List(Without(ListRead(CourseList, r), c)))
                       ++ At(EnrollmentsIn(c), List(<<>>))
       IN Transact(s, r, IF Present(CourseList) THEN close ++ remove ELSE close)
  /\ UNCHANGED crashed

\* register_student, deregister_student, open_course and close_course read the
\* details at k, and write them back with another flag if k is there.
SetFlag(op, s, k, flag) ==
  /\ Performs(op)
  /\ \E r \in ReadChoices(s, {k}) :
       Transact(s, r, IF Present(k) THEN At(k, Details(flag)) ELSE NoWrites)
  /\ UNCHANGED crashed

RegisterStudent(s, x) == SetFlag("register_student", s, Student(x), "true")
DeregisterStudent(s, x) == SetFlag("deregister_student", s, Student(x), "0")
OpenCourse(s, c) == SetFlag("open_course", s, Course(c), "open")
\* Mistake: a status that nobody tests for.
CloseMisspelt(s, c) == SetFlag("close_course", s, Course(c), "closed")

CloseCourse(s, c) == SetFlag("close_course", s, Course(c), "close")

\* Mistakes: one student too many; only the course's list is written.
EnrollPastCapacity(s, x, c, r) ==
  \E q \in ReadChoices(s, {EnrollmentsIn(c)}), p \in ReadChoices(s, {EnrollmentsOf(x)}) :
    LET enrolled == ListRead(EnrollmentsIn(c), q)
    IN IF Len(enrolled) > Capacity[c]
         THEN Transact(s, r ++ q, At(Course(c), Details("close")))
         ELSE Transact(s, r ++ q ++ p,
                       At(EnrollmentsIn(c), List(Append(enrolled, x)))
                         ++ At(EnrollmentsOf(x), List(Append(ListRead(EnrollmentsOf(x), p), c))))
EnrollInOneList(s, x, c, r) ==
  \E q \in ReadChoices(s, {EnrollmentsIn(c)}) :
    LET enrolled == ListRead(EnrollmentsIn(c), q)
    IN Transact(s, r ++ q, IF Len(enrolled) >= Capacity[c] THEN At(Course(c), Details("close"))
                           ELSE At(EnrollmentsIn(c), List(Append(enrolled, x))))

\* The part of enroll after the checks of the details, which read r.  At the
\* capacity the course is closed instead.
EnrollIfSeat(s, x, c, r) ==
  \E q \in ReadChoices(s, {EnrollmentsIn(c)}) :
    LET enrolled == ListRead(EnrollmentsIn(c), q)
    IN IF Len(enrolled) >= Capacity[c]
         THEN Transact(s, r ++ q, At(Course(c), Details("close")))
         ELSE \E p \in ReadChoices(s, {EnrollmentsOf(x)}) :
                Transact(s, r ++ q ++ p,
                         At(EnrollmentsIn(c), List(Append(enrolled, x)))
                           ++ At(EnrollmentsOf(x), List(Append(ListRead(EnrollmentsOf(x), p), c))))

\* Mistake: a course that is not open is refused by an exception.
EnrollThrowing(s, x, c) ==
  /\ Performs("enroll")
  /\ \E r \in ReadChoices(s, {Student(x), Course(c)}) :
       LET open == Present(Course(c)) /\ FlagRead(Course(c), r) = "open"
       IN /\ crashed' = ~ open
          /\ IF open THEN EnrollIfSeat(s, x, c, r) ELSE Transact(s, r, NoWrites)

\* The course is read only if the student is found.  as_bool throws on the
\* number that deregister_student stored.
Enroll(s, x, c) ==
  LET found == Present(Student(x)) /\ Present(Course(c))
      details == IF Present(Student(x)) THEN {Student(x), Course(c)} ELSE {}
  IN /\ Performs("enroll")
     /\ \E r \in ReadChoices(s, details) :
          LET throws == found /\ FlagRead(Student(x), r) = "0"
              eligible == found /\ ~ throws /\ FlagRead(Course(c), r) = "open"
          IN /\ crashed' = throws
             /\ IF eligible THEN EnrollIfSeat(s, x, c, r) ELSE Transact(s, r, NoWrites)

\* get_enrolled_courses and get_enrolled_students
GetList(op, s, k) ==
  /\ Performs(op)
  /\ \E r \in ReadChoices(s, {k}) : Transact(s, r, NoWrites)
  /\ UNCHANGED crashed

GetEnrolledCourses(s, x) == GetList("get_enrolled_courses", s, EnrollmentsOf(x))
GetEnrolledStudents(s, c) == GetList("get_enrolled_students", s, EnrollmentsIn(c))

\* The list of courses, then the students of each course in it.
GetEnrollments(s) ==
  /\ Performs("get_enrollments")
  /\ \E r \in ReadChoices(s, {CourseList}) :
       LET listed == ListRead(CourseList, r)
           keys == {EnrollmentsIn(listed[i]) : i \in DOMAIN listed}
       IN \E q \in ReadChoices(s, keys) : Transact(s, r ++ q, NoWrites)
  /\ UNCHANGED crashed

Next ==
  \E s \in Sessions :
    \/ GetEnrollments(s)
    \/ \E x \in Students :
         \/ AddStudent(s, x) \/ DeleteStudent(s, x)
         \/ RegisterStudent(s, x) \/ DeregisterStudent(s, x)
         \/ GetEnrolledCourses(s, x)
         \/ \E c \in Courses : Enroll(s, x, c)
    \/ \E c \in Courses :
         \/ AddCourse(s, c) \/ DeleteCourse(s, c)
         \/ OpenCourse(s, c) \/ CloseCourse(s, c)
         \/ GetEnrolledStudents(s, c)

Spec == Init /\ [][Next]_vars
-----------------------------------------------------------------------------
LatestList(k) == IF Present(k) THEN versions[k][Len(versions[k])].list ELSE <<>>

\* The students who are told that they are enrolled in c.
ToldEnrolled(c) == {x \in Students : Holds(LatestList(EnrollmentsOf(x)), c)}

\* No list of students ever shown for a course exceeds its capacity, whatever
\* stale versions enroll was answered with and whatever other operations run
\* (courseware.h:304-316).
ShownWithinCapacity ==
  \A c \in Courses : \A i \in DOMAIN versions[EnrollmentsIn(c)] :
    Len(versions[EnrollmentsIn(c)][i].list) <= Capacity[c]

\* While the clients perform no other operations, on a linearizable store ...
OnlyProgramOps == level = "linear" /\ client.ops \subseteq ProgramOps

\* ... no more students are told that they are enrolled in a course than it has
\* seats: two enrolls never take the last one (courseware.h:278-333, the overflow
\* that run_courseware counts).
SeatsRespected ==
  OnlyProgramOps => \A c \in Courses : Cardinality(ToldEnrolled(c)) <= Capacity[c]

\* ... a course's list of students and the students' lists of courses agree, as far
\* as the course still exists: enroll writes both or neither (courseware.h:313-332).
ListsAgree ==
  OnlyProgramOps =>
    \A c \in Courses : Holds(LatestList(CourseList), c) =>
      ToldEnrolled(c) = {x \in Students : Holds(LatestList(EnrollmentsIn(c)), x)}

\* ... no student is listed in a removed course, however enroll and delete_course
\* interleave (courseware.h:201-228).
RemovedCourseEmpty ==
  OnlyProgramOps =>
    \A c \in Courses : ~ Holds(LatestList(CourseList), c) =>
      LatestList(EnrollmentsIn(c)) = <<>>

\* "once the course is removed, no student should be seen as enrolled in that
\* course" (applications/readme.md:10): not in a student's own list either.
RemovedCourseUnseen ==
  \A c \in Courses : ~ Holds(LatestList(CourseList), c) => ToldEnrolled(c) = {}
=============================================================================
