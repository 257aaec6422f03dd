--------------------------- MODULE RunCourseware ---------------------------
(***************************************************************************)
(* applications/courseware/run_courseware.cpp: two threads, one session    *)
(* each, that perform their programs on the populated courseware.  Each    *)
(* step of a thread is the step of Courseware that its program names next. *)
(***************************************************************************)
EXTENDS Courseware

CONSTANTS
  NumOps     \* NUM_OPS: random operations of each thread

VARIABLES
  todo,      \* todo[t]: the operations that thread t has still to perform
  shown      \* shown[t]: what the reads of thread t have returned

runVars == <<vars, todo, shown>>

Threads == {1, 2}   \* NUM_SESSIONS, and the sessions
DK == 1
JV == 2
cs101 == 1
hs201 == 2

\* do_op names two courses; do_random_op has a student for each course.
ASSUME RunAssumption ==
  /\ Threads \subseteq Sessions /\ NumOps \in Nat
  /\ 2 <= NumCourses /\ NumCourses <= NumStudents

Call(op, x, c) == [op |-> op, student |-> x, course |-> c]
EnrollCall(x, c) == Call("enroll", x, c)
EnrollmentsCall == Call("get_enrollments", DK, cs101)

\* do_op
Fixed == [t \in Threads |->
  IF t = 1 THEN <<EnrollCall(DK, cs101), EnrollmentsCall, EnrollCall(DK, hs201), EnrollmentsCall>>
  ELSE <<EnrollCall(JV, cs101), EnrollmentsCall, Call("delete_course", DK, hs201),
         Call("get_enrolled_students", DK, hs201)>>]

\* do_dfs_op
Dfs == [t \in Threads |-> <<EnrollCall(IF t = 1 THEN DK ELSE JV, cs101), EnrollmentsCall>>]

\* do_random_op, where students and courses take turns
RandomCall(choice, j) ==
  LET idx == ((j - 1) % NumCourses) + 1
  IN CASE choice = 0 -> EnrollCall(idx, idx)
       [] choice = 1 -> EnrollmentsCall
       [] choice = 2 -> Call("delete_course", DK, idx)

\* random_fill seeds the generator alike for both threads: both get the choices c.
Random(c) == [t \in Threads |-> [j \in 1 .. NumOps |-> RandomCall(c[j], j)]]

Programs(r) ==
  CASE r = "fixed" -> {Fixed}
    [] r = "dfs" -> {Dfs}
    [] r = "random" -> {Random(c) : c \in [1 .. NumOps -> 0 .. 2]}
    [] r = "any" -> {[t \in Threads |-> <<>>]}

\* run_iteration
RunInit ==
  /\ Init
  /\ todo \in Programs(client.run)
  /\ shown = [t \in Threads |-> <<>>]
-----------------------------------------------------------------------------
\* The list at k that the step of session t has read.
ReadHere(t, k) == IF Present(k) THEN versions[k][floor'[t][k]].list ELSE <<>>

\* get_enrollments returns a map from the listed courses to their students.
Enrollments(t) ==
  LET listed == ReadHere(t, CourseList)
  IN [c \in {listed[i] : i \in DOMAIN listed} |-> ReadHere(t, EnrollmentsIn(c))]

Shows(t, result) == shown' = [shown EXCEPT ![t] = Append(@, result)]

Step(t) ==
  /\ todo[t] # <<>>
  /\ LET o == Head(todo[t])
     IN \/ o.op = "enroll" /\ Enroll(t, o.student, o.course) /\ UNCHANGED shown
        \/ o.op = "delete_course" /\ DeleteCourse(t, o.course) /\ UNCHANGED shown
        \/ o.op = "get_enrollments" /\ GetEnrollments(t) /\ Shows(t, Enrollments(t))
        \/ /\ o.op = "get_enrolled_students" /\ GetEnrolledStudents(t, o.course)
           /\ Shows(t, ReadHere(t, EnrollmentsIn(o.course)))
  /\ todo' = [todo EXCEPT ![t] = Tail(@)]

\* Clients without a program perform any of their operations.
AnyStep == client.run = "any" /\ Next /\ UNCHANGED <<todo, shown>>

RunNext == AnyStep \/ \E t \in Threads : Step(t)

RunSpec == RunInit /\ [][RunNext]_runVars

\* Both threads run until their programs end; run_iteration joins them.
FairRunSpec == RunSpec /\ \A t \in Threads : WF_runVars(Step(t))
-----------------------------------------------------------------------------
Occurrences(q, x) == Cardinality({i \in DOMAIN q : q[i] = x})
IsListed(x, c, enrollments) ==
  IF c \in DOMAIN enrollments /\ Holds(enrollments[c], x) THEN 1 ELSE 0

\* How often x occurs in the lists of all courses.
TimesListed(x, enrollments) ==
  Cardinality({p \in (DOMAIN enrollments) \X (1 .. client.bound) :
                 p[2] \in DOMAIN enrollments[p[1]] /\ enrollments[p[1]][p[2]] = x})

\* Mistake: the second thread looks for DK as well.
ResultsOfDK ==
  <<IsListed(DK, cs101, shown[1][1]), TimesListed(DK, shown[1][2]),
    IsListed(DK, cs101, shown[2][1]), Occurrences(shown[2][2], DK)>>

\* What do_op leaves in results: whether DK and JV found themselves in cs101, how
\* often DK is listed in the end, and how often in the course that was deleted.
Results ==
  <<IsListed(DK, cs101, shown[1][1]), TimesListed(DK, shown[1][2]),
    IsListed(JV, cs101, shown[2][1]), Occurrences(shown[2][2], DK)>>

\* serial_results
SerialTable == {<<1, 2, 0, 0>>, <<0, 1, 1, 0>>, <<0, 0, 1, 0>>, <<1, 1, 0, 0>>}

\* The checks of main: register_overflow and removed_register.
Overflow(r) == r[1] = 1 /\ r[3] = 1
RemovedRegister(r) == r[4] = 1 /\ (r[2] = 2 \/ (r[1] = 0 /\ r[2] = 1))

FixedDone == client.run = "fixed" /\ \A t \in Threads : todo[t] = <<>>

\* On a linearizable store the fixed program ends with results that the code lists as
\* serial (run_courseware.cpp:21-26), so main counts nothing, however the two threads
\* interleave.
SerialResults == level = "linear" /\ FixedDone => Results \in SerialTable

\* Whatever main counts has happened, at every level: two students were given the
\* only seat of cs101; DK was enrolled in hs201 by its thread and is in the list
\* that delete_course has emptied (run_courseware.cpp:243-247).
CountedIsReal ==
  FixedDone =>
    /\ Overflow(Results) => Cardinality(ToldEnrolled(cs101)) > Capacity[cs101]
    /\ RemovedRegister(Results) =>
         DK \in ToldEnrolled(hs201) /\ Holds(LatestList(EnrollmentsIn(hs201)), DK)

\* Every program runs to its end: no operation throws (as enroll does for a student
\* who was deregistered) with the application's mutex locked (courseware.h:289).
ProgramsEnd == <>(\A t \in Threads : todo[t] = <<>>)
=============================================================================
