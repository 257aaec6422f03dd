---------------------------- MODULE MCCourseware ----------------------------
(* Small instances of Courseware and RunCourseware for TLC. *)
EXTENDS RunCourseware

BothLevels == {"causal", "linear"}
Linear == {"linear"}

\* cs101 has one seat and hs201 two, as in course.h.
Seats == [c \in Courses |-> c]

\* Clients that run the programs of run_courseware, clients that perform the operations
\* of these programs in any order, and clients that perform every operation and know
\* of a student and of a course that have not been added.
ProgramRuns == [run : {"fixed", "random", "dfs"}, ops : {ProgramOps}, bound : {8},
              students : {NumStudents}, courses : {NumCourses}]
InAnyOrder == [run |-> "any", ops |-> ProgramOps, bound |-> 4,
               students |-> NumStudents, courses |-> NumCourses]
Everything == [run |-> "any", ops |-> OpNames, bound |-> 4, students |-> 1, courses |-> 1]

AllClients == ProgramRuns \cup {InAnyOrder, Everything}
ProgramClients == {InAnyOrder}
=============================================================================
