----------------------------- MODULE MCTeaching -----------------------------
(* Lessons with their edits, and reviews beside lessons.  A behaviour is of    *)
(* one part, so that TLC adds the two instances up: `lessons` has two requests *)
(* on a lesson of two columns, `reviews` two review requests beside one        *)
(* request of the tutor that only records or deletes a lesson.                 *)
EXTENDS MCReviews

VARIABLE part

teachingVars == <<part, allVars>>

\* The bound on lessons beside reviews: one request at a time, of the tutor, one
\* value and no edits.
TheSlot == CHOOSE s \in Slots : TRUE

FewLessons ==
  \/ \E m \in Matches :
       BeginCreate(TheSlot, m, TutorUser[m], [f \in Fields |-> 1005])
  \/ \E i \in SessionIds, m \in Matches : BeginDelete(TheSlot, i, TutorUser[m])
  \/ Continue(TheSlot) \/ Crash(TheSlot)
  \/ \E m \in Matches : MoveMatch(m)

TeachingInit ==
  /\ ReviewInit
  /\ \/ part = "lessons"
     \/ part = "reviews" /\ \A m \in Matches : status[m] = "active"

TeachingNext ==
  /\ UNCHANGED part
  /\ \/ part = "lessons" /\ Next /\ UNCHANGED reviewVars
     \/ part = "reviews" /\ FewLessons /\ UNCHANGED reviewVars
     \/ part = "reviews" /\ ReviewStep

TeachingSpec == TeachingInit /\ [][TeachingNext]_teachingVars
=============================================================================
