---------------------------- MODULE MCCatalogue ----------------------------
(* The catalogue: children and exams, a tutor's lists, and the search.  The
   three parts share no row that one of them writes and no lock, so a behaviour
   is of one part only: `part` says which, and TLC adds their states up
   instead of multiplying them. *)
EXTENDS Students, TutorLists, TutorSearch

VARIABLE part

Parts == {"children", "lists", "search"}

CatalogueInit ==
  /\ part \in Parts
  /\ StudentsInit /\ ListsInit /\ SearchInit
  /\ part # "search" => table = [t \in Tutors |-> [rate |-> 0, rating |-> 0]]
  /\ part # "search" => asked = [rate |-> 0, rating |-> 0, by |-> "newest"]

CatalogueNext ==
  /\ UNCHANGED part
  /\ \/ part = "children" /\ StudentsNext /\ UNCHANGED <<listVars, searchVars>>
     \/ part = "lists" /\ ListsNext /\ UNCHANGED <<studentVars, searchVars>>
     \/ part = "search" /\ SearchNext /\ UNCHANGED <<studentVars, listVars>>

catalogueVars == <<part, studentVars, listVars, searchVars>>

CatalogueSpec == CatalogueInit /\ [][CatalogueNext]_catalogueVars
=============================================================================
