------------------------------ MODULE KeptRows ------------------------------
(* The rows of a list view that stay after the query has lost them
   (flymail/frontend/src/lib/kept-rows.ts).  A row is a mail or a thread. *)

\* Mutant of NextKept: only the row that is open is kept, as in the first
\* version of the code, and it is lost when the list loses it.
NextKeptListed(kept, same, list, active) == {active} \cap list

\* nextKept: what was opened in this view; same says that the view is the one
\* the kept rows belong to.
NextKept(kept, same, list, active) ==
    (IF same THEN kept ELSE {}) \cup ({active} \cap list)

\* withKept: the kept rows the list lacks are put back in their place.
WithKept(list, kept) == list \cup kept
=============================================================================
