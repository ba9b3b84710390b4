----------------------------- MODULE TableSearch -----------------------------
(***************************************************************************)
(* The search box of the console's tables (useTableParams): what is typed  *)
(* goes into the URL when the user pauses, and the box follows the URL.    *)
(*                                                                         *)
(* The router takes a navigation at once and renders it later; the next    *)
(* one starts from what it has taken.  The hook sees what is rendered.     *)
(***************************************************************************)
EXTENDS Naturals

CONSTANTS
    Text,      \* searches, "" among them
    Page

VARIABLES
    typed,     \* searchInput
    debounce,  \* the timer of the search runs
    taken,     \* the location the router has taken
    rendered,  \* the one the hook sees
    behind     \* history: text was typed while the router was behind, or Back
               \* came while it was, or while the timer ran

searchVars == <<typed, debounce, taken, rendered, behind>>
SearchRests == UNCHANGED searchVars

-----------------------------------------------------------------------------
Location == [q : Text, page : Page]

SearchTypeOK ==
    /\ typed \in Text /\ debounce \in BOOLEAN /\ behind \in BOOLEAN
    /\ taken \in Location /\ rendered \in Location
    /\ debounce => typed # rendered.q

SearchInit ==
    /\ taken \in [q : Text, page : {1}] /\ rendered = taken
    /\ typed = taken.q /\ debounce = FALSE /\ behind = FALSE

-----------------------------------------------------------------------------
(* The effect of the timer, after a change of the box or of the URL. *)
Debounce(box, q) == debounce' = (box # q)

Type(t) ==
    /\ t # typed /\ typed' = t
    /\ Debounce(t, rendered.q)
    /\ behind' = ((behind /\ debounce) \/ taken # rendered)
    /\ UNCHANGED <<taken, rendered>>

\* Mutant: the page is kept.
Searched_KeepsPage == [taken EXCEPT !.q = typed]

(* update with the text typed: the first page of the search. *)
Searched == [q |-> typed, page |-> 1]

(* The timer fires; it is not set again before the URL or the box changes. *)
SearchFires ==
    /\ debounce /\ debounce' = FALSE
    /\ taken' = Searched
    /\ UNCHANGED <<typed, rendered, behind>>

(* Another page, sort, size or filter. *)
SetPage(p) ==
    /\ p # taken.page /\ taken' = [taken EXCEPT !.page = p]
    /\ UNCHANGED <<typed, debounce, rendered, behind>>

(* Back, or forward. *)
GoBack(l) ==
    /\ l # taken /\ taken' = l
    /\ behind' = (behind \/ debounce \/ taken # rendered)
    /\ UNCHANGED <<typed, debounce, rendered>>

\* Mutant: the box does not follow the URL.
Render_KeepsBox ==
    /\ rendered # taken /\ rendered' = taken
    /\ UNCHANGED <<typed, debounce, taken, behind>>

(* The router renders: when the search changes the box takes it over.      *)
Render ==
    /\ rendered # taken /\ rendered' = taken
    /\ IF taken.q = rendered.q THEN UNCHANGED <<typed, debounce, behind>>
       ELSE /\ typed' = taken.q /\ Debounce(taken.q, taken.q) /\ behind' = FALSE
    /\ UNCHANGED taken

SearchNext ==
    \/ \E t \in Text : Type(t)
    \/ SearchFires \/ Render
    \/ \E p \in Page : SetPage(p)
    \/ \E l \in Location : GoBack(l)

SearchSpec == SearchInit /\ [][SearchNext]_searchVars

-----------------------------------------------------------------------------
(* When nothing is under way, the box says what the table shows; unless    *)
(* Back crossed the navigation of a search: the box keeps its text then.   *)
BoxIsTheSearch == ~debounce /\ taken = rendered /\ ~behind => typed = rendered.q

(* What is being typed is taken back only by a navigation that was under   *)
(* way when it was typed, or by Back; and a search that the box starts     *)
(* shows its first page.                                                   *)
TypingIsKept ==
    [][/\ debounce /\ ~behind /\ rendered' # rendered => typed' = typed
       /\ debounce /\ ~debounce' /\ taken' # taken => taken'.page = 1]_searchVars
=============================================================================
