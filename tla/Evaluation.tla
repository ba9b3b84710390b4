------------------------------ MODULE Evaluation ------------------------------
(***************************************************************************)
(* Grading a conversation on its page: GradingPanel keeps a form that      *)
(* starts from the stored evaluation and is saved as a whole.              *)
(*                                                                         *)
(* The page, and with it the form, is kept when the user goes on to the    *)
(* next turn of the session.  A form that was never touched then takes     *)
(* over the evaluation of the conversation shown; a touched one stays as   *)
(* it is, and one that was saved counts as touched.                        *)
(***************************************************************************)
CONSTANT Conversation

VARIABLES
    label,       \* archive: the evaluation of every conversation
    graded,      \* the conversation shown, with its evaluation as it was read
    form,        \* values of the form
    formTouched, \* isTouched
    edited,      \* history: the fields the user changed since it is shown
    grading,     \* the request under way: isSubmitting
    rereading,   \* router.invalidate: the page is being read again
    carried      \* history: a touched form was kept for another evaluation

evalVars == <<label, graded, form, formTouched, edited, grading, rereading, carried>>
Rests == UNCHANGED evalVars

-----------------------------------------------------------------------------
(* A rating, and one field for the correction and the tags. *)
Field == {"rating", "note"}
Values == [Field -> {"none", "some"}]
NoGrade == [of |-> "nothing"]

EvalTypeOK ==
    /\ label \in [Conversation -> Values]
    /\ graded \in [of : Conversation, stored : Values]
    /\ form \in Values /\ formTouched \in BOOLEAN /\ edited \subseteq Field
    /\ grading = NoGrade \/ grading \in [of : Conversation, values : Values]
    /\ rereading \in BOOLEAN /\ carried \in BOOLEAN
    /\ ~formTouched => form = graded.stored
    /\ edited # {} \/ carried => formTouched

Init ==
    /\ label \in [Conversation -> Values]
    /\ \E c \in Conversation : graded = [of |-> c, stored |-> label[c]]
    /\ form = graded.stored /\ formTouched = FALSE /\ edited = {}
    /\ grading = NoGrade /\ rereading = FALSE /\ carried = FALSE

-----------------------------------------------------------------------------
\* Mutant: the form takes over the rating only.
Defaults_RatingOnly(stored) == [form EXCEPT !["rating"] = stored["rating"]]

(* The values a form starts from. *)
Defaults(stored) == stored

(* The page shows conversation c as it is stored, also of a page read      *)
(* earlier: it is as if another tab graded it just afterwards.             *)
Show(c) ==
    /\ graded' = [of |-> c, stored |-> label[c]]
    /\ IF formTouched THEN carried' = (carried \/ label[c] # form) /\ UNCHANGED form
       ELSE form' = Defaults(label[c]) /\ UNCHANGED carried

(* The user changes a field. *)
Edit(f, v) ==
    /\ form[f] # v /\ form' = [form EXCEPT ![f] = v]
    /\ formTouched' = TRUE /\ edited' = edited \union {f}
    /\ UNCHANGED <<label, graded, grading, rereading, carried>>

(* Another turn of the session. *)
TurnTo(c) ==
    /\ c # graded.of /\ Show(c) /\ edited' = {} /\ rereading' = FALSE
    /\ UNCHANGED <<label, formTouched, grading>>

(* onSubmit: the form is sent for the conversation shown. *)
SendGrade ==
    /\ grading = NoGrade
    /\ grading' = [of |-> graded.of, values |-> form]
    /\ formTouched' = TRUE
    /\ UNCHANGED <<label, graded, form, edited, rereading, carried>>

(* gradeInteraction stores it; the page is read again, unless the answer   *)
(* was lost.                                                               *)
GradeStored(answered) ==
    /\ grading # NoGrade /\ grading' = NoGrade
    /\ label' = [label EXCEPT ![grading.of] = grading.values]
    /\ rereading' = (rereading \/ answered)
    /\ UNCHANGED <<graded, form, formTouched, edited, carried>>

(* It is not stored. *)
GradeFails ==
    /\ grading # NoGrade /\ grading' = NoGrade
    /\ UNCHANGED <<label, graded, form, formTouched, edited, rereading, carried>>

Reread ==
    /\ rereading /\ rereading' = FALSE /\ Show(graded.of)
    /\ UNCHANGED <<label, formTouched, edited, grading>>

\* Mutant: the correction and the tags are emptied.
Rated_Whole(c, v) == [f \in Field |-> IF f = "rating" THEN v ELSE "none"]

(* bulkGradeInteractions, in the list of another tab: the rating alone. *)
Rated(c, v) == [label[c] EXCEPT !["rating"] = v]

BulkGrade(c, v) ==
    /\ label[c]["rating"] # v
    /\ label' = [label EXCEPT ![c] = Rated(c, v)]
    /\ UNCHANGED <<graded, form, formTouched, edited, grading, rereading, carried>>

Next ==
    \/ \E f \in Field, v \in {"none", "some"} : Edit(f, v)
    \/ \E c \in Conversation : TurnTo(c)
    \/ SendGrade \/ GradeFails \/ Reread
    \/ \E answered \in BOOLEAN : GradeStored(answered)
    \/ \E c \in Conversation, v \in {"none", "some"} : BulkGrade(c, v)

Spec == Init /\ [][Next]_evalVars

-----------------------------------------------------------------------------
(* What is sent for a conversation is the whole form: what the user has    *)
(* not changed goes as it was shown, also when another tab has changed it  *)
(* since; unless a touched form was kept for it.  What the user wrote is   *)
(* only changed by writing it.                                             *)
GradeIsOfThePage ==
    [][/\ grading = NoGrade /\ grading' # NoGrade /\ ~carried =>
            \A f \in Field \ edited : grading'.values[f] = graded.stored[f]
       /\ \A c \in Conversation : label'[c]["note"] # label[c]["note"] =>
            grading # NoGrade /\ grading.of = c]_evalVars
=============================================================================
