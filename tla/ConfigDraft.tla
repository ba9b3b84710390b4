----------------------------- MODULE ConfigDraft -----------------------------
(***************************************************************************)
(* The configuration page of a Domia: the query that reads it, the draft   *)
(* the workspace keeps (useConfigDraft), and its save.                     *)
(*                                                                         *)
(* A configuration is one scalar field and the list of skill providers     *)
(* (delegations are a list handled alike), which a save sends whole.  The  *)
(* node numbers what it stores: desiredRevision grows with every write,    *)
(* also one it reverts.  configDraftKey hashes the text of the             *)
(* configuration; here the text itself is the key.                         *)
(***************************************************************************)
EXTENDS Naturals

CONSTANTS
    Value,      \* values of the field
    Provider,   \* skill providers
    Mine,       \* bound: those the user adds or removes
    Save,       \* saves that may be under way together
    Archived,   \* bound: what the node starts with, all the archive has
    MaxWrites   \* bound: writes the node stores

VARIABLES
    stored,     \* the configuration of the node
    rev,        \* its desiredRevision
    query,      \* what the query shows
    fetch,      \* the request of the query
    base,       \* baseline, skillBaseline
    draft,      \* draft, skillProviders
    saves,      \* what each save sent, and how far it is
    known,      \* history: newest revision a save of the page was answered for
    touched     \* history: what the user changed in this draft

configVars == <<stored, rev, query, fetch, base, draft, saves, known, touched>>
Rests == UNCHANGED configVars

-----------------------------------------------------------------------------
Config == [field : Value, list : SUBSET Provider]
Shown == [src : {"live", "snapshot"}, rev : 0 .. MaxWrites, config : Config]
            \union {[src |-> "none"]}
Part == {"field"} \union Provider

DraftTypeOK ==
    /\ stored \in Config /\ rev \in 0 .. MaxWrites
    /\ query \in Shown
    /\ fetch \in {[at |-> "none"], [at |-> "asked"]} \union [at : {"read"}, got : Shown]
    /\ base \in Config /\ draft \in Config
    /\ \A k \in Save : saves[k].at \in {"none", "sent", "applied"}
    /\ known \in 0 .. rev /\ touched \subseteq Part
    /\ touched = {} => draft = base

Init ==
    /\ stored = Archived /\ rev = 0
    /\ query = [src |-> "none"] /\ fetch = [at |-> "asked"]
    /\ base = stored /\ draft = stored
    /\ saves = [k \in Save |-> [at |-> "none"]]
    /\ known = 0 /\ touched = {}

-----------------------------------------------------------------------------
(* The query.                                                              *)

Idle == fetch = [at |-> "none"]
Asked == [at |-> "asked"]

(* It is mounted anew, its data is stale, or the browser is online again. *)
Refetch ==
    /\ Idle /\ fetch' = Asked
    /\ UNCHANGED <<stored, rev, query, base, draft, saves, known, touched>>

Live == [src |-> "live", rev |-> rev, config |-> stored]
Snapshot == [src |-> "snapshot", rev |-> 0, config |-> Archived]

(* getConfig: what the node answers, else what the archive has, else (and  *)
(* when the call itself fails) an error.                                   *)
Read(got) ==
    /\ fetch = Asked
    /\ fetch' = [at |-> "read", got |-> got]
    /\ UNCHANGED <<stored, rev, query, base, draft, saves, known, touched>>

\* Mutant: the key is the configuration alone.
Key_NoRevision(q) == IF q.src = "none" THEN q ELSE q.config

(* configDraftKey.  Without data the workspace is not shown. *)
Key(q) == IF q.src = "none" THEN q ELSE [rev |-> q.rev, config |-> q.config]

(* The answer is shown: with another key the workspace is mounted anew. *)
FetchAnswered ==
    /\ fetch.at = "read"
    /\ query' = fetch.got /\ fetch' = [at |-> "none"]
    /\ IF Key(query') = Key(query) \/ query'.src = "none"
       THEN UNCHANGED <<base, draft, touched>>
       ELSE /\ base' = query'.config /\ draft' = query'.config
            /\ touched' = {}
    /\ saves' = IF Key(query') = Key(query) THEN saves
                ELSE [k \in Save |-> IF saves[k].at \in {"sent", "applied"}
                                     THEN [saves[k] EXCEPT !.own = FALSE] ELSE saves[k]]
    /\ UNCHANGED <<stored, rev, known>>

-----------------------------------------------------------------------------
(* The workspace; a snapshot is read-only.  Bound: the user changes a part *)
(* of a draft once, and nothing after the last write.                      *)

Dirty == draft # base
Pending == \E k \in Save : saves[k].at \in {"sent", "applied"} /\ saves[k].own

EditField(v) ==
    /\ query.src = "live" /\ rev < MaxWrites /\ v # draft.field /\ "field" \notin touched
    /\ draft' = [draft EXCEPT !.field = v]
    /\ touched' = touched \union {"field"}
    /\ UNCHANGED <<stored, rev, query, fetch, base, saves, known>>

(* A provider is added to the list, or removed. *)
EditList(p) ==
    /\ query.src = "live" /\ rev < MaxWrites /\ p \notin touched
    /\ draft' = [draft EXCEPT !.list = IF p \in @ THEN @ \ {p} ELSE @ \union {p}]
    /\ touched' = touched \union {p}
    /\ UNCHANGED <<stored, rev, query, fetch, base, saves, known>>

\* Mutant: the fields only.
Reset_FieldsOnly ==
    /\ query.src = "live" /\ Dirty
    /\ draft' = [draft EXCEPT !.field = base.field] /\ touched' = {}
    /\ UNCHANGED <<stored, rev, query, fetch, base, saves, known>>

Reset ==
    /\ query.src = "live" /\ Dirty
    /\ draft' = base /\ touched' = {}
    /\ UNCHANGED <<stored, rev, query, fetch, base, saves, known>>

\* Mutant: the list is always sent.
Bundle_WithList == {"field" : f \in {v \in {draft.field} : v # base.field}} \union {"list"}

(* buildBundle: the changed fields, and the list if it has changed. *)
Bundle ==
    {"field" : f \in {v \in {draft.field} : v # base.field}}
        \union {"list" : l \in {x \in {draft.list} : x # base.list}}

(* "Save", unless one of this workspace is under way. *)
SaveSent(k) ==
    /\ query.src = "live" /\ Dirty /\ ~Pending
    /\ saves[k].at = "none"
    /\ saves' = [saves EXCEPT ![k] =
          [at |-> "sent", own |-> TRUE, bundle |-> Bundle, draft |-> draft,
           base |-> base, touched |-> touched, rev |-> 0]]
    /\ UNCHANGED <<stored, rev, query, fetch, base, draft, known, touched>>

Merge(s) ==
    [field |-> IF "field" \in s.bundle THEN s.draft.field ELSE stored.field,
     list |-> IF "list" \in s.bundle THEN s.draft.list ELSE stored.list]

(* The node stores the bundle, or reverts it; its answer is on its way, or *)
(* lost.                                                                   *)
SaveApplied(k, kept, answered) ==
    /\ saves[k].at = "sent" /\ rev < MaxWrites
    /\ rev' = rev + 1
    /\ stored' = IF kept THEN Merge(saves[k]) ELSE stored
    /\ saves' = [saves EXCEPT ![k] =
          IF answered THEN [saves[k] EXCEPT !.at = "applied", !.rev = rev + 1]
          ELSE [at |-> "none"]]
    /\ UNCHANGED <<query, fetch, base, draft, known, touched>>

(* The node cannot be reached or refuses: the draft stays as it is. *)
SaveFails(k) ==
    /\ saves[k].at = "sent"
    /\ saves' = [saves EXCEPT ![k] = [at |-> "none"]]
    /\ UNCHANGED <<stored, rev, query, fetch, base, draft, known, touched>>

\* Mutant: a request under way is not started again.
Invalidate_LetsRun == fetch' = IF Idle THEN Asked ELSE fetch

(* invalidateQueries cancels what is under way and asks again. *)
Invalidate == fetch' = Asked

(* onDone: commit takes the draft as it is now; a workspace that is gone   *)
(* takes nothing.                                                          *)
SaveAnswered(k) ==
    /\ saves[k].at = "applied"
    /\ saves' = [saves EXCEPT ![k] = [at |-> "none"]]
    /\ IF saves[k].own
       THEN base' = draft /\ touched' = {}
       ELSE UNCHANGED <<base, touched>>
    /\ known' = IF saves[k].rev > known THEN saves[k].rev ELSE known
    /\ Invalidate
    /\ UNCHANGED <<stored, rev, query, draft>>

-----------------------------------------------------------------------------
(* Others: another tab, a pairing of Home Assistant, the node itself.      *)

(* Bound: others write the field, or the list. *)
OtherWrites(c) ==
    /\ c # stored /\ (c.field = stored.field \/ c.list = stored.list)
    /\ rev < MaxWrites
    /\ stored' = c /\ rev' = rev + 1
    /\ UNCHANGED <<query, fetch, base, draft, saves, known, touched>>

Next ==
    \/ Refetch \/ FetchAnswered \/ Reset
    \/ \E q \in {Live, Snapshot, [src |-> "none"]} : Read(q)
    \/ \E v \in Value : EditField(v)
    \/ \E p \in Mine : EditList(p)
    \/ \E k \in Save :
          \/ SaveSent(k) \/ SaveFails(k) \/ SaveAnswered(k)
          \/ \E kept, answered \in BOOLEAN : SaveApplied(k, kept, answered)
    \/ \E c \in Config : OtherWrites(c)

Spec == Init /\ [][Next]_configVars

-----------------------------------------------------------------------------
Quiet == Idle /\ query.src = "live"

(* When no request is under way, the page is as new as the last save it    *)
(* was told of; and if nobody wrote since, its baseline is what the node   *)
(* stores, also after a revert.  An edit made while a save was under way   *)
(* counts as saved until the page has read the node again, and is dropped. *)
BaselineIsSaved ==
    Quiet =>
        /\ query.rev >= known
        /\ query.rev = rev => query.config = stored /\ base = stored

InList(p, c) == p \in c.list

(* A save changes at the node what the user changed in the draft, and      *)
(* nothing else; only a provider of which the node had since learned, or   *)
(* that it had dropped, goes with a list that is saved whole.              *)
SaveTouchesOnlyEdits ==
    [][\A k \in Save : saves[k].at = "sent" /\ rev' # rev /\ saves'[k].at # "sent" =>
         LET s == saves[k] IN
         /\ stored'.field # stored.field => "field" \in s.touched
         /\ \A p \in Provider : InList(p, stored') # InList(p, stored) =>
              \/ p \in s.touched
              \/ InList(p, stored) # InList(p, s.base) /\ s.touched \cap Provider # {}]_configVars
=============================================================================
