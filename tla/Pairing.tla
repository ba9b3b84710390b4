------------------------------- MODULE Pairing -------------------------------
(***************************************************************************)
(* Pairing a Domia with Home Assistant from the setup page: read the       *)
(* Domia's skill providers, put the new one in the place of the one it     *)
(* matches, send the whole list back, with the skills engine turned on     *)
(* (services/setup.ts).                                                    *)
(*                                                                         *)
(* Between the two requests others may save the list; and when the node    *)
(* does not answer the first, getConfig answers with what the collector    *)
(* archived last, and says so in a field that the pairing does not read.   *)
(***************************************************************************)
EXTENDS Naturals, SequencesExt

CONSTANTS
    Name, Url,
    Pair,       \* calls of pairHomeAssistant
    Chosen,     \* bound: what others choose of an entry (sets of Choice)
    MaxEdits    \* bound: lists saved by others

VARIABLES
    providers,  \* the node's list: names, addresses, and what of an entry
                \* is the user's own, and not the preset's
    skillsEngine,  \* the module of the node that uses them is on
    archive,    \* the list that the collector archived last
    pair,       \* how far a call is, its provider, the list it has read
    edits

pairVars == <<providers, skillsEngine, archive, pair, edits>>
Rests == UNCHANGED pairVars

-----------------------------------------------------------------------------
(* The trust tier, a configuration that is not empty, and the whitelist    *)
(* with the descriptor.                                                    *)
Choice == {"trust", "config", "tools"}
Kept == {"trust", "config"}

Entry == [name : Name, url : Url, own : SUBSET Choice]
Entries(list) == {list[i] : i \in DOMAIN list}

(* The lists one saves: a provider is known by its name. *)
Named(list) == \A i, j \in DOMAIN list : list[i].name = list[j].name => i = j
Saved == [name : Name, url : Url, own : Chosen]
Lists == {l \in UNION {[1 .. n -> Saved] : n \in 0 .. 2} : Named(l)}

NoPair == [at |-> "none", new |-> {}, list |-> <<>>]

PairTypeOK ==
    /\ Entries(providers) \subseteq Entry /\ Entries(archive) \subseteq Entry
    /\ skillsEngine \in BOOLEAN
    /\ \A c \in Pair :
          /\ pair[c].at \in {"none", "read", "over"}
          /\ pair[c].new \subseteq [name : Name, url : Url]
          /\ Entries(pair[c].list) \subseteq Entry
    /\ edits \in 0 .. MaxEdits

Init ==
    /\ providers \in Lists /\ archive = providers /\ skillsEngine \in BOOLEAN
    /\ pair = [c \in Pair |-> NoPair] /\ edits = 0

-----------------------------------------------------------------------------
(* getConfig: the node's list, or the archived one. *)
PairRead(c, new, live) ==
    /\ pair[c].at = "none"
    /\ pair' = [pair EXCEPT ![c] =
          [at |-> "read", new |-> {new}, list |-> IF live THEN providers ELSE archive]]
    /\ UNCHANGED <<providers, skillsEngine, archive, edits>>

(* The provider found: the first with the name or the address. *)
Matches(list, new) == {i \in DOMAIN list : list[i].name = new.name \/ list[i].url = new.url}
Previous(list, new) == {i \in Matches(list, new) : \A j \in Matches(list, new) : i <= j}

\* Mutant: only the name is compared, and what is found is not taken out.
Paired_Appended(list, new) ==
    Append(list, [name |-> new.name, url |-> new.url,
                  own |-> UNION {list[i].own \intersect Kept :
                                 i \in {k \in DOMAIN list : list[k].name = new.name}}])

(* The list without it. *)
Others(list, new) ==
    LET found == Previous(list, new) IN
    IF found = {} THEN list ELSE RemoveAt(list, CHOOSE i \in found : TRUE)

\* Mutant: nothing of it is taken over.
Paired_Preset(list, new) ==
    Append(Others(list, new), [name |-> new.name, url |-> new.url, own |-> {}])

(* [...others, next]: next takes over the trust tier, and the configuration *)
(* unless it is empty; its whitelist and its descriptor are the preset's.   *)
Paired(list, new) ==
    Append(Others(list, new),
           [name |-> new.name, url |-> new.url,
            own |-> UNION {list[i].own \intersect Kept : i \in Previous(list, new)}])

(* importConfig: the node puts the list in the place of its own and turns  *)
(* the skills engine on, also when its answer is lost.                     *)
PairImported(c) ==
    /\ pair[c].at = "read"
    /\ \E new \in pair[c].new : providers' = Paired(pair[c].list, new)
    /\ skillsEngine' = TRUE
    /\ pair' = [pair EXCEPT ![c].at = "over"]
    /\ UNCHANGED <<archive, edits>>

PairFails(c) ==
    /\ pair[c].at = "read" /\ pair' = [pair EXCEPT ![c].at = "over"]
    /\ UNCHANGED <<providers, skillsEngine, archive, edits>>

(* The collector archives the configuration of the node. *)
Archive ==
    /\ archive # providers /\ archive' = providers
    /\ UNCHANGED <<providers, skillsEngine, pair, edits>>

(* The configuration page, or another tool, saves a list, and turns the    *)
(* engine on or off.                                                       *)
EditProviders(list, on) ==
    /\ edits < MaxEdits /\ edits' = edits + 1
    /\ <<list, on>> # <<providers, skillsEngine>>
    /\ providers' = list /\ skillsEngine' = on
    /\ UNCHANGED <<archive, pair>>

Next ==
    \/ \E c \in Pair :
          \/ \E new \in [name : Name, url : Url], live \in BOOLEAN : PairRead(c, new, live)
          \/ PairImported(c) \/ PairFails(c)
    \/ Archive
    \/ \E list \in Lists, on \in BOOLEAN : EditProviders(list, on)

Spec == Init /\ [][Next]_pairVars

-----------------------------------------------------------------------------
(* A pairing replaces one provider, the one of its name or address, takes  *)
(* over the user's trust tier and configuration of it, leaves the others   *)
(* as they are, gives no name twice, and leaves the skills engine on.  The *)
(* exceptions: the node's list is not the one that was read (another was   *)
(* saved since, or the archived one was read and is older), and a list in  *)
(* which one provider has the name and another the address: the second of  *)
(* them stays.  The whitelist and the descriptor of the replaced provider  *)
(* are not kept.                                                           *)
PairingReplacesOne ==
    [][\A c \in Pair : \A new \in pair[c].new :
         /\ pair'[c].at = "over" /\ pair[c].at = "read" /\ providers' # providers
         /\ pair[c].list = providers /\ Named(providers)
         => LET old == Entries(providers) \ Entries(providers')
                add == Entries(providers') \ Entries(providers) IN
            /\ \A e \in old : e.name = new.name \/ e.url = new.url
            /\ \A e, f \in old : e = f
            /\ \A e \in add : e.name = new.name /\ e.url = new.url
            /\ \A e \in old, f \in add : f.own = e.own \intersect Kept
            /\ (\E e \in add : e.own # {}) => old # {}
            /\ Named(providers') \/ \E i, j \in Matches(providers, new) : i # j
            /\ skillsEngine']_pairVars
===============================================================================
