------------------------------ MODULE Catalog ------------------------------
(***************************************************************************)
(* What the registry promises those who download: commits that appear      *)
(* whole and never change, labels that always name such a commit, modules  *)
(* that come and go.  Everything module Registry does in many storage      *)
(* calls looks, from here, like one of five steps.                         *)
(*                                                                         *)
(* A download of a commit first looks up the commit's module: it succeeds  *)
(* when the commit is stored and its module is offered.                    *)
(***************************************************************************)
CONSTANT Forgetful  \* may a restart lose everything?

VARIABLES
    stored,         \* commits that are stored whole: [mod, files] by ID
    heads,          \* labels: the commit ID by <<module, name>>
    offered,        \* modules that can be looked up
    withdrawn       \* modules that somebody deleted, once or more

catalogVars == <<stored, heads, offered, withdrawn>>

CatalogInit ==
    /\ DOMAIN stored = {}
    /\ DOMAIN heads = {}
    /\ offered = {}
    /\ withdrawn = {}

\* One commit appears, complete; the others are as they were.  It can be
\* downloaded at once, unless its module was deleted during the push.
Publish ==
    /\ \E c \in DOMAIN stored' :
           /\ c \notin DOMAIN stored
           /\ DOMAIN stored' = DOMAIN stored \cup {c}
           /\ stored'[c].mod \in offered \cup withdrawn
    /\ \A c \in DOMAIN stored : stored'[c] = stored[c]
    /\ UNCHANGED <<heads, offered, withdrawn>>

\* One label moves to a stored commit of its module, or appears.
Move ==
    /\ \E l \in DOMAIN heads' :
           /\ DOMAIN heads' = DOMAIN heads \cup {l}
           /\ heads'[l] \in DOMAIN stored
           /\ stored[heads'[l]].mod = l[1]
           /\ \A k \in DOMAIN heads : k # l => heads'[k] = heads[k]
    /\ UNCHANGED <<stored, offered, withdrawn>>

\* A module is created; the commits of an earlier module of that name can be
\* downloaded again.
Offer ==
    /\ \E m \in offered' : offered' = offered \cup {m}
    /\ UNCHANGED <<stored, heads, withdrawn>>

\* A module is deleted: its commits stay, and cannot be downloaded.
Withdraw ==
    /\ \E m \in withdrawn' :
           /\ offered' = offered \ {m}
           /\ withdrawn' = withdrawn \cup {m}
    /\ UNCHANGED <<stored, heads>>

Forget ==
    /\ Forgetful
    /\ DOMAIN stored' = {}
    /\ DOMAIN heads' = {}
    /\ offered' = {}
    /\ UNCHANGED withdrawn

CatalogNext == Publish \/ Move \/ Offer \/ Withdraw \/ Forget

CatalogSpec == CatalogInit /\ [][CatalogNext]_catalogVars
=============================================================================
