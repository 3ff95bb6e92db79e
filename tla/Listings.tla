------------------------------ MODULE Listings ------------------------------
(***************************************************************************)
(* Drafts of one seller and the tags of its products                       *)
(* (internal/modules/catalog, Draft and ReplaceTags).                      *)
(*                                                                         *)
(* Each call is one transaction.  It counts the uses of tags one row at a  *)
(* time, each row locked to the commit, in the order the seller lists      *)
(* them; two calls may wait for each other, and InTx runs the victim       *)
(* again.  All titles make one slug.  Nothing in this code wrangles tags:  *)
(* which are synonyms and which are banned is given.                       *)
(***************************************************************************)
EXTENDS Naturals, Sequences, FiniteSets, Relation

CONSTANTS
    Products,     \* rows of products
    Edits,        \* calls of Draft and ReplaceTags
    Canonical,    \* resolve_tag: for each tag (by its slug), the tag its uses count for
    Banned,       \* tags that are banned or rejected
    Lists,        \* what a seller may list
    MaxEditReruns \* DB.maxRetry

Tags == DOMAIN Canonical

ASSUME ListingBounds ==
    /\ Canonical \in [Tags -> Tags]
    /\ \A t \in Tags : Canonical[Canonical[t]] = Canonical[t]
    /\ Banned \subseteq Tags /\ Lists \subseteq Seq(Tags)
    /\ MaxEditReruns \in Nat

VARIABLES
    listing, \* the slug of each product: "none" before it, "title", or "made up"
    tagged,  \* product_tags
    usage,   \* tags.usage_count
    edit,    \* the calls in flight
    doubled  \* history: tags of which a product that was tagged anew had had two names

listingVars == <<listing, tagged, usage, edit, doubled>>

NotEditing ==
    [at |-> "idle", of |-> {}, slug |-> "none", list |-> <<>>, given |-> <<>>, todo |-> {},
     rows |-> {}, counts |-> <<>>, reruns |-> 0]

ListingInit ==
    /\ listing = [p \in Products |-> "none"]
    /\ tagged = [p \in Products |-> {}]
    /\ usage = [t \in Tags |-> 0]
    /\ edit = [e \in Edits |-> NotEditing]
    /\ doubled = {}

----------------------------------------------------------------------------
(* Rows and their locks. *)

\* A product another call has inserted or locked.
ProductFree(p, e) == \A d \in Edits \ {e} : p \notin edit[d].of

\* The tags a call has locked are those whose count it has read.
TagFree(t, e) == \A d \in Edits \ {e} : t \notin DOMAIN edit[d].counts

Uses(t, e) == IF t \in DOMAIN edit[e].counts THEN edit[e].counts[t] ELSE usage[t]

\* e locks t and leaves it with n uses.
Counted(e, t, n) ==
    [x \in DOMAIN edit[e].counts \cup {t} |-> IF x = t THEN n ELSE edit[e].counts[x]]

\* May begin, for the first time or again.
Ready(e, p) == edit[e].at = "idle" \/ (edit[e].at = "again" /\ edit[e].of = {p})

Given(e) == IF edit[e].at = "again" THEN {edit[e].given} ELSE Lists

----------------------------------------------------------------------------
(* Draft. *)

\* uniqueSlug: the title's slug, unless a committed product of the seller has it.
DraftBegins(e, p) ==
    /\ Ready(e, p)
    /\ listing[p] = "none" /\ ProductFree(p, e)
    /\ \E list \in Given(e) :
          edit' = [edit EXCEPT ![e] =
              [NotEditing EXCEPT !.at = "drafting", !.of = {p}, !.list = list, !.given = list,
                                 !.reruns = edit[e].reruns,
                                 !.slug = IF \E q \in Products : listing[q] = "title"
                                          THEN "made up" ELSE "title"]]
    /\ UNCHANGED <<listing, tagged, usage, doubled>>

\* Another call has inserted the slug and not committed.
SlugHeld(e) ==
    /\ edit[e].slug = "title"
    /\ \E d \in Edits \ {e} : edit[d].slug = "title" /\ edit[d].at \in {"tagging", "counting"}

\* UNIQUE (seller_id, slug): the second of two drafts waits for the first, and fails once
\* that one is committed; InTx does not run it again.
DraftInserts(e) ==
    /\ edit[e].at = "drafting" /\ ~ SlugHeld(e)
    /\ edit' = [edit EXCEPT ![e] =
          IF edit[e].slug = "title" /\ \E q \in Products : listing[q] = "title"
          THEN [NotEditing EXCEPT !.at = "done"]
          ELSE [edit[e] EXCEPT !.at = "tagging"]]
    /\ UNCHANGED <<listing, tagged, usage, doubled>>

----------------------------------------------------------------------------
(* ReplaceTags. *)

\* Mutant of TakenFrom: the tags of the rows, not those they count for.
TakenFromRows(p) == tagged[p]

\* The tags that lose a use: one each, however many rows count for it.
TakenFrom(p) == {Canonical[t] : t \in tagged[p]}

\* ownedProduct locks the product.
ReplaceBegins(e, p) ==
    /\ Ready(e, p)
    /\ listing[p] # "none" /\ ProductFree(p, e)
    /\ \E list \in Given(e) :
          edit' = [edit EXCEPT ![e] =
              [NotEditing EXCEPT !.at = "clearing", !.of = {p}, !.list = list, !.given = list,
                                 !.reruns = edit[e].reruns, !.todo = TakenFrom(p)]]
    /\ UNCHANGED <<listing, tagged, usage, doubled>>

\* GREATEST (usage_count - 1, 0), row by row.
TakeUse(e, t) ==
    /\ edit[e].at = "clearing"
    /\ t \in edit[e].todo /\ TagFree(t, e)
    /\ edit' = [edit EXCEPT
          ![e].todo = @ \ {t},
          ![e].counts = Counted(e, t, IF Uses(t, e) > 0 THEN Uses(t, e) - 1 ELSE 0)]
    /\ UNCHANGED <<listing, tagged, usage, doubled>>

\* The product's rows are deleted.
RowsCleared(e) ==
    /\ edit[e].at = "clearing" /\ edit[e].todo = {}
    /\ edit' = [edit EXCEPT ![e].at = "tagging"]
    /\ UNCHANGED <<listing, tagged, usage, doubled>>

----------------------------------------------------------------------------
(* applyTags. *)

Next1(e) == Head(edit[e].list)

\* The tag is created or fetched, and locked either way; one that is banned, or listed
\* already, is passed over.
UpsertTag(e) ==
    /\ edit[e].at = "tagging" /\ edit[e].list # <<>>
    /\ LET t == Next1(e) IN
       /\ TagFree(t, e)
       /\ edit' = [edit EXCEPT ![e] =
             [edit[e] EXCEPT !.counts = Counted(e, t, Uses(t, e)),
                             !.at = IF t \in Banned \cup edit[e].rows THEN "tagging" ELSE "counting",
                             !.list = IF t \in Banned \cup edit[e].rows THEN Tail(@) ELSE @,
                             !.rows = IF t \in Banned THEN @ ELSE @ \cup {t}]]
    /\ UNCHANGED <<listing, tagged, usage, doubled>>

\* The tag its row counts for has one use more.
CountUse(e) ==
    /\ edit[e].at = "counting"
    /\ LET t == Canonical[Next1(e)] IN
       /\ TagFree(t, e)
       /\ edit' = [edit EXCEPT ![e].counts = Counted(e, t, Uses(t, e) + 1),
                               ![e].list = Tail(@), ![e].at = "tagging"]
    /\ UNCHANGED <<listing, tagged, usage, doubled>>

NamesOf(p, t) == {x \in tagged[p] : Canonical[x] = t}

EditCommits(e) ==
    /\ edit[e].at = "tagging" /\ edit[e].list = <<>>
    /\ \E p \in edit[e].of :
          /\ listing' = [listing EXCEPT ![p] = IF @ = "none" THEN edit[e].slug ELSE @]
          /\ tagged' = [tagged EXCEPT ![p] = edit[e].rows]
          /\ doubled' = doubled \cup {t \in Tags : Cardinality(NamesOf(p, t)) > 1}
    /\ usage' = [t \in Tags |-> Uses(t, e)]
    /\ edit' = [edit EXCEPT ![e] = [NotEditing EXCEPT !.at = "done"]]

----------------------------------------------------------------------------
(* What the database rolls back. *)

WaitsForTags(e) ==
    CASE edit[e].at = "clearing" -> edit[e].todo
      [] edit[e].at = "tagging" /\ edit[e].list # <<>> -> {Next1(e)}
      [] edit[e].at = "counting" -> {Canonical[Next1(e)]}
      [] OTHER -> {}

Obstructs ==
    [e, d \in Edits |-> e # d /\ WaitsForTags(e) \cap DOMAIN edit[d].counts # {}]

\* One of a circle is the victim; InTx runs it again while it may.
EditDeadlocks(e) ==
    /\ TransitiveClosure(Obstructs, Edits)[e, e]
    /\ edit' = [edit EXCEPT ![e] =
          IF edit[e].reruns < MaxEditReruns
          THEN [NotEditing EXCEPT !.at = "again", !.of = edit[e].of, !.given = edit[e].given,
                                  !.reruns = edit[e].reruns + 1]
          ELSE [NotEditing EXCEPT !.at = "done"]]
    /\ UNCHANGED <<listing, tagged, usage, doubled>>

\* The connection or the caller is lost.
EditLost(e) ==
    /\ edit[e].at \notin {"idle", "done"}
    /\ edit' = [edit EXCEPT ![e] = [NotEditing EXCEPT !.at = "done"]]
    /\ UNCHANGED <<listing, tagged, usage, doubled>>

Draft(e) == DraftInserts(e) \/ \E p \in Products : DraftBegins(e, p)

ReplaceTags(e) ==
    \/ \E p \in Products : ReplaceBegins(e, p)
    \/ \E t \in edit[e].todo : TakeUse(e, t)
    \/ RowsCleared(e)

ApplyTags(e) == UpsertTag(e) \/ CountUse(e)

ListingNext ==
    \E e \in Edits :
        \/ Draft(e) \/ ReplaceTags(e) \/ ApplyTags(e)
        \/ EditCommits(e) \/ EditDeadlocks(e) \/ EditLost(e)

ListingSpec == ListingInit /\ [][ListingNext]_listingVars

----------------------------------------------------------------------------
(* Properties. *)

ListingTypeOK ==
    /\ listing \in [Products -> {"none", "title", "made up"}]
    /\ tagged \in [Products -> SUBSET (Tags \ Banned)]
    /\ usage \in [Tags -> Nat]
    /\ \A e \in Edits : edit[e].reruns \in 0 .. MaxEditReruns /\ DOMAIN edit[e].counts \subseteq Tags
    /\ doubled \subseteq Tags

RowsOfTag(t) == {r \in Products \X Tags : r[2] \in NamesOf(r[1], t)}

\* tags.go:97: "Usage counts follow the rows".  However edits interleave, wait, are run
\* again or are lost, a tag is never counted less often than products are tagged with it
\* or with a synonym, and exactly as often, but for the tags of which a product had two
\* names when its tags were replaced; and two products never have one slug.
UsageFollowsRows ==
    /\ \A t \in Tags :
          /\ usage[t] >= Cardinality(RowsOfTag(t))
          /\ t \notin doubled => usage[t] = Cardinality(RowsOfTag(t))
    /\ \A p, q \in Products : listing[p] = "title" /\ listing[q] = "title" => p = q

=============================================================================
