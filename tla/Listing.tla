-------------------------------- MODULE Listing --------------------------------
(***************************************************************************)
(* The paged listings (ListSandboxes, and ListJobRuns and ListJobSchedules *)
(* with the same loop) and GetSandboxByName on top of one, while other     *)
(* clients create and delete what is listed.                               *)
(*                                                                         *)
(* The service is external: it lists in the order of Ids, its token stands *)
(* for the id the next page begins with, and the page size asked for is a  *)
(* hint, a page being longer, shorter or empty as the service likes.  One  *)
(* page is one exchange, retries under its own deadline included;          *)
(* ControlPlane has that loop.                                             *)
(***************************************************************************)
EXTENDS Naturals, Sequences, SequencesExt

CONSTANTS
  LastId,       \* ids are 1 .. LastId, in the order they are listed
  Limits,       \* limits passed to ListSandboxes; 0 is none
  ServerPage    \* bound: the most the service puts on a page

ASSUME ListingAssumption ==
  LastId \in Nat /\ Limits \subseteq Nat /\ ServerPage \in Nat \ {0}

Ids == 1 .. LastId

VARIABLES
  directory,    \* the service: what there is under each id
  stage,        \* of the call under way
  query,        \* its filter, its limit, and whether a sandbox is wanted
  pageToken,    \* first id the next page may have, 0 for no token
  results,      \* what the call has listed
  throughout,   \* ids that have matched ever since the call began
  outcome,      \* how the last call ended
  alone         \* no other sandbox had the name all the while it was looked up

listingVars == <<directory, stage, query, pageToken, results, throughout, outcome,
                 alone>>

\* "named": a sandbox with the name asked for; "other": one without it.
Entries  == {"absent", "named", "other", "gone"}
Outcomes == {"none", "listed", "found", "notFound", "ambiguous", "error"}
NoQuery  == [byName |-> FALSE, filter |-> FALSE, limit |-> 0]

ListingTypeOK ==
  /\ directory \in [Ids -> Entries]
  /\ stage \in {"idle", "page", "get"}
  /\ query \in [byName : BOOLEAN, filter : BOOLEAN, limit : Limits \cup {0, 1, 2}]
  /\ pageToken \in 0 .. LastId + 1
  /\ results \in Seq(Ids)
  /\ throughout \subseteq Ids
  /\ outcome \in Outcomes
  /\ alone \in BOOLEAN

ListingInit ==
  /\ directory \in [Ids -> {"absent", "named", "other"}]
  /\ stage = "idle" /\ query = NoQuery
  /\ pageToken = 0 /\ results = <<>> /\ throughout = {}
  /\ outcome = "none" /\ alone = TRUE

Matches(q, entry) == entry = "named" \/ (entry = "other" /\ ~q.filter)
Matching(q) == {i \in Ids : Matches(q, directory[i])}

\* The ids q matches that token has still to bring.
Rest(q, token) == {i \in Matching(q) : i >= token}

Increasing(s) == \A a, b \in DOMAIN s : a < b => s[a] < s[b]

\* What the service may put on a page, in the order of the listing.
Pages(rest) == {page \in SeqOf(rest, ServerPage) : Increasing(page)}

\* The tokens that leave for later what of rest is not on the page: the page is
\* the first of rest, or empty.  There may be none when nothing is left.
NextTokens(rest, page) ==
  {t \in pageToken .. LastId + 1 : t # 0 /\ \A i \in rest : i \in ToSet(page) <=> i < t}
    \cup (IF rest = ToSet(page) THEN {0} ELSE {})

-----------------------------------------------------------------------------
BeginListing(q) ==
  /\ stage = "idle"
  /\ stage' = "page" /\ query' = q
  /\ pageToken' = 0 /\ results' = <<>>
  /\ throughout' = Matching(q)
  /\ outcome' = "none"
  /\ UNCHANGED <<directory, alone>>

\* The other listings differ in what they filter by.
ListSandboxes ==
  \E l \in Limits, f \in BOOLEAN :
    BeginListing([byName |-> FALSE, filter |-> f, limit |-> l])

\* Variant: one result is enough.
FirstMatch == [byName |-> TRUE, filter |-> TRUE, limit |-> 1]

\* Two are enough to tell one match from more than one.
ByNameQuery == [byName |-> TRUE, filter |-> TRUE, limit |-> 2]

GetSandboxByName == BeginListing(ByNameQuery)

End(how) ==
  /\ stage' = "idle"
  /\ outcome' = how
  /\ UNCHANGED <<directory, query, pageToken, throughout, alone>>

\* What GetSandboxByName makes of the listing.
Listed(found) ==
  IF ~query.byName THEN End("listed")
  ELSE CASE Len(found) = 0 -> End("notFound")
         [] Len(found) = 1 -> /\ stage' = "get"
                              /\ UNCHANGED <<directory, query, pageToken,
                                             throughout, outcome, alone>>
         [] OTHER          -> End("ambiguous")

\* Variant: the limit is only looked at between pages.
WholePage(page) == results \o page

\* The results with a page appended, as far as the limit allows.
WithPage(page) ==
  LET room == query.limit - Len(results) IN
  IF query.limit > 0 /\ Len(page) > room THEN results \o SubSeq(page, 1, room)
  ELSE results \o page

\* Variant: the id after the token's.
PageAfterNext(next) == next + 1

\* The token of the next request.
NextToken(next) == next

\* Variant: one page is all there is.
OnePage(next, all) == TRUE

\* The listing is over: no token, or the limit reached.
NoMore(next, all) == next = 0 \/ (query.limit > 0 /\ Len(all) >= query.limit)

\* A page is answered and appended.  After an empty page with a token, too, the
\* loop goes on.
Page ==
  LET rest == Rest(query, pageToken) IN
  /\ stage = "page"
  /\ \E page \in Pages(rest) :
       \E next \in NextTokens(rest, page) :
         /\ results' = WithPage(page)
         /\ IF NoMore(next, WithPage(page))
            THEN Listed(WithPage(page))
            ELSE /\ pageToken' = NextToken(next)
                 /\ UNCHANGED <<directory, stage, query, throughout, outcome, alone>>

\* The retries or the deadline of the page are over, or it lists a sandbox
\* in a state the SDK does not know; GetSandbox fails, or finds nothing.
ListingFails ==
  /\ stage \in {"page", "get"}
  /\ End("error")
  /\ UNCHANGED results

\* The call and the service's list are not looked at again.
Forget ==
  /\ directory' = [i \in Ids |-> "gone"]
  /\ stage' = "idle" /\ query' = NoQuery
  /\ pageToken' = 0 /\ results' = <<>> /\ throughout' = {}

\* GetSandbox on the one id listed.  If it has gone meanwhile the call fails or
\* tells of a deleted sandbox.
GetFound ==
  /\ stage = "get"
  /\ outcome' = "found"
  /\ alone' = (throughout \subseteq {results[1]})
  /\ Forget

\* Other clients create and delete.
DirectoryChanges ==
  /\ \E i \in Ids :
       \/ /\ directory[i] = "absent"
          /\ \E e \in {"named", "other"} : directory' = [directory EXCEPT ![i] = e]
       \/ /\ directory[i] \in {"named", "other"}
          /\ directory' = [directory EXCEPT ![i] = "gone"]
  /\ throughout' = {i \in throughout : Matches(query, directory'[i])}
  /\ UNCHANGED <<stage, query, pageToken, results, outcome, alone>>

ListingStep == Page \/ ListingFails \/ DirectoryChanges
ListingNext == ListSandboxes \/ GetSandboxByName \/ ListingStep \/ GetFound
ListingSpec == ListingInit /\ [][ListingNext]_listingVars

-----------------------------------------------------------------------------
(***************************************************************************)
(* The properties.                                                         *)
(***************************************************************************)
\* However the pages are cut and whatever comes and goes between them, a
\* listing that succeeds has everything that matched all the while, unless
\* it is full.
ListsAll ==
  outcome = "listed" /\ (query.limit = 0 \/ Len(results) < query.limit) =>
    throughout \subseteq ToSet(results)

\* Nothing is listed twice, and no more than the limit.
ListsOnce ==
  /\ IsInjective(results)
  /\ query.limit > 0 => Len(results) <= query.limit
=============================================================================
