---------------------------- MODULE ReconnectProofs ----------------------------
(* Theorems about Listing, for any directory, limits and pages, and about   *)
(* Reconnect on top of it: the handle a lookup leads to is SandboxHandle's, *)
(* so what is proved of every handle holds of the ones found by name.       *)
EXTENDS Reconnect, SandboxHandleProofs, SequenceTheorems

(***************************************************************************)
(* Sequences of ids and pages of them.                                     *)
(***************************************************************************)
LEMMA PageProperties ==
  ASSUME NEW rest \in SUBSET Ids, NEW page \in Pages(rest)
  PROVE  /\ page \in Seq(Ids) /\ Increasing(page)
         /\ \A a \in 1 .. Len(page) : page[a] \in rest
<1>1. PICK m \in 0 .. ServerPage : page \in [1 .. m -> rest]
  BY DEF Pages, SeqOf
<1>2. m \in Nat
  BY ListingAssumption DEF ListingAssumption
<1>3. page \in Seq(rest)
  BY <1>1, <1>2
<1>4. page \in Seq(Ids)
  BY <1>3, SeqMonotonic
<1>5. DOMAIN page = 1 .. Len(page) /\ \A a \in 1 .. Len(page) : page[a] \in rest
  BY <1>3
<1> QED
  BY <1>4, <1>5 DEF Pages

\* A token leaves for later what is not on the page.
LEMMA TokenProperties ==
  ASSUME ListingTypeOK, NEW rest, NEW page, NEW next \in NextTokens(rest, page)
  PROVE  /\ next \in 0 .. LastId + 1
         /\ next # 0 => /\ next >= pageToken
                        /\ \A i \in rest : i \in ToSet(page) <=> i < next
         /\ next = 0 => ToSet(page) = rest
  BY ListingAssumption DEF NextTokens, ListingTypeOK, ListingAssumption

\* Appending to increasing ids others that are greater.
LEMMA IncreasingConcat ==
  ASSUME NEW s \in Seq(Ids), NEW t \in Seq(Ids), Increasing(s), Increasing(t),
         NEW token \in Nat, \A a \in 1 .. Len(s) : s[a] < token,
         \A a \in 1 .. Len(t) : t[a] >= token
  PROVE  Increasing(s \o t)
<1> SUFFICES ASSUME NEW a \in 1 .. Len(s) + Len(t), NEW b \in 1 .. Len(s) + Len(t), a < b
             PROVE  (s \o t)[a] < (s \o t)[b]
  BY DEF Increasing
<1>1. /\ \A i \in 1 .. Len(s) : s[i] \in Nat
      /\ \A i \in 1 .. Len(t) : t[i] \in Nat
  BY ListingAssumption DEF Ids
<1> DEFINE at(i) == IF i <= Len(s) THEN s[i] ELSE t[i - Len(s)]
<1>2. (s \o t)[a] = at(a) /\ (s \o t)[b] = at(b)
  BY ConcatProperties
<1>3. at(a) < at(b)
  <2>1. CASE b <= Len(s)
    BY <2>1 DEF Increasing
  <2>2. CASE a <= Len(s) /\ b > Len(s)
    <3>1. b - Len(s) \in 1 .. Len(t)
      BY <2>2
    <3> QED
      BY <2>2, <3>1, <1>1
  <2>3. CASE a > Len(s)
    <3>1. a - Len(s) \in 1 .. Len(t) /\ b - Len(s) \in 1 .. Len(t) /\ a - Len(s) < b - Len(s)
      BY <2>3
    <3> QED
      BY <2>3, <3>1 DEF Increasing
  <2> QED
    BY <2>1, <2>2, <2>3
<1> QED
  BY <1>2, <1>3

\* A prefix of an increasing sequence is increasing.
LEMMA IncreasingPrefix ==
  ASSUME NEW s \in Seq(Ids), Increasing(s), NEW n \in 0 .. Len(s)
  PROVE  /\ SubSeq(s, 1, n) \in Seq(Ids) /\ Len(SubSeq(s, 1, n)) = n
         /\ Increasing(SubSeq(s, 1, n))
         /\ \A a \in 1 .. n : SubSeq(s, 1, n)[a] = s[a]
<1>1. \A i \in 1 .. n : s[i] \in Ids
  OBVIOUS
<1>2. /\ SubSeq(s, 1, n) \in Seq(Ids) /\ Len(SubSeq(s, 1, n)) = n
      /\ \A a \in 1 .. n : SubSeq(s, 1, n)[a] = s[a]
  BY <1>1, SubSeqProperties
<1>3. DOMAIN SubSeq(s, 1, n) = 1 .. n
  BY <1>2
<1> QED
  BY <1>2, <1>3 DEF Increasing

\* An increasing sequence repeats nothing.
LEMMA IncreasingInjective ==
  ASSUME NEW s \in Seq(Ids), Increasing(s)
  PROVE  IsInjective(s)
<1> SUFFICES ASSUME NEW a \in DOMAIN s, NEW b \in DOMAIN s, s[a] = s[b] PROVE a = b
  BY DEF IsInjective
<1>1. a \in Nat /\ b \in Nat /\ s[a] \in Nat /\ s[b] \in Nat
  BY ListingAssumption DEF Ids
<1>2. ~(a < b) /\ ~(b < a)
  BY <1>1 DEF Increasing
<1> QED
  BY <1>1, <1>2

(***************************************************************************)
(* The inductive invariant.                                                *)
(***************************************************************************)
\* What has been listed reaches as far as the token, and has everything up
\* to there that has matched all the while.
PageInv ==
  stage = "page" =>
    /\ \A a \in 1 .. Len(results) : results[a] < pageToken
    /\ \A i \in throughout : i < pageToken => i \in ToSet(results)
    /\ query.limit > 0 => Len(results) < query.limit

\* The one sandbox found is all there was.
GetInv ==
  /\ query.byName => query = ByNameQuery
  /\ stage = "get" => Len(results) = 1 /\ throughout \subseteq ToSet(results)
  /\ alone

ListingInv ==
  /\ PageInv /\ GetInv /\ ListsAll
  /\ Increasing(results) /\ (query.limit > 0 => Len(results) <= query.limit)
  /\ stage # "idle" => outcome = "none"
  /\ throughout \subseteq Matching(query)

\* Every limit a query may have is a natural number.
LEMMA LimitsAreNat == Limits \cup {0, 1, 2} \subseteq Nat
<1>1. \A l \in Limits : l \in Nat
  BY ListingAssumption, Zenon
<1>2. \A l \in {0, 1, 2} : l \in Nat
  OBVIOUS
<1> QED
  BY <1>1, <1>2

\* So is that of the query under way.
LEMMA LimitIsNat ==
  ASSUME ListingTypeOK
  PROVE  query.limit \in Nat
<1>1. query.limit \in Limits \cup {0, 1, 2}
  BY DEF ListingTypeOK
<1> QED
  BY <1>1, LimitsAreNat

\* What a page makes of the results.
LEMMA WithPageProperties ==
  ASSUME ListingTypeOK, ListingInv, stage = "page",
         NEW page \in Pages(Rest(query, pageToken))
  PROVE  /\ WithPage(page) \in Seq(Ids) /\ Increasing(WithPage(page))
         /\ query.limit > 0 => Len(WithPage(page)) <= query.limit
         /\ query.limit > 0 /\ Len(WithPage(page)) < query.limit =>
              WithPage(page) = results \o page
         /\ query.limit = 0 => WithPage(page) = results \o page
<1> DEFINE rest == Rest(query, pageToken)
           room == query.limit - Len(results)
<1>1. rest \in SUBSET Ids /\ \A i \in rest : i >= pageToken
  BY DEF Rest, Matching
<1>2. /\ page \in Seq(Ids) /\ Increasing(page)
      /\ \A a \in 1 .. Len(page) : page[a] >= pageToken
  BY <1>1, PageProperties
<1>3. results \in Seq(Ids) /\ pageToken \in Nat /\ query.limit \in Nat
  BY LimitIsNat, ListingAssumption DEF ListingTypeOK, Ids
<1>4. /\ Increasing(results) /\ \A a \in 1 .. Len(results) : results[a] < pageToken
      /\ query.limit > 0 => room > 0
  BY <1>3 DEF ListingInv, PageInv
<1>5. CASE query.limit > 0 /\ Len(page) > room
  <2>1. room \in 0 .. Len(page)
    BY <1>2, <1>3, <1>4, <1>5
  <2> DEFINE head == SubSeq(page, 1, room)
  <2>2. /\ head \in Seq(Ids) /\ Len(head) = room /\ Increasing(head)
        /\ \A a \in 1 .. Len(head) : head[a] >= pageToken
    BY <1>2, <2>1, IncreasingPrefix
  <2>3. WithPage(page) = results \o head
    BY <1>5 DEF WithPage
  <2> HIDE DEF head
  <2>4. results \o head \in Seq(Ids) /\ Increasing(results \o head)
    BY <1>3, <1>4, <2>2, IncreasingConcat
  <2>5. Len(results \o head) = query.limit
    <3>1. Len(results \o head) = Len(results) + Len(head)
      BY <1>3, <2>2, ConcatProperties
    <3> QED
      BY <1>3, <2>2, <3>1, LenProperties
  <2>6. Len(WithPage(page)) = query.limit
    BY <2>3, <2>5 DEF head
  <2> QED
    BY <1>3, <1>5, <2>3, <2>4, <2>6 DEF head
<1>6. CASE ~(query.limit > 0 /\ Len(page) > room)
  <2>1. WithPage(page) = results \o page
    BY <1>6 DEF WithPage
  <2>2. results \o page \in Seq(Ids) /\ Increasing(results \o page)
    BY <1>2, <1>3, <1>4, IncreasingConcat
  <2>3. query.limit > 0 => Len(results \o page) <= query.limit
    BY <1>2, <1>3, <1>6
  <2> QED
    BY <2>1, <2>2, <2>3
<1> QED
  BY <1>5, <1>6

\* A page that is appended whole takes along all that matches before its token.
LEMMA NothingSkipped ==
  ASSUME ListingTypeOK, ListingInv, stage = "page",
         NEW page \in Pages(Rest(query, pageToken)), WithPage(page) = results \o page,
         NEW next \in NextTokens(Rest(query, pageToken), page),
         NEW i \in throughout, next = 0 \/ i < next
  PROVE  i \in ToSet(WithPage(page))
<1> DEFINE rest == Rest(query, pageToken)
<1>1. /\ rest \in SUBSET Ids /\ page \in Seq(Ids) /\ results \in Seq(Ids)
  BY PageProperties DEF Rest, Matching, ListingTypeOK
<1>2. i \in Ids /\ i \in Nat /\ pageToken \in Nat
  BY ListingAssumption DEF ListingTypeOK, Ids
<1>3. CASE i < pageToken
  <2>1. PICK a \in 1 .. Len(results) : results[a] = i
    BY <1>1, <1>3 DEF ListingInv, PageInv, ToSet
  <2>2. (results \o page)[a] = i /\ a \in DOMAIN (results \o page)
    BY <1>1, <2>1, ConcatProperties, LenProperties
  <2> QED
    BY <2>2 DEF ToSet
<1>4. CASE i >= pageToken
  <2>1. i \in rest
    BY <1>2, <1>4 DEF ListingInv, Rest
  <2>2. i \in ToSet(page)
    BY <2>1, TokenProperties
  <2>3. PICK a \in 1 .. Len(page) : page[a] = i
    BY <1>1, <2>2 DEF ToSet
  <2>4. /\ Len(results) + a \in 1 .. Len(results) + Len(page)
        /\ ~(Len(results) + a <= Len(results)) /\ Len(results) + a - Len(results) = a
    BY <1>1, <2>3
  <2>5. (results \o page)[Len(results) + a] = i /\ Len(results) + a \in DOMAIN (results \o page)
    BY <1>1, <2>3, <2>4, ConcatProperties, LenProperties
  <2> QED
    BY <2>5 DEF ToSet
<1> QED
  BY <1>2, <1>3, <1>4

(***************************************************************************)
(* Each step keeps the types and the invariant.                            *)
(***************************************************************************)
LEMMA ListingInitInv == ListingInit => ListingTypeOK /\ ListingInv
<1> SUFFICES ASSUME ListingInit PROVE ListingTypeOK /\ ListingInv
  OBVIOUS
<1>1. ListingTypeOK
  BY ListingAssumption DEF ListingAssumption, ListingInit, ListingTypeOK, Entries, Outcomes,
     NoQuery
<1>2. ListingInv
  BY DEF ListingInit, ListingInv, PageInv, GetInv, ListsAll, Increasing, NoQuery
<1> QED
  BY <1>1, <1>2

\* A listing begins.
LEMMA BeginKeeps ==
  ASSUME ListingTypeOK, ListingInv,
         NEW q \in [byName : BOOLEAN, filter : BOOLEAN, limit : Limits \cup {0, 1, 2}],
         q.byName => q = ByNameQuery, BeginListing(q)
  PROVE  ListingTypeOK' /\ ListingInv'
<1> USE DEF BeginListing
<1>1. ListingTypeOK'
  BY ListingAssumption DEF ListingAssumption, ListingTypeOK, Outcomes, Matching
<1>2. q.limit \in Nat
  <2>1. q.limit \in Limits \cup {0, 1, 2}
    OBVIOUS
  <2> QED
    BY <2>1, LimitsAreNat
<1>3. PageInv'
  BY <1>2, ListingAssumption DEF PageInv, Matching, Ids
<1>4. GetInv' /\ ListsAll'
  BY DEF ListingInv, GetInv, ListsAll
<1>5. Increasing(results)' /\ (query.limit > 0 => Len(results) <= query.limit)'
  BY <1>2 DEF Increasing
<1>6. (throughout \subseteq Matching(query))'
  BY DEF Matching
<1> QED
  BY <1>1, <1>3, <1>4, <1>5, <1>6 DEF ListingInv

\* The call under way ends with an error.
LEMMA FailsKeeps ==
  ASSUME ListingTypeOK, ListingInv, ListingFails
  PROVE  ListingTypeOK' /\ ListingInv'
<1> USE DEF ListingFails, End
<1>1. ListingTypeOK'
  BY DEF ListingTypeOK, Outcomes
<1>2. ListingInv'
  BY DEF ListingInv, PageInv, GetInv, ListsAll, Matching
<1> QED
  BY <1>1, <1>2

\* The listing is given up.
LEMMA ForgetKeeps ==
  ASSUME ListingTypeOK, ListingInv, Forget, outcome' \in {"none", "found"}, alone' = TRUE
  PROVE  ListingTypeOK' /\ ListingInv'
<1> USE DEF Forget
<1>1. ListingTypeOK'
  BY ListingAssumption DEF ListingAssumption, ListingTypeOK, Outcomes, Entries, NoQuery
<1>2. ListingInv'
  BY DEF ListingInv, PageInv, GetInv, ListsAll, Increasing, NoQuery
<1> QED
  BY <1>1, <1>2

\* The one sandbox of the name is fetched.
LEMMA FoundKeeps ==
  ASSUME ListingTypeOK, ListingInv, GetFound
  PROVE  ListingTypeOK' /\ ListingInv'
<1>1. Len(results) = 1 /\ throughout \subseteq ToSet(results) /\ results \in Seq(Ids)
  BY DEF ListingTypeOK, ListingInv, GetInv, GetFound
<1>2. ToSet(results) = {results[1]}
  BY <1>1 DEF ToSet
<1>3. alone' = TRUE
  BY <1>1, <1>2 DEF GetFound
<1> QED
  BY <1>3, ForgetKeeps DEF GetFound

\* What other clients do only takes from what has matched throughout.
LEMMA ChangesKeep ==
  ASSUME ListingTypeOK, ListingInv, DirectoryChanges
  PROVE  ListingTypeOK' /\ ListingInv'
<1> USE DEF DirectoryChanges
<1>1. throughout' \subseteq throughout
  OBVIOUS
<1>2. directory' \in [Ids -> Entries]
  BY DEF ListingTypeOK, Entries
<1>3. ListingTypeOK'
  BY <1>1, <1>2 DEF ListingTypeOK
<1>4. (throughout \subseteq Matching(query))'
  BY DEF ListingTypeOK, Matching
<1>5. PageInv'
  BY <1>1 DEF ListingInv, PageInv
<1>6. GetInv' /\ ListsAll'
  BY <1>1 DEF ListingInv, GetInv, ListsAll
<1> QED
  BY <1>3, <1>4, <1>5, <1>6 DEF ListingInv

\* A page is received.
LEMMA PageKeeps ==
  ASSUME ListingTypeOK, ListingInv, Page
  PROVE  ListingTypeOK' /\ ListingInv'
<1> DEFINE rest == Rest(query, pageToken)
<1>1. PICK page \in Pages(rest) :
        \E next \in NextTokens(rest, page) :
          /\ results' = WithPage(page)
          /\ IF NoMore(next, WithPage(page))
             THEN Listed(WithPage(page))
             ELSE /\ pageToken' = NextToken(next)
                  /\ UNCHANGED <<directory, stage, query, throughout, outcome, alone>>
  BY DEF Page
<1> DEFINE all == WithPage(page)
<1>2. PICK next \in NextTokens(rest, page) :
        /\ results' = all
        /\ IF NoMore(next, all)
           THEN Listed(all)
           ELSE /\ pageToken' = NextToken(next)
                /\ UNCHANGED <<directory, stage, query, throughout, outcome, alone>>
  BY <1>1
<1>3. stage = "page"
  BY DEF Page
<1>4. /\ all \in Seq(Ids) /\ Increasing(all)
      /\ query.limit > 0 => Len(all) <= query.limit
      /\ query.limit = 0 \/ Len(all) < query.limit => all = results \o page
  BY <1>3, WithPageProperties, LimitIsNat
<1>5. /\ page \in Seq(Ids) /\ results \in Seq(Ids) /\ query.limit \in Nat
      /\ \A a \in 1 .. Len(page) : page[a] \in rest
      /\ pageToken \in Nat
  BY PageProperties, LimitIsNat, ListingAssumption, SMTT(30)
     DEF Rest, Matching, ListingTypeOK, Ids, ListingAssumption
<1>6. /\ next \in 0 .. LastId + 1
      /\ next # 0 => next >= pageToken /\ \A i \in rest : i \in ToSet(page) <=> i < next
  BY TokenProperties
<1> HIDE DEF all
<1>7. CASE ~NoMore(next, all)
  <2>1. next # 0 /\ all = results \o page
    BY <1>4, <1>5, <1>7 DEF NoMore
  <2>2. ListingTypeOK'
    BY <1>2, <1>4, <1>6, <1>7 DEF ListingTypeOK, NextToken
  <2>3. ASSUME NEW a \in 1 .. Len(all) PROVE all[a] < next
    <3>1. Len(all) = Len(results) + Len(page)
      BY <1>5, <2>1, ConcatProperties
    <3>2. next \in Nat
      BY <1>6, ListingAssumption DEF ListingAssumption
    <3>3. CASE a <= Len(results)
      <4>1. a \in 1 .. Len(results) /\ all[a] = results[a]
        BY <1>5, <2>1, <3>3, ConcatProperties
      <4>2. results[a] < pageToken /\ results[a] \in Nat
        BY <1>3, <1>5, <4>1, ListingAssumption DEF ListingInv, PageInv, Ids
      <4> QED
        BY <1>5, <1>6, <2>1, <3>2, <4>1, <4>2
    <3>4. CASE a > Len(results)
      <4> DEFINE b == a - Len(results)
      <4>1. b \in 1 .. Len(page) /\ all[a] = page[b]
        BY <1>5, <2>1, <3>1, <3>4, ConcatProperties
      <4>2. page[b] \in rest /\ page[b] \in ToSet(page)
        BY <1>5, <4>1 DEF ToSet
      <4> QED
        BY <1>6, <2>1, <4>1, <4>2
    <3> QED
      BY <1>5, <3>3, <3>4
  <2>4. ASSUME NEW i \in throughout, i < next PROVE i \in ToSet(all)
    <3>1. WithPage(page) = results \o page
      BY <2>1 DEF all
    <3> QED
      BY <1>3, <2>4, <3>1, NothingSkipped DEF all
  <2>5. PageInv'
    BY <1>2, <1>4, <1>5, <1>7, <2>1, <2>3, <2>4 DEF PageInv, NoMore, NextToken
  <2>6. GetInv' /\ ListsAll' /\ (throughout \subseteq Matching(query))'
    BY <1>2, <1>3, <1>7 DEF ListingInv, GetInv, ListsAll, Matching
  <2> QED
    BY <1>2, <1>3, <1>4, <1>7, <2>2, <2>5, <2>6 DEF ListingInv
<1>8. CASE NoMore(next, all)
  <2>1. query.limit = 0 \/ Len(all) < query.limit => throughout \subseteq ToSet(all)
    <3> SUFFICES ASSUME query.limit = 0 \/ Len(all) < query.limit, NEW i \in throughout
                 PROVE  i \in ToSet(all)
      OBVIOUS
    <3>1. next = 0
      BY <1>4, <1>5, <1>8 DEF NoMore
    <3>2. WithPage(page) = results \o page
      BY <1>4 DEF all
    <3> QED
      BY <1>3, <3>1, <3>2, NothingSkipped DEF all
  <2>2. ListingTypeOK'
    BY <1>2, <1>4, <1>8 DEF ListingTypeOK, Listed, End, Outcomes
  <2>3. stage' # "page"
    BY <1>2, <1>8 DEF Listed, End
  <2>4. GetInv'
    <3>1. UNCHANGED <<query, throughout, alone>>
      BY <1>2, <1>8 DEF Listed, End
    <3>2. stage' = "get" => query.byName /\ Len(all) = 1
      BY <1>2, <1>8 DEF Listed, End
    <3>3. query.byName => query = ByNameQuery /\ query.limit = 2
      BY DEF ListingInv, GetInv, ByNameQuery
    <3>4. stage' = "get" => (Len(results) = 1 /\ throughout \subseteq ToSet(results))'
      <4> SUFFICES ASSUME stage' = "get"
                   PROVE  Len(results') = 1 /\ throughout' \subseteq ToSet(results')
        OBVIOUS
      <4>1. Len(all) = 1 /\ Len(all) < query.limit
        <5>1. query.byName /\ Len(all) = 1
          BY <3>2
        <5>2. query.limit = 2
          BY <3>3, <5>1
        <5> QED
          BY <5>1, <5>2
      <4>2. throughout \subseteq ToSet(all)
        BY <2>1, <4>1
      <4>3. results' = all /\ throughout' = throughout
        BY <1>2, <3>1
      <4> QED
        BY <4>1, <4>2, <4>3
    <3> QED
      BY <3>1, <3>4 DEF ListingInv, GetInv
  <2>5. ListsAll'
    BY <1>2, <1>8, <2>1 DEF ListingInv, ListsAll, Listed, End
  <2>6. (throughout \subseteq Matching(query))' /\ (stage # "idle" => outcome = "none")'
    BY <1>2, <1>3, <1>8 DEF ListingInv, Listed, End, Matching
  <2>7. Increasing(results)' /\ (query.limit > 0 => Len(results) <= query.limit)'
    BY <1>2, <1>4, <1>8 DEF Listed, End
  <2> QED
    BY <2>2, <2>3, <2>4, <2>5, <2>6, <2>7 DEF ListingInv, PageInv
<1> QED
  BY <1>7, <1>8

\* What leaves the listing alone.
LEMMA ListingStutters ==
  ASSUME ListingTypeOK, ListingInv, UNCHANGED listingVars
  PROVE  ListingTypeOK' /\ ListingInv'
BY DEF listingVars, ListingTypeOK, ListingInv, PageInv, GetInv, ListsAll, Matching

\* The two ways to begin, and what may happen once a listing is under way.
LEMMA LookKeeps ==
  ASSUME ListingTypeOK, ListingInv, ListSandboxes \/ GetSandboxByName \/ ListingStep
  PROVE  ListingTypeOK' /\ ListingInv'
<1>1. CASE ListSandboxes
  <2>1. PICK l \in Limits, f \in BOOLEAN :
          BeginListing([byName |-> FALSE, filter |-> f, limit |-> l])
    BY <1>1 DEF ListSandboxes
  <2> QED
    BY <2>1, BeginKeeps
<1>2. CASE GetSandboxByName
  BY <1>2, BeginKeeps DEF GetSandboxByName, ByNameQuery
<1>3. CASE ListingStep
  BY <1>3, PageKeeps, FailsKeeps, ChangesKeep DEF ListingStep
<1> QED
  BY <1>1, <1>2, <1>3

\* Every step keeps the types and the invariant.
LEMMA ListingNextKeeps ==
  ListingTypeOK /\ ListingInv /\ [ListingNext]_listingVars => ListingTypeOK' /\ ListingInv'
BY LookKeeps, FoundKeeps, ListingStutters DEF ListingNext

\* The invariant of a listing holds however other clients create and delete
\* sandboxes between its pages.
THEOREM ListingInvariant == ListingSpec => [](ListingTypeOK /\ ListingInv)
BY ListingInitInv, ListingNextKeeps, PTL DEF ListingSpec

(***************************************************************************)
(* What the listings promise.                                              *)
(***************************************************************************)
\* A listing that succeeds and is not full has everything that matched all
\* the while (the page loops of sandboxes.go and jobs.go).
THEOREM ListingIsComplete == ListingSpec => []ListsAll
<1>1. ListingInv => ListsAll
  BY DEF ListingInv
<1> QED
  BY <1>1, ListingInvariant, PTL

\* Nothing is listed twice, and no more than the limit.
LEMMA IncreasingOnce == ListingTypeOK /\ ListingInv => ListsOnce
<1> SUFFICES ASSUME ListingTypeOK, ListingInv PROVE ListsOnce
  OBVIOUS
<1>1. IsInjective(results)
  BY IncreasingInjective DEF ListingTypeOK, ListingInv
<1> QED
  BY <1>1 DEF ListingInv, ListsOnce

\* No listing has a sandbox twice, whatever pages the service answers with.
THEOREM ListingHasNoDuplicates == ListingSpec => []ListsOnce
BY IncreasingOnce, ListingInvariant, PTL

-----------------------------------------------------------------------------
(***************************************************************************)
(* The composition does to the handle what SandboxHandle does, or nothing. *)
(***************************************************************************)
LEMMA StepOfHandle == [Next]_vars => [HandleNext]_handleSpecVars
<1> SUFFICES ASSUME [Next]_vars PROVE [HandleNext]_handleSpecVars
  OBVIOUS
<1>1. CASE Look
  BY <1>1 DEF Look
<1>2. CASE ReconnectByName
  BY <1>2 DEF ReconnectByName, HandleNext
<1>3. CASE Own
  BY <1>3 DEF Own, HandleNext
<1>4. CASE Use
  BY <1>4 DEF Use, HandleNext
<1>5. CASE UNCHANGED vars
  BY <1>5 DEF vars
<1> QED
  BY <1>1, <1>2, <1>3, <1>4, <1>5 DEF Next

\* A sandbox looked up, reconnected to and used behaves as one handle does.
THEOREM ImplementsHandle == Spec => HandleSpec
<1>1. Init => HandleInit
  BY DEF Init
<1> QED
  BY <1>1, StepOfHandle, PTL DEF Spec, HandleSpec

(***************************************************************************)
(* The listings' side of a step.                                           *)
(***************************************************************************)
LEMMA StepOfListing ==
  ListingTypeOK /\ ListingInv /\ [Next]_vars => ListingTypeOK' /\ ListingInv'
<1> SUFFICES ASSUME ListingTypeOK, ListingInv, [Next]_vars
             PROVE  ListingTypeOK' /\ ListingInv'
  OBVIOUS
<1>1. CASE Look
  BY <1>1, LookKeeps DEF Look
<1>2. CASE ReconnectByName
  BY <1>2, FoundKeeps DEF ReconnectByName
<1>3. CASE Own
  <2>1. alone = TRUE
    BY DEF ListingTypeOK, ListingInv, GetInv
  <2> QED
    BY <1>3, <2>1, ForgetKeeps DEF Own
<1>4. CASE Use
  BY <1>4, ListingStutters DEF Use
<1>5. CASE UNCHANGED vars
  BY <1>5, ListingStutters DEF vars
<1> QED
  BY <1>1, <1>2, <1>3, <1>4, <1>5 DEF Next

\* The invariant of the listings, with the handle's life around them.
THEOREM LookupInvariant == Spec => [](ListingTypeOK /\ ListingInv)
<1>1. Init => ListingTypeOK /\ ListingInv
  BY ListingInitInv DEF Init
<1> QED
  BY <1>1, StepOfListing, PTL DEF Spec

(***************************************************************************)
(* What holds from the lookup to the end of the handle's use.              *)
(***************************************************************************)
\* The variables of both parts keep their types.
THEOREM TypeCorrect == Spec => []TypeOK
<1>1. ListingTypeOK /\ HandleTypeOK => TypeOK
  BY DEF TypeOK
<1> QED
  BY <1>1, ImplementsHandle, HandleTypeCorrect, LookupInvariant, PTL

\* GetSandboxByName (sandboxes.go) leads to a handle only when no other
\* sandbox had the name all through the lookup, so that Delete on it destroys
\* no arbitrary one of several.
THEOREM NothingArbitrary == Spec => []NothingArbitraryDeleted
<1>1. ListingInv => NothingArbitraryDeleted
  BY DEF ListingInv, GetInv, NothingArbitraryDeleted
<1> QED
  BY <1>1, LookupInvariant, PTL

\* What is proved of the listings, with the handle's life around them.
THEOREM LookupsListAll == Spec => [](ListsAll /\ ListsOnce)
<1>1. ListingInv => ListsAll
  BY DEF ListingInv
<1> QED
  BY <1>1, IncreasingOnce, LookupInvariant, PTL

\* What is proved of every handle, of one that was looked up.
THEOREM ReconnectedHandle ==
  Spec => [](/\ DeletedForGood /\ NoFalseVerdict /\ GuestCallsAddressed
             /\ PerformedOnce /\ RefusedMeansNotDone)
BY ImplementsHandle, DeletedIsForGood, VerdictsAreTrue, CallsAreAddressed, OncePerformed,
   RefusedIsNotDone, PTL
=============================================================================
