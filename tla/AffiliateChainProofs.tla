------------------------ MODULE AffiliateChainProofs ------------------------
(***************************************************************************)
(* Theorems about module AffiliateChain, for every set of opportunities    *)
(* and every value of the limits: a completed chain is live, what is       *)
(* public is on file, and a page keeps its link, however the night and a   *)
(* human overlap and wherever one of them dies.                            *)
(*                                                                         *)
(* The parts of the invariant are operators on the state s of a runner,    *)
(* or on a version of a file, so that one lemma serves every step.         *)
(***************************************************************************)
EXTENDS AffiliateChain, FiniteSetTheorems, TLAPS

(* What a runner holds at each step.                                       *)
Ids == 0..MaxIds
Plans == [Opp -> {"none", "human", "completed"}]
Finished(s) == s.at = "save plan" /\ s.result = "completed"

\* It has chosen an asset; the asset is on file as well; its page is out.
HasAsset(s) == \/ s.at \in {"save asset", "load links", "save link", "deploy", "save live", "pin"}
               \/ Finished(s)
OnFile(s) == HasAsset(s) /\ s.at # "save asset"
Out(s) == s.at \in {"save live", "pin"} \/ Finished(s)

Proper(s) ==
    /\ s.at \in Step
    /\ s.at # "rest" => s.opp \in Opp /\ s.board \in Plans /\ s.pin \in BOOLEAN
    /\ HasAsset(s) => s.asset \in Ids
    /\ s.at \in {"save link", "deploy"} => s.link \in Ids
    /\ s.at = "save asset" => s.copy \subseteq AssetRow
    /\ s.at = "save link" => s.copy \subseteq LinkRow
    /\ s.at = "save plan" => s.result \in {"human", "completed"}

RunInv == run = [r \in Runner |-> run[r]] /\ \A r \in Runner : Proper(run[r])

(* Pages: whatever any version says of a page that is out, it is out.      *)
TruePlans(v, page) == \A o \in Opp : v[o] = "completed" => page[o] # None
TrueRows(store, page) == \A a \in store : a.live => page[a.opp] # None
Truthful(s, page) ==
    /\ s.at # "rest" => TruePlans(s.board, page)
    /\ s.at = "save asset" => TrueRows(s.copy, page)
    /\ Out(s) => page[s.opp] # None

SiteInv ==
    /\ TruePlans(plan, site) /\ TrueRows(assets, site)
    /\ \A r \in Runner : Truthful(run[r], site)

(* Ids: whoever speaks of an asset id means the same opportunity, and no   *)
(* id is used that was not given out.                                      *)
Says(store, i, o) == \E a \in store : a.id = i /\ a.opp = o
ClaimedBy(s, i, o) == \/ HasAsset(s) /\ s.asset = i /\ s.opp = o
                      \/ s.at = "save asset" /\ Says(s.copy, i, o)
Claims(i, o) == Says(assets, i, o) \/ \E r \in Runner : ClaimedBy(run[r], i, o)

OwnInv ==
    \A i \in Ids, o \in Opp : Claims(i, o) =>
       i < ids /\ \A p \in Opp : Claims(i, p) => p = o

(* While no save has been taken back: one asset per opportunity and one    *)
(* link per asset, in every version; what a runner goes by is on file.     *)
OnePerOpp(store) == \A a, b \in store : a.opp = b.opp => a.id = b.id
OnePerAsset(store) == \A k, l \in store : k.asset = l.asset => k.id = l.id
Based(s, as, ls) ==
    /\ s.at = "save asset" => OnePerOpp(s.copy) /\ \A a \in s.copy : a.opp # s.opp
    /\ s.at = "save link" => OnePerAsset(s.copy) /\ \A k \in s.copy : k.asset # s.asset
    /\ OnFile(s) => Says(as, s.asset, s.opp)
    /\ s.at = "deploy" => \E k \in ls : k.id = s.link /\ k.asset = s.asset

FilesInv == /\ OnePerOpp(assets) /\ OnePerAsset(links)
            /\ \A r \in Runner : Based(run[r], assets, links)

(* What is completed, in any version, has an asset that is live.           *)
HasLive(store, o) == \E a \in store : a.opp = o /\ a.live
LivePlans(v, store) == \A o \in Opp : v[o] = "completed" => HasLive(store, o)
Alive(s, store) == /\ s.at # "rest" => LivePlans(s.board, store)
                   /\ Finished(s) => HasLive(store, s.opp)

LiveInv == LivePlans(plan, assets) /\ \A r \in Runner : Alive(run[r], assets)

(* What is public is on file.                                              *)
PublicInv ==
    /\ \A o \in Opp : site[o] # None =>
          \E k \in links : k.id = site[o] /\ Says(assets, k.asset, o)
    /\ \A p \in pins : \E o \in Opp : Says(assets, p, o) /\ site[o] # None

KeptInv == ~undone => FilesInv /\ LiveInv /\ PublicInv

IInv == TypeOK /\ RunInv /\ SiteInv /\ OwnInv /\ KeptInv

-----------------------------------------------------------------------------
(***************************************************************************)
(* One runner moves from its state to t.                                   *)
(***************************************************************************)
LEMMA Moved ==
  ASSUME RunInv, NEW r \in Runner, NEW t, Go(r, t)
  PROVE  /\ run' = [q \in Runner |-> run'[q]]
         /\ run'[r] = t /\ \A q \in Runner : q # r => run'[q] = run[q]
BY DEF RunInv, Go

LEMMA MoveStep ==
  ASSUME IInv, NEW r \in Runner, NEW t, Go(r, t), TypeOK', Proper(t),
         \A o \in Opp : site[o] # None => site'[o] # None,
         TruePlans(plan', site'), TrueRows(assets', site'), Truthful(t, site'),
         \A i \in Ids, o \in Opp : Says(assets', i, o) \/ ClaimedBy(t, i, o) =>
            Claims(i, o) \/ (i = ids /\ o = t.opp /\ ids' = ids + 1),
         ids' \in {ids, ids + 1},
         undone => undone',
         ~undone' =>
            /\ OnePerOpp(assets') /\ OnePerAsset(links') /\ Based(t, assets', links')
            /\ links \subseteq links'
            /\ \A i \in Ids, o \in Opp : Says(assets, i, o) => Says(assets', i, o)
            /\ \A o \in Opp : HasLive(assets, o) => HasLive(assets', o)
            /\ LivePlans(plan', assets') /\ Alive(t, assets')
            /\ PublicInv'
  PROVE  IInv'
<1>1. /\ run' = [q \in Runner |-> run'[q]]
      /\ run'[r] = t /\ \A q \in Runner : q # r => run'[q] = run[q]
  BY Moved DEF IInv
<1>2. /\ \A q \in Runner : Proper(run[q]) /\ Truthful(run[q], site)
      /\ ids \in Nat
  BY DEF IInv, RunInv, SiteInv, TypeOK
<1>3. RunInv'
  BY <1>1, <1>2 DEF RunInv
<1>4. SiteInv'
  <2>1. ASSUME NEW q \in Runner PROVE Truthful(run'[q], site')
    <3>1. CASE q = r
      BY <1>1, <3>1
    <3>2. CASE q # r
      <4>1. run'[q] = run[q] /\ Truthful(run[q], site) /\ Proper(run[q])
        BY <1>1, <1>2, <3>2
      <4>2. run[q].at = "save asset" => \A a \in run[q].copy : a.opp \in Opp
        BY <4>1 DEF Proper, AssetRow
      <4>3. Out(run[q]) => run[q].opp \in Opp
        BY <4>1 DEF Out, Finished, Proper
      <4>4. QED
        BY <4>1, <4>2, <4>3 DEF Truthful, TruePlans, TrueRows
    <3>3. QED
      BY <3>1, <3>2
  <2>2. QED
    BY <2>1 DEF SiteInv
<1>5. OwnInv'
  <2>1. \A i \in Ids, o \in Opp : Claims(i, o)' =>
           Claims(i, o) \/ (i = ids /\ o = t.opp /\ ids' = ids + 1)
    BY <1>1 DEF Claims
  <2>2. \A i \in Ids, o \in Opp : Claims(i, o) =>
           i < ids /\ \A p \in Opp : Claims(i, p) => p = o
    BY DEF IInv, OwnInv
  <2>3. \A i \in Ids : i < ids => i # ids /\ i < ids'
    BY <1>2 DEF Ids
  <2>4. ids' = ids + 1 => ids < ids'
    BY <1>2
  <2>5. QED
    BY <2>1, <2>2, <2>3, <2>4 DEF OwnInv
<1>6. KeptInv'
  <2>1. ASSUME ~undone' PROVE FilesInv' /\ LiveInv' /\ PublicInv'
    <3>1. FilesInv /\ LiveInv
      BY <2>1 DEF IInv, KeptInv
    <3>2. ASSUME NEW q \in Runner, q # r
          PROVE  Based(run'[q], assets', links') /\ Alive(run'[q], assets')
      <4>1. /\ run'[q] = run[q] /\ Proper(run[q])
            /\ Based(run[q], assets, links) /\ Alive(run[q], assets)
        BY <1>1, <1>2, <3>1, <3>2 DEF FilesInv, LiveInv
      <4>2. HasAsset(run[q]) => run[q].asset \in Ids /\ run[q].opp \in Opp
        BY <4>1 DEF Proper, HasAsset, Finished
      <4>3. Finished(run[q]) => run[q].opp \in Opp
        BY <4>1 DEF Proper, Finished
      <4>4. Based(run[q], assets', links')
        BY <2>1, <4>1, <4>2 DEF Based, OnFile
      <4>5. Alive(run[q], assets')
        BY <2>1, <4>1, <4>3 DEF Alive, LivePlans
      <4>6. QED
        BY <4>1, <4>4, <4>5
    <3>3. QED
      BY <1>1, <2>1, <3>2 DEF FilesInv, LiveInv
  <2>2. QED
    BY <2>1 DEF KeptInv
<1>7. QED
  BY <1>3, <1>4, <1>5, <1>6 DEF IInv

LEMMA TypeMove ==
  ASSUME IInv, NEW r \in Runner, NEW t, Go(r, t), Proper(t),
         plan' \in Plans, assets' \subseteq AssetRow, links' \subseteq LinkRow,
         site' \in [Opp -> Ids \cup {None}], pins' \subseteq Ids,
         Cardinality(pins') <= PinsPerDay,
         todo' \subseteq Opp, made' \in Nat, ids' \in Ids, undone' \in BOOLEAN,
         runs' \in 0..MaxRuns, crashes' \in 0..MaxCrashes
  PROVE  TypeOK'
<1>1. \A q \in Runner : run'[q].at \in Step
  <2>1. RunInv /\ \A q \in Runner : Proper(run[q])
    BY DEF IInv, RunInv
  <2>2. run'[r] = t /\ \A q \in Runner : q # r => run'[q] = run[q]
    BY <2>1, Moved
  <2>3. QED
    BY <2>1, <2>2 DEF Proper
<1>2. QED
  BY <1>1 DEF TypeOK, Plans, Ids

\* Steps that load a file, or start or end a chain: no file changes.
LEMMA QuietMove ==
  ASSUME IInv, NEW r \in Runner, NEW t, Go(r, t), TypeOK', Proper(t),
         UNCHANGED <<plan, assets, links, site, pins, undone>>,
         Truthful(t, site),
         \A i \in Ids, o \in Opp : ClaimedBy(t, i, o) =>
            Claims(i, o) \/ (i = ids /\ o = t.opp /\ ids' = ids + 1),
         ids' \in {ids, ids + 1},
         ~undone => Based(t, assets, links) /\ Alive(t, assets)
  PROVE  IInv'
<1>1. TruePlans(plan', site') /\ TrueRows(assets', site') /\ Truthful(t, site')
  BY DEF IInv, SiteInv
<1>2. \A i \in Ids, o \in Opp : Says(assets', i, o) \/ ClaimedBy(t, i, o) =>
         Claims(i, o) \/ (i = ids /\ o = t.opp /\ ids' = ids + 1)
  BY DEF Claims
<1>3. ~undone' =>
         /\ OnePerOpp(assets') /\ OnePerAsset(links') /\ Based(t, assets', links')
         /\ LivePlans(plan', assets') /\ Alive(t, assets') /\ PublicInv'
  BY DEF IInv, KeptInv, FilesInv, LiveInv, PublicInv
<1>4. QED
  BY <1>1, <1>2, <1>3, MoveStep

\* A chain that has no asset yet, or has been stopped, claims nothing.
LEMMA Bare ==
  ASSUME NEW s, NEW t, t = At(s, "load assets") \/ t = Blocked(s), Proper(s), s.at # "rest"
  PROVE  /\ Proper(t) /\ t.opp = s.opp
         /\ \A page : Truthful(s, page) => Truthful(t, page)
         /\ \A i, o : ~ClaimedBy(t, i, o)
         /\ \A as, ls : Based(t, as, ls)
         /\ \A as : Alive(s, as) => Alive(t, as)
<1>1. /\ t.at \in {"load assets", "save plan"} /\ (t.at = "save plan" => t.result = "human")
      /\ t.opp = s.opp /\ t.board = s.board /\ t.pin = s.pin
  <2>1. CASE t = At(s, "load assets")
    BY <2>1 DEF At, State
  <2>2. CASE t = Blocked(s)
    BY <2>2 DEF At, Blocked, State
  <2>3. QED
    BY <2>1, <2>2
<1>2. ~HasAsset(t) /\ ~Finished(t) /\ ~OnFile(t) /\ ~Out(t)
  BY <1>1 DEF HasAsset, Finished, OnFile, Out
<1>3. QED
  BY <1>1, <1>2 DEF Proper, Step, Truthful, ClaimedBy, Based, Alive

\* The runner that moves, and the files it finds.
LEMMA Standing ==
  ASSUME IInv, NEW r \in Runner
  PROVE  /\ Proper(run[r]) /\ Truthful(run[r], site)
         /\ \A i, o : ClaimedBy(run[r], i, o) => Claims(i, o)
         /\ \A i, o : Says(assets, i, o) => Claims(i, o)
         /\ ~undone => Based(run[r], assets, links) /\ Alive(run[r], assets)
         /\ plan \in Plans /\ assets \subseteq AssetRow /\ links \subseteq LinkRow
         /\ site \in [Opp -> Ids \cup {None}] /\ pins \subseteq Ids
         /\ Cardinality(pins) <= PinsPerDay
         /\ todo \subseteq Opp /\ made \in Nat /\ ids \in Ids /\ undone \in BOOLEAN
         /\ runs \in 0..MaxRuns /\ crashes \in 0..MaxCrashes
<1>1. Proper(run[r]) /\ Truthful(run[r], site)
  BY DEF IInv, RunInv, SiteInv
<1>2. ~undone => Based(run[r], assets, links) /\ Alive(run[r], assets)
  BY DEF IInv, KeptInv, FilesInv, LiveInv
<1>3. QED
  BY <1>1, <1>2 DEF IInv, TypeOK, Claims, Ids, Plans

LEMMA BareMove ==
  ASSUME IInv, NEW r \in Runner, run[r].at # "rest",
         NEW t, t = At(run[r], "load assets") \/ t = Blocked(run[r]), Go(r, t),
         UNCHANGED <<plan, assets, links, site, pins, todo, made, ids, undone, runs, crashes>>
  PROVE  IInv'
<1>1. /\ Proper(t) /\ Truthful(t, site) /\ \A i, o : ~ClaimedBy(t, i, o)
      /\ \A as, ls : Based(t, as, ls)
      /\ ~undone => Alive(t, assets)
  <2>1. /\ Proper(run[r]) /\ Truthful(run[r], site)
        /\ ~undone => Alive(run[r], assets)
    BY Standing
  <2>2. /\ Proper(t) /\ \A page : Truthful(run[r], page) => Truthful(t, page)
        /\ \A i, o : ~ClaimedBy(t, i, o)
        /\ \A as, ls : Based(t, as, ls)
        /\ \A as : Alive(run[r], as) => Alive(t, as)
    BY <2>1, Bare
  <2>3. QED
    BY <2>1, <2>2
<1>2. TypeOK'
  BY <1>1, Standing, TypeMove
<1>3. ids' \in {ids, ids + 1}
  OBVIOUS
<1>4. QED
  BY <1>1, <1>2, <1>3, QuietMove

LEMMA MatchStep == ASSUME IInv, NEW r \in Runner, Match(r) PROVE IInv'
<1>1. /\ run[r].at # "rest"
      /\ UNCHANGED <<plan, assets, links, site, pins, todo, made, ids, undone, runs, crashes>>
  BY DEF Match, files, night, count
<1>2. Go(r, At(run[r], "load assets")) \/ Go(r, Blocked(run[r]))
  BY DEF Match
<1>3. QED
  BY <1>1, <1>2, BareMove

LEMMA LoadAssetsStep == ASSUME IInv, NEW r \in Runner, LoadAssets(r) PROVE IInv'
<1> DEFINE s == run[r]
<1>1. /\ s.at = "load assets"
      /\ UNCHANGED <<plan, assets, links, site, pins, todo, made, undone, runs, crashes>>
  BY DEF LoadAssets, files, night
<1>2. Proper(s) /\ Truthful(s, site) /\ s.opp \in Opp /\ s.board \in Plans /\ s.pin \in BOOLEAN
  BY <1>1, Standing DEF Proper
<1>3. CASE \E a \in Known(s.opp) : Go(r, Blocked(s)) /\ UNCHANGED ids
  BY <1>1, <1>3, BareMove
<1>4. CASE \E a \in Known(s.opp) :
              Go(r, [At(s, "load links") EXCEPT !.asset = a.id]) /\ UNCHANGED ids
  <2>1. PICK a \in assets : a.opp = s.opp /\ Go(r, [At(s, "load links") EXCEPT !.asset = a.id])
                            /\ ids' = ids
    BY <1>4 DEF Known, AssetOf
  <2> DEFINE t == [At(s, "load links") EXCEPT !.asset = a.id]
  <2>2. /\ t.at = "load links" /\ t.opp = s.opp /\ t.board = s.board /\ t.pin = s.pin
        /\ t.asset = a.id
    BY DEF At, State
  <2>3. a \in AssetRow /\ a.id \in Ids /\ Says(assets, a.id, s.opp)
    BY <2>1, Standing DEF AssetRow, Ids, Says
  <2> HIDE DEF t
  <2>4. Proper(t)
    BY <1>2, <2>2, <2>3 DEF Proper, Step, HasAsset, Finished
  <2>5. Truthful(t, site)
    BY <1>1, <1>2, <2>2 DEF Truthful, Out, Finished
  <2>6. \A i, o : ClaimedBy(t, i, o) => Claims(i, o)
    BY <2>2, <2>3, Standing DEF ClaimedBy, HasAsset, Finished
  <2>7. ~undone => Based(t, assets, links) /\ Alive(t, assets)
    BY <1>1, <2>2, <2>3, Standing DEF Based, Alive, Finished
  <2>8. Go(r, t) /\ ids' \in {ids, ids + 1}
    BY <2>1 DEF t
  <2>9. TypeOK'
    BY <1>1, <2>1, <2>4, <2>8, Standing, TypeMove
  <2>10. QED
    BY <1>1, <2>4, <2>5, <2>6, <2>7, <2>8, <2>9, QuietMove
<1>5. CASE /\ Known(s.opp) = {} /\ ids < MaxIds /\ ids' = ids + 1
           /\ Go(r, [At(s, "save asset") EXCEPT !.asset = ids, !.copy = assets])
  <2> DEFINE t == [At(s, "save asset") EXCEPT !.asset = ids, !.copy = assets]
  <2>1. /\ t.at = "save asset" /\ t.opp = s.opp /\ t.board = s.board /\ t.pin = s.pin
        /\ t.asset = ids /\ t.copy = assets
    BY DEF At, State
  <2>2. ids \in Ids /\ ids' \in Ids
    BY <1>5, Standing, ChainAssumption DEF Ids
  <2>3. Go(r, t)
    BY <1>5
  <2> HIDE DEF t
  <2>4. Proper(t)
    BY <1>2, <2>1, <2>2, Standing DEF Proper, Step, HasAsset, Finished
  <2>5. Truthful(t, site)
    BY <1>1, <1>2, <2>1 DEF Truthful, Out, Finished, IInv, SiteInv
  <2>6. \A i, o : ClaimedBy(t, i, o) => Claims(i, o) \/ (i = ids /\ o = t.opp /\ ids' = ids + 1)
    BY <1>5, <2>1, Standing DEF ClaimedBy
  <2>7. ~undone => Based(t, assets, links) /\ Alive(t, assets)
    BY <1>1, <1>5, <2>1, Standing
    DEF Based, Alive, Finished, OnFile, Known, AssetOf, IInv, KeptInv, FilesInv
  <2>8. TypeOK'
    BY <1>1, <2>2, <2>3, <2>4, Standing, TypeMove
  <2>9. QED
    BY <1>1, <1>5, <2>3, <2>4, <2>5, <2>6, <2>7, <2>8, QuietMove
<1>6. QED
  BY <1>3, <1>4, <1>5 DEF LoadAssets

\* A row enters the file from the copy of the runner that loaded it.
LEMMA SaveAssetStep == ASSUME IInv, NEW r \in Runner, SaveAsset(r) PROVE IInv'
<1> DEFINE s == run[r]
           row == [id |-> s.asset, opp |-> s.opp, live |-> FALSE]
<1>1. /\ s.at = "save asset"
      /\ assets' = s.copy \cup {row}
      /\ undone' = (undone \/ ~(assets \subseteq s.copy))
      /\ UNCHANGED <<plan, links, site, pins, todo, made, ids, runs, crashes>>
  BY DEF SaveAsset, TakesBack, night
<1>2. /\ Proper(s) /\ Truthful(s, site) /\ s.opp \in Opp /\ s.board \in Plans
      /\ s.pin \in BOOLEAN /\ s.asset \in Ids /\ s.copy \subseteq AssetRow
  BY <1>1, Standing DEF Proper, HasAsset
<1>3. row \in AssetRow /\ row.id = s.asset /\ row.opp = s.opp /\ ~row.live
  BY <1>2 DEF AssetRow, Ids
<1>4. PICK t \in {[At(s, "load links") EXCEPT !.asset = s.asset], Blocked(s)} : Go(r, t)
  BY <1>1 DEF SaveAsset
<1>5. /\ t.at \in {"load links", "save plan"} /\ t.opp = s.opp /\ t.board = s.board
      /\ t.pin = s.pin
      /\ t.at = "load links" => t.asset = s.asset
      /\ t.at = "save plan" => t.result = "human"
  <2>1. CASE t = [At(s, "load links") EXCEPT !.asset = s.asset]
    BY <2>1 DEF At, State
  <2>2. CASE t = Blocked(s)
    BY <2>2 DEF At, Blocked, State
  <2>3. QED
    BY <1>4, <2>1, <2>2
<1> HIDE DEF row, s
<1>6. /\ Proper(t) /\ (HasAsset(t) <=> t.at = "load links")
      /\ ~Finished(t) /\ ~Out(t)
  BY <1>2, <1>5 DEF Proper, Step, HasAsset, Finished, Out
<1>7. /\ TruePlans(plan', site') /\ TrueRows(assets', site') /\ Truthful(t, site')
      /\ \A o \in Opp : site[o] # None => site'[o] # None
  <2>1. TruePlans(plan', site')
    BY <1>1 DEF IInv, SiteInv
  <2>2. TrueRows(assets', site')
    BY <1>1, <1>2, <1>3 DEF Truthful, TrueRows
  <2>3. Truthful(t, site')
    BY <1>1, <1>2, <1>5, <1>6 DEF Truthful
  <2>4. QED
    BY <1>1, <2>1, <2>2, <2>3
<1>8. \A i \in Ids, o \in Opp : Says(assets', i, o) \/ ClaimedBy(t, i, o) => Claims(i, o)
  <2>1. \A i, o : ClaimedBy(s, i, o) => Claims(i, o)
    BY Standing DEF s
  <2>2. \A i, o : Says(assets', i, o) => ClaimedBy(s, i, o)
    BY <1>1, <1>3 DEF Says, ClaimedBy, HasAsset
  <2>3. \A i, o : ClaimedBy(t, i, o) => ClaimedBy(s, i, o)
    BY <1>1, <1>5, <1>6 DEF ClaimedBy, HasAsset
  <2>4. QED
    BY <2>1, <2>2, <2>3
<1>9. ASSUME ~undone'
      PROVE  /\ OnePerOpp(assets') /\ OnePerAsset(links') /\ Based(t, assets', links')
             /\ links \subseteq links'
             /\ \A i \in Ids, o \in Opp : Says(assets, i, o) => Says(assets', i, o)
             /\ \A o \in Opp : HasLive(assets, o) => HasLive(assets', o)
             /\ LivePlans(plan', assets') /\ Alive(t, assets')
             /\ PublicInv'
  <2>1. ~undone /\ assets \subseteq s.copy /\ assets \subseteq assets'
    BY <1>1, <1>9
  <2>2. /\ FilesInv /\ LiveInv /\ PublicInv
        /\ Based(s, assets, links) /\ Alive(s, assets)
    BY <2>1, Standing DEF IInv, KeptInv, s
  <2>3. OnePerOpp(assets')
    <3>1. /\ \A a, b \in s.copy : a.opp = b.opp => a.id = b.id
          /\ \A a \in s.copy : a.opp # row.opp
      BY <1>1, <1>3, <2>2 DEF Based, OnePerOpp
    <3>2. QED
      BY <1>1, <3>1 DEF OnePerOpp
  <2>4. \A i, o : Says(assets, i, o) => Says(assets', i, o)
    BY <2>1 DEF Says
  <2>5. \A o : HasLive(assets, o) => HasLive(assets', o)
    BY <2>1 DEF HasLive
  <2>6. Says(assets', s.asset, s.opp)
    BY <1>1, <1>3 DEF Says
  <2>7. Based(t, assets', links')
    BY <1>5, <1>6, <2>6 DEF Based, OnFile
  <2>8. LivePlans(plan', assets')
    BY <1>1, <2>2, <2>5 DEF LiveInv, LivePlans
  <2>9. Alive(t, assets')
    BY <1>1, <1>5, <1>6, <2>2, <2>5 DEF Alive, LivePlans
  <2>10. PublicInv'
    BY <1>1, <2>2, <2>4 DEF PublicInv
  <2>11. QED
    BY <1>1, <2>2, <2>3, <2>4, <2>5, <2>7, <2>8, <2>9, <2>10 DEF FilesInv
<1>10. TypeOK'
  <2>1. assets' \subseteq AssetRow
    BY <1>1, <1>2, <1>3
  <2>2. undone' \in BOOLEAN
    BY <1>1
  <2>3. QED
    BY <1>1, <1>4, <1>6, <2>1, <2>2, Standing, TypeMove
<1>11. ids' \in {ids, ids + 1} /\ (undone => undone')
  BY <1>1
<1>12. QED
  BY <1>4, <1>6, <1>7, <1>8, <1>9, <1>10, <1>11, MoveStep

LEMMA LoadLinksStep == ASSUME IInv, NEW r \in Runner, LoadLinks(r) PROVE IInv'
<1> DEFINE s == run[r]
<1>1. /\ s.at = "load links"
      /\ UNCHANGED <<plan, assets, links, site, pins, todo, made, undone, runs, crashes>>
  BY DEF LoadLinks, files, night
<1>2. /\ Proper(s) /\ Truthful(s, site) /\ s.opp \in Opp /\ s.board \in Plans
      /\ s.pin \in BOOLEAN /\ s.asset \in Ids
  BY <1>1, Standing DEF Proper, HasAsset
<1>3. ids \in Ids /\ ids' \in Ids /\ ids' \in {ids, ids + 1}
  <2>1. ids \in 0..MaxIds /\ MaxIds \in Nat
    BY Standing, ChainAssumption DEF Ids
  <2>2. ids' = ids \/ (ids' = ids + 1 /\ ids < MaxIds)
    BY DEF LoadLinks
  <2>3. QED
    BY <2>1, <2>2 DEF Ids
<1>4. PICK t : /\ Go(r, t)
               /\ t.opp = s.opp /\ t.board = s.board /\ t.pin = s.pin /\ t.asset = s.asset
               /\ t.link \in Ids
               /\ \/ /\ t.at = "deploy"
                     /\ \E k \in links : k.id = t.link /\ k.asset = t.asset
                  \/ /\ t.at = "save link" /\ t.copy = links
                     /\ \A k \in links : k.asset # t.asset
  <2>1. CASE \E k \in Minted(s.asset) :
                Go(r, [At(s, "deploy") EXCEPT !.asset = s.asset, !.link = k.id])
    <3>1. PICK k \in links : /\ k.asset = s.asset
                 /\ Go(r, [At(s, "deploy") EXCEPT !.asset = s.asset, !.link = k.id])
      BY <2>1 DEF Minted, LinkOf
    <3>2. k.id \in Ids
      BY <3>1, Standing DEF LinkRow, Ids
    <3>3. PICK t : t = [At(s, "deploy") EXCEPT !.asset = s.asset, !.link = k.id]
      OBVIOUS
    <3>4. /\ t.at = "deploy" /\ t.opp = s.opp /\ t.board = s.board /\ t.pin = s.pin
          /\ t.asset = s.asset /\ t.link = k.id
      BY <3>3 DEF At, State
    <3>5. Go(r, t) /\ \E j \in links : j.id = t.link /\ j.asset = t.asset
      BY <3>1, <3>3, <3>4
    <3>6. QED
      BY <3>2, <3>4, <3>5
  <2>2. CASE /\ Minted(s.asset) = {}
             /\ Go(r, [At(s, "save link") EXCEPT !.asset = s.asset, !.link = ids, !.copy = links])
    <3>1. \A k \in links : k.asset # s.asset
      BY <2>2 DEF Minted, LinkOf
    <3>2. PICK t : t = [At(s, "save link") EXCEPT !.asset = s.asset, !.link = ids, !.copy = links]
      OBVIOUS
    <3>3. /\ t.at = "save link" /\ t.opp = s.opp /\ t.board = s.board /\ t.pin = s.pin
          /\ t.asset = s.asset /\ t.link = ids /\ t.copy = links
      BY <3>2 DEF At, State
    <3>4. QED
      BY <1>3, <2>2, <3>1, <3>2, <3>3
  <2>3. QED
    BY <2>1, <2>2 DEF LoadLinks
<1> HIDE DEF s
<1>5. Proper(t) /\ HasAsset(t) /\ HasAsset(s) /\ OnFile(s) /\ ~Finished(t) /\ ~Out(t)
  BY <1>1, <1>2, <1>4, Standing DEF Proper, Step, HasAsset, OnFile, Finished, Out
<1>6. Truthful(t, site)
  BY <1>1, <1>2, <1>4, <1>5 DEF Truthful
<1>7. \A i, o : ClaimedBy(t, i, o) => Claims(i, o)
  <2>1. \A i, o : ClaimedBy(s, i, o) => Claims(i, o)
    BY Standing DEF s
  <2>2. QED
    BY <1>4, <1>5, <2>1 DEF ClaimedBy
<1>8. ~undone => Based(t, assets, links) /\ Alive(t, assets)
  <2>1. ~undone => Based(s, assets, links) /\ Alive(s, assets) /\ OnePerAsset(links)
    BY Standing DEF s, IInv, KeptInv, FilesInv
  <2>2. QED
    BY <1>1, <1>4, <1>5, <2>1 DEF Based, Alive, OnFile
<1>9. TypeOK'
  BY <1>1, <1>3, <1>4, <1>5, Standing, TypeMove
<1>10. QED
  BY <1>1, <1>3, <1>4, <1>5, <1>6, <1>7, <1>8, <1>9, QuietMove

LEMMA SaveLinkStep == ASSUME IInv, NEW r \in Runner, SaveLink(r) PROVE IInv'
<1> DEFINE s == run[r]
           row == [id |-> s.link, asset |-> s.asset]
<1>1. /\ s.at = "save link"
      /\ links' = s.copy \cup {row}
      /\ undone' = (undone \/ ~(links \subseteq s.copy))
      /\ UNCHANGED <<plan, assets, site, pins, todo, made, ids, runs, crashes>>
  BY DEF SaveLink, TakesBack, night
<1>2. /\ Proper(s) /\ Truthful(s, site) /\ s.opp \in Opp /\ s.board \in Plans
      /\ s.pin \in BOOLEAN /\ s.asset \in Ids /\ s.link \in Ids /\ s.copy \subseteq LinkRow
  BY <1>1, Standing DEF Proper, HasAsset
<1>3. row \in LinkRow /\ row.id = s.link /\ row.asset = s.asset
  BY <1>2 DEF LinkRow, Ids
<1>4. PICK t : t = [At(s, "deploy") EXCEPT !.asset = s.asset, !.link = s.link]
  OBVIOUS
<1>5. /\ Go(r, t) /\ t.at = "deploy" /\ t.opp = s.opp /\ t.board = s.board
      /\ t.pin = s.pin /\ t.asset = s.asset /\ t.link = s.link
  BY <1>4 DEF SaveLink, At, State
<1> HIDE DEF row, s
<1>6. /\ Proper(t) /\ HasAsset(t) /\ HasAsset(s) /\ OnFile(s)
      /\ ~Finished(t) /\ ~Out(t)
  BY <1>1, <1>2, <1>5 DEF Proper, Step, HasAsset, OnFile, Finished, Out
<1>7. /\ TruePlans(plan', site') /\ TrueRows(assets', site') /\ Truthful(t, site')
      /\ \A o \in Opp : site[o] # None => site'[o] # None
  <2>1. TruePlans(plan', site') /\ TrueRows(assets', site')
    BY <1>1 DEF IInv, SiteInv
  <2>2. Truthful(t, site')
    BY <1>1, <1>2, <1>5, <1>6 DEF Truthful
  <2>3. QED
    BY <1>1, <2>1, <2>2
<1>8. \A i \in Ids, o \in Opp : Says(assets', i, o) \/ ClaimedBy(t, i, o) => Claims(i, o)
  <2>1. \A i, o : ClaimedBy(s, i, o) => Claims(i, o)
    BY Standing DEF s
  <2>2. \A i, o : Says(assets', i, o) => Claims(i, o)
    BY <1>1, Standing
  <2>3. \A i, o : ClaimedBy(t, i, o) => ClaimedBy(s, i, o)
    BY <1>1, <1>5, <1>6 DEF ClaimedBy
  <2>4. QED
    BY <2>1, <2>2, <2>3
<1>9. ASSUME ~undone'
      PROVE  /\ OnePerOpp(assets') /\ OnePerAsset(links') /\ Based(t, assets', links')
             /\ links \subseteq links'
             /\ \A i \in Ids, o \in Opp : Says(assets, i, o) => Says(assets', i, o)
             /\ \A o \in Opp : HasLive(assets, o) => HasLive(assets', o)
             /\ LivePlans(plan', assets') /\ Alive(t, assets')
             /\ PublicInv'
  <2>1. ~undone /\ links \subseteq s.copy /\ links \subseteq links'
    BY <1>1, <1>9
  <2>2. /\ FilesInv /\ LiveInv /\ PublicInv
        /\ Based(s, assets, links) /\ Alive(s, assets)
    BY <2>1, Standing DEF IInv, KeptInv, s
  <2>3. OnePerAsset(links')
    <3>1. /\ \A k, l \in s.copy : k.asset = l.asset => k.id = l.id
          /\ \A k \in s.copy : k.asset # row.asset
      BY <1>1, <1>3, <2>2 DEF Based, OnePerAsset
    <3>2. QED
      BY <1>1, <3>1 DEF OnePerAsset
  <2>4. Based(t, assets', links')
    <3>1. Says(assets', t.asset, t.opp)
      BY <1>1, <1>5, <1>6, <2>2 DEF Based
    <3>2. \E k \in links' : k.id = t.link /\ k.asset = t.asset
      BY <1>1, <1>3, <1>5
    <3>3. QED
      BY <1>5, <3>1, <3>2 DEF Based
  <2>5. LivePlans(plan', assets') /\ Alive(t, assets')
    BY <1>1, <1>5, <1>6, <2>2 DEF LiveInv, Alive
  <2>6. PublicInv'
    BY <1>1, <2>1, <2>2 DEF PublicInv
  <2>7. QED
    BY <1>1, <2>1, <2>2, <2>3, <2>4, <2>5, <2>6 DEF FilesInv
<1>10. TypeOK'
  <2>1. links' \subseteq LinkRow
    BY <1>1, <1>2, <1>3
  <2>2. undone' \in BOOLEAN
    BY <1>1
  <2>3. QED
    BY <1>1, <1>5, <1>6, <2>1, <2>2, Standing, TypeMove
<1>11. ids' \in {ids, ids + 1} /\ (undone => undone')
  BY <1>1
<1>12. QED
  BY <1>5, <1>6, <1>7, <1>8, <1>9, <1>10, <1>11, MoveStep

\* The page that goes out carries the link the runner holds, which is on file.
LEMMA DeployStep == ASSUME IInv, NEW r \in Runner, Deploy(r) PROVE IInv'
<1> DEFINE s == run[r]
<1>1. /\ s.at = "deploy"
      /\ UNCHANGED <<plan, assets, links, pins, todo, made, ids, undone, runs, crashes>>
  BY DEF Deploy, files, night, count
<1>2. /\ Proper(s) /\ Truthful(s, site) /\ s.opp \in Opp /\ s.board \in Plans
      /\ s.pin \in BOOLEAN /\ s.asset \in Ids /\ s.link \in Ids /\ s.link # None
  BY <1>1, Standing, ChainAssumption DEF Proper, HasAsset, Ids
<1>3. CASE Go(r, Blocked(s)) /\ UNCHANGED site
  BY <1>1, <1>3, BareMove
<1>4. CASE /\ site' = [site EXCEPT ![s.opp] = s.link]
           /\ Go(r, [At(s, "save live") EXCEPT !.asset = s.asset])
  <2>1. PICK t : t = [At(s, "save live") EXCEPT !.asset = s.asset]
    OBVIOUS
  <2>2. /\ Go(r, t) /\ t.at = "save live" /\ t.opp = s.opp /\ t.board = s.board
        /\ t.pin = s.pin /\ t.asset = s.asset
    BY <1>4, <2>1 DEF At, State
  <2> HIDE DEF s
  <2>3. /\ site' \in [Opp -> Ids \cup {None}] /\ site'[s.opp] = s.link
        /\ \A o \in Opp : o # s.opp => site'[o] = site[o]
        /\ \A o \in Opp : site[o] # None => site'[o] # None
    BY <1>2, <1>4, Standing
  <2>4. Proper(t) /\ HasAsset(t) /\ HasAsset(s) /\ OnFile(s) /\ ~Finished(t)
    BY <1>1, <1>2, <2>2 DEF Proper, Step, HasAsset, OnFile, Finished
  <2>5. TruePlans(plan', site') /\ TrueRows(assets', site') /\ Truthful(t, site')
    <3>1. TruePlans(plan, site) /\ TrueRows(assets, site) /\ TruePlans(s.board, site)
      BY <1>1, <1>2 DEF IInv, SiteInv, Truthful
    <3>2. TruePlans(plan', site') /\ TruePlans(s.board, site')
      BY <1>1, <2>3, <3>1 DEF TruePlans
    <3>3. TrueRows(assets', site')
      <4>1. \A a \in assets : a.opp \in Opp
        BY Standing DEF AssetRow
      <4>2. QED
        BY <1>1, <2>3, <3>1, <4>1 DEF TrueRows
    <3>4. Truthful(t, site')
      BY <1>2, <2>2, <2>3, <3>2 DEF Truthful
    <3>5. QED
      BY <3>2, <3>3, <3>4
  <2>6. \A i \in Ids, o \in Opp : Says(assets', i, o) \/ ClaimedBy(t, i, o) => Claims(i, o)
    <3>1. \A i, o : ClaimedBy(s, i, o) => Claims(i, o)
      BY Standing DEF s
    <3>2. \A i, o : Says(assets', i, o) => Claims(i, o)
      BY <1>1, Standing
    <3>3. \A i, o : ClaimedBy(t, i, o) => ClaimedBy(s, i, o)
      BY <1>1, <2>2, <2>4 DEF ClaimedBy
    <3>4. QED
      BY <3>1, <3>2, <3>3
  <2>7. ASSUME ~undone'
        PROVE  /\ OnePerOpp(assets') /\ OnePerAsset(links') /\ Based(t, assets', links')
               /\ links \subseteq links'
               /\ \A i \in Ids, o \in Opp : Says(assets, i, o) => Says(assets', i, o)
               /\ \A o \in Opp : HasLive(assets, o) => HasLive(assets', o)
               /\ LivePlans(plan', assets') /\ Alive(t, assets')
               /\ PublicInv'
    <3>1. /\ FilesInv /\ LiveInv /\ PublicInv
          /\ Based(s, assets, links) /\ Alive(s, assets)
      BY <1>1, <2>7, Standing DEF IInv, KeptInv, s
    <3>2. /\ Says(assets, s.asset, s.opp)
          /\ \E k \in links : k.id = s.link /\ k.asset = s.asset
      BY <1>1, <2>4, <3>1 DEF Based
    <3>3. Based(t, assets', links')
      BY <1>1, <2>2, <3>2 DEF Based
    <3>4. LivePlans(plan', assets') /\ Alive(t, assets')
      BY <1>1, <2>2, <2>4, <3>1 DEF LiveInv, Alive
    <3>5. PublicInv'
      <4>1. \A o \in Opp : site'[o] # None =>
               \E k \in links : k.id = site'[o] /\ Says(assets, k.asset, o)
        BY <2>3, <3>1, <3>2 DEF PublicInv
      <4>2. \A p \in pins : \E o \in Opp : Says(assets, p, o) /\ site'[o] # None
        BY <2>3, <3>1 DEF PublicInv
      <4>3. QED
        BY <1>1, <4>1, <4>2 DEF PublicInv
    <3>6. QED
      BY <1>1, <3>1, <3>3, <3>4, <3>5 DEF FilesInv
  <2>8. TypeOK'
    BY <1>1, <2>2, <2>3, <2>4, Standing, TypeMove
  <2>9. ids' \in {ids, ids + 1} /\ (undone => undone')
    BY <1>1
  <2>10. QED
    BY <2>2, <2>3, <2>4, <2>5, <2>6, <2>7, <2>8, <2>9, MoveStep
<1>5. QED
  BY <1>3, <1>4 DEF Deploy

\* Only the runner's own asset changes: no other row has its id.
LEMMA SaveLiveStep == ASSUME IInv, NEW r \in Runner, SaveLive(r) PROVE IInv'
<1> DEFINE s == run[r]
           row == [id |-> s.asset, opp |-> s.opp, live |-> TRUE]
<1>1. /\ s.at = "save live"
      /\ assets' = {a \in assets : a.id # s.asset} \cup {row}
      /\ UNCHANGED <<plan, links, site, pins, todo, made, ids, undone, runs, crashes>>
  BY DEF SaveLive, WithLive, night, count
<1>2. /\ Proper(s) /\ Truthful(s, site) /\ s.opp \in Opp /\ s.board \in Plans
      /\ s.pin \in BOOLEAN /\ s.asset \in Ids /\ site[s.opp] # None
  BY <1>1, Standing DEF Proper, HasAsset, Truthful, Out
<1>3. row \in AssetRow /\ row.id = s.asset /\ row.opp = s.opp /\ row.live = TRUE
  BY <1>2 DEF AssetRow, Ids
<1>4. PICK t : t = [At(s, "save plan") EXCEPT !.asset = s.asset, !.result = "completed"]
  OBVIOUS
<1>5. /\ Go(r, t) /\ t.at = "save plan" /\ t.opp = s.opp /\ t.board = s.board
      /\ t.pin = s.pin /\ t.asset = s.asset /\ t.result = "completed"
  BY <1>4 DEF SaveLive, At, State
<1>6. \A a \in assets : a.id = s.asset => a.opp = s.opp
  <2>1. Claims(s.asset, s.opp)
    BY <1>1, Standing DEF ClaimedBy, HasAsset
  <2>2. ASSUME NEW a \in assets, a.id = s.asset PROVE a.opp = s.opp
    <3>1. a.opp \in Opp
      BY Standing DEF AssetRow
    <3>2. Claims(s.asset, a.opp)
      BY <2>2, Standing DEF Says
    <3>3. QED
      BY <1>2, <2>1, <3>1, <3>2 DEF IInv, OwnInv
  <2>3. QED
    BY <2>2
<1> HIDE DEF row, s
<1>7. /\ Proper(t) /\ HasAsset(t) /\ HasAsset(s) /\ OnFile(s) /\ Finished(t)
  BY <1>1, <1>2, <1>5 DEF Proper, Step, HasAsset, OnFile, Finished
<1>8. /\ TruePlans(plan', site') /\ TrueRows(assets', site') /\ Truthful(t, site')
      /\ \A o \in Opp : site[o] # None => site'[o] # None
  <2>1. TruePlans(plan', site') /\ TrueRows(assets, site)
    BY <1>1 DEF IInv, SiteInv
  <2>2. TrueRows(assets', site')
    BY <1>1, <1>2, <1>3, <2>1 DEF TrueRows
  <2>3. Truthful(t, site')
    BY <1>1, <1>2, <1>5 DEF Truthful
  <2>4. QED
    BY <1>1, <2>1, <2>2, <2>3
<1>9. \A i \in Ids, o \in Opp : Says(assets', i, o) \/ ClaimedBy(t, i, o) => Claims(i, o)
  <2>1. \A i, o : ClaimedBy(s, i, o) => Claims(i, o)
    BY Standing DEF s
  <2>2. \A i, o : Says(assets', i, o) => Says(assets, i, o) \/ ClaimedBy(s, i, o)
    BY <1>1, <1>3, <1>7 DEF Says, ClaimedBy
  <2>3. \A i, o : ClaimedBy(t, i, o) => ClaimedBy(s, i, o)
    BY <1>1, <1>5, <1>7 DEF ClaimedBy
  <2>4. QED
    BY <2>1, <2>2, <2>3, Standing
<1>10. ASSUME ~undone'
       PROVE  /\ OnePerOpp(assets') /\ OnePerAsset(links') /\ Based(t, assets', links')
              /\ links \subseteq links'
              /\ \A i \in Ids, o \in Opp : Says(assets, i, o) => Says(assets', i, o)
              /\ \A o \in Opp : HasLive(assets, o) => HasLive(assets', o)
              /\ LivePlans(plan', assets') /\ Alive(t, assets')
              /\ PublicInv'
  <2>1. /\ FilesInv /\ LiveInv /\ PublicInv
        /\ Based(s, assets, links) /\ Alive(s, assets)
    BY <1>1, <1>10, Standing DEF IInv, KeptInv, s
  <2>2. OnePerOpp(assets')
    <3>1. PICK b \in assets : b.id = s.asset /\ b.opp = s.opp
      BY <1>7, <2>1 DEF Based, Says
    <3>2. \A a \in assets : a.opp = s.opp => a.id = s.asset
      BY <2>1, <3>1 DEF FilesInv, OnePerOpp
    <3>3. \A a, c \in assets : a.opp = c.opp => a.id = c.id
      BY <2>1 DEF FilesInv, OnePerOpp
    <3>4. ASSUME NEW a \in assets', NEW c \in assets', a.opp = c.opp PROVE a.id = c.id
      <4>1. /\ a = row \/ a \in assets
            /\ c = row \/ c \in assets
        BY <1>1
      <4>2. QED
        BY <1>3, <3>2, <3>3, <3>4, <4>1
    <3>5. QED
      BY <3>4 DEF OnePerOpp
  <2>3. \A i, o : Says(assets, i, o) => Says(assets', i, o)
    BY <1>1, <1>3, <1>6 DEF Says
  <2>4. \A o : HasLive(assets, o) => HasLive(assets', o)
    BY <1>1, <1>3, <1>6 DEF HasLive
  <2>5. Says(assets', s.asset, s.opp) /\ HasLive(assets', s.opp)
    BY <1>1, <1>3 DEF Says, HasLive
  <2>6. Based(t, assets', links')
    BY <1>5, <2>5 DEF Based
  <2>7. LivePlans(plan', assets')
    BY <1>1, <2>1, <2>4 DEF LiveInv, LivePlans
  <2>8. Alive(t, assets')
    BY <1>1, <1>5, <2>1, <2>4, <2>5 DEF Alive, LivePlans
  <2>9. PublicInv'
    BY <1>1, <2>1, <2>3 DEF PublicInv
  <2>10. QED
    BY <1>1, <2>1, <2>2, <2>3, <2>4, <2>6, <2>7, <2>8, <2>9 DEF FilesInv
<1>11. TypeOK'
  <2>1. assets' \subseteq AssetRow
    BY <1>1, <1>3, Standing
  <2>2. QED
    BY <1>1, <1>5, <1>7, <2>1, Standing, TypeMove
<1>12. ids' \in {ids, ids + 1} /\ (undone => undone')
  BY <1>1
<1>13. QED
  BY <1>5, <1>7, <1>8, <1>9, <1>10, <1>11, <1>12, MoveStep

\* A runner that rests holds nothing.
LEMMA Resting ==
  /\ Rest.at = "rest" /\ Proper(Rest)
  /\ \A page : Truthful(Rest, page)
  /\ \A i, o : ~ClaimedBy(Rest, i, o)
  /\ \A as, ls : Based(Rest, as, ls)
  /\ \A as : Alive(Rest, as)
<1>1. PICK t : t = Rest
  OBVIOUS
<1>2. t.at = "rest"
  BY <1>1 DEF Rest, State
<1> HIDE <1>1
<1>3. ~HasAsset(t) /\ ~OnFile(t) /\ ~Out(t) /\ ~Finished(t)
  BY <1>2 DEF HasAsset, OnFile, Out, Finished
<1>4. /\ Proper(t)
      /\ \A page : Truthful(t, page)
      /\ \A i, o : ~ClaimedBy(t, i, o)
      /\ \A as, ls : Based(t, as, ls)
      /\ \A as : Alive(t, as)
  BY <1>2, <1>3 DEF Proper, Step, Truthful, ClaimedBy, Based, Alive
<1>5. QED
  BY <1>1, <1>2, <1>4

\* The copy of the board that is saved says completed only of what is live.
LEMMA SavePlanStep == ASSUME IInv, NEW r \in Runner, SavePlan(r) PROVE IInv'
<1> DEFINE s == run[r]
<1>1. /\ s.at = "save plan"
      /\ UNCHANGED <<assets, links, site, pins, todo, ids, runs, crashes>>
      /\ made' = made \/ made' = made + 1
      /\ IF s.pin THEN UNCHANGED <<plan, undone>>
         ELSE /\ plan' = [s.board EXCEPT ![s.opp] = s.result]
              /\ undone' = (undone \/ plan # s.board)
  BY DEF SavePlan, Result
<1>2. /\ Proper(s) /\ Truthful(s, site) /\ s.opp \in Opp /\ s.board \in Plans
      /\ s.pin \in BOOLEAN /\ s.result \in {"human", "completed"}
  BY <1>1, Standing DEF Proper
<1>3. PICK t : /\ Go(r, t)
               /\ \/ t = Rest
                  \/ s.pin /\ s.result = "completed" /\ t = [At(s, "pin") EXCEPT !.asset = s.asset]
  BY DEF SavePlan
<1>4. t = Rest \/ /\ s.pin /\ Finished(s) /\ t.at = "pin" /\ t.opp = s.opp
                  /\ t.board = s.board /\ t.pin = s.pin /\ t.asset = s.asset
  BY <1>1, <1>3 DEF At, State, Finished
<1> HIDE DEF s
<1>5. Proper(t)
  <2>1. CASE t = Rest
    BY <2>1, Resting
  <2>2. CASE t # Rest
    BY <1>2, <1>4, <2>2 DEF Proper, Step, HasAsset, Finished
  <2>3. QED
    BY <2>1, <2>2
<1>6. TruePlans(plan', site') /\ TrueRows(assets', site')
  <2>1. TruePlans(plan, site) /\ TrueRows(assets, site) /\ TruePlans(s.board, site)
    BY <1>1, <1>2 DEF IInv, SiteInv, Truthful
  <2>2. CASE s.pin
    BY <1>1, <2>1, <2>2
  <2>3. CASE ~s.pin
    <3>1. plan' = [s.board EXCEPT ![s.opp] = s.result]
      BY <1>1, <2>3
    <3>2. s.result = "completed" => site[s.opp] # None
      BY <1>1, <1>2 DEF Truthful, Out, Finished
    <3>3. TruePlans(plan', site)
      BY <1>2, <2>1, <3>1, <3>2 DEF TruePlans, Plans
    <3>4. QED
      BY <1>1, <2>1, <3>3
  <2>4. QED
    BY <1>2, <2>2, <2>3
<1>7. Truthful(t, site')
  <2>1. CASE t = Rest
    BY <2>1, Resting
  <2>2. CASE t # Rest
    BY <1>1, <1>2, <1>4, <2>2 DEF Truthful, Out
  <2>3. QED
    BY <2>1, <2>2
<1>8. \A i \in Ids, o \in Opp : Says(assets', i, o) \/ ClaimedBy(t, i, o) => Claims(i, o)
  <2>1. \A i, o : ClaimedBy(s, i, o) => Claims(i, o)
    BY Standing DEF s
  <2>2. \A i, o : Says(assets', i, o) => Claims(i, o)
    BY <1>1, Standing
  <2>3. \A i, o : ClaimedBy(t, i, o) => ClaimedBy(s, i, o)
    <3>1. CASE t = Rest
      BY <3>1, Resting
    <3>2. CASE t # Rest
      BY <1>4, <3>2 DEF ClaimedBy, HasAsset
    <3>3. QED
      BY <3>1, <3>2
  <2>4. QED
    BY <2>1, <2>2, <2>3
<1>9. undone => undone'
  BY <1>1
<1>10. ASSUME ~undone'
       PROVE  /\ OnePerOpp(assets') /\ OnePerAsset(links') /\ Based(t, assets', links')
              /\ links \subseteq links'
              /\ \A i \in Ids, o \in Opp : Says(assets, i, o) => Says(assets', i, o)
              /\ \A o \in Opp : HasLive(assets, o) => HasLive(assets', o)
              /\ LivePlans(plan', assets') /\ Alive(t, assets')
              /\ PublicInv'
  <2>1. /\ FilesInv /\ LiveInv /\ PublicInv
        /\ Based(s, assets, links) /\ Alive(s, assets)
    BY <1>9, <1>10, Standing DEF IInv, KeptInv, s
  <2>2. Based(t, assets', links')
    <3>1. CASE t = Rest
      BY <3>1, Resting
    <3>2. CASE t # Rest
      <4>1. Says(assets, s.asset, s.opp)
        BY <1>4, <2>1, <3>2 DEF Based, OnFile, HasAsset, Finished
      <4>2. QED
        BY <1>1, <1>4, <3>2, <4>1 DEF Based
    <3>3. QED
      BY <3>1, <3>2
  <2>3. LivePlans(plan', assets')
    <3>1. LivePlans(plan, assets) /\ LivePlans(s.board, assets)
      BY <1>1, <2>1 DEF LiveInv, Alive
    <3>2. s.result = "completed" => HasLive(assets, s.opp)
      BY <1>1, <2>1 DEF Alive, Finished
    <3>3. CASE s.pin
      BY <1>1, <3>1, <3>3
    <3>4. CASE ~s.pin
      <4>1. plan' = [s.board EXCEPT ![s.opp] = s.result]
        BY <1>1, <3>4
      <4>2. LivePlans(plan', assets)
        BY <1>2, <3>1, <3>2, <4>1 DEF LivePlans, Plans
      <4>3. QED
        BY <1>1, <4>2
    <3>5. QED
      BY <1>2, <3>3, <3>4
  <2>4. Alive(t, assets')
    <3>1. CASE t = Rest
      BY <3>1, Resting
    <3>2. CASE t # Rest
      BY <1>1, <1>4, <2>1, <3>2 DEF Alive, Finished
    <3>3. QED
      BY <3>1, <3>2
  <2>5. PublicInv'
    BY <1>1, <2>1 DEF PublicInv
  <2>6. QED
    BY <1>1, <2>1, <2>2, <2>3, <2>4, <2>5 DEF FilesInv
<1>11. TypeOK'
  <2>1. undone' \in BOOLEAN /\ made' \in Nat
    <3>1. undone \in BOOLEAN /\ made \in Nat
      BY Standing
    <3>2. undone' \in BOOLEAN
      BY <1>1, <1>2, <3>1
    <3>3. made' \in Nat
      <4>1. made \in Nat
        BY <3>1
      <4>2. made' = made \/ made' = made + 1
        BY <1>1
      <4>3. QED
        BY <4>1, <4>2
    <3>4. QED
      BY <3>2, <3>3
  <2>2. plan' \in Plans
    <3>1. CASE s.pin
      BY <1>1, <3>1, Standing
    <3>2. CASE ~s.pin
      BY <1>1, <1>2, <3>2 DEF Plans
    <3>3. QED
      BY <1>2, <3>1, <3>2
  <2>3. QED
    BY <1>1, <1>3, <1>5, <2>1, <2>2, Standing, TypeMove
<1>12. \A o \in Opp : site[o] # None => site'[o] # None
  BY <1>1
<1>13. ids' \in {ids, ids + 1}
  BY <1>1
<1>14. QED
  BY <1>3, <1>5, <1>6, <1>7, <1>8, <1>9, <1>10, <1>11, <1>12, <1>13, MoveStep

\* A draft adds the pin of an asset that is live, and keeps to the day's number.
LEMMA Drafting ==
  ASSUME IInv, NEW a \in assets, a.live, Draft(a.id)
  PROVE  /\ pins' \subseteq Ids /\ Cardinality(pins') <= PinsPerDay
         /\ \A p \in pins' : p \in pins \/ p = a.id
<1>1. /\ a \in AssetRow /\ a.id \in Ids
      /\ pins \subseteq Ids /\ Cardinality(pins) <= PinsPerDay
  BY DEF IInv, TypeOK, AssetRow, Ids
<1>2. IsFiniteSet(pins) /\ Cardinality(pins) \in Nat /\ PinsPerDay \in Nat
  <2>1. IsFiniteSet(Ids)
    BY ChainAssumption, FS_Interval DEF Ids
  <2>2. QED
    BY <1>1, <2>1, FS_Subset, FS_CardinalityType, ChainAssumption
<1>3. /\ IsFiniteSet(pins \cup {a.id})
      /\ Cardinality(pins \cup {a.id}) = IF a.id \in pins THEN Cardinality(pins)
                                         ELSE Cardinality(pins) + 1
  BY <1>2, FS_AddElement
<1>4. CASE Cardinality(pins) < PinsPerDay
  <2>1. Cardinality(pins \cup {a.id}) <= PinsPerDay
    BY <1>2, <1>3, <1>4
  <2>2. pins' = pins \cup {a.id}
    BY <1>4 DEF Draft
  <2>3. QED
    BY <1>1, <2>1, <2>2
<1>5. CASE ~(Cardinality(pins) < PinsPerDay)
  BY <1>1, <1>5 DEF Draft
<1>6. QED
  BY <1>4, <1>5

\* A step that changes pins at most, and leaves the runner r at rest or where
\* it is.
LEMMA PinStep ==
  ASSUME IInv, NEW r \in Runner, NEW t, t = Rest \/ t = run[r], Go(r, t),
         UNCHANGED <<plan, assets, links, site, todo, made, ids, undone, runs, crashes>>,
         \/ UNCHANGED pins
         \/ \E a \in assets : a.live /\ Draft(a.id)
  PROVE  IInv'
<1>1. /\ Proper(t) /\ Truthful(t, site)
      /\ \A i, o : ClaimedBy(t, i, o) => Claims(i, o)
      /\ ~undone => Based(t, assets, links) /\ Alive(t, assets)
  BY Standing, Resting
<1>2. /\ pins' \subseteq Ids /\ Cardinality(pins') <= PinsPerDay
      /\ \A p \in pins' : p \in pins \/ \E a \in assets : a.live /\ p = a.id
  <2>1. CASE UNCHANGED pins
    BY <2>1, Standing
  <2>2. CASE \E a \in assets : a.live /\ Draft(a.id)
    <3>1. PICK a \in assets : a.live /\ Draft(a.id)
      BY <2>2
    <3>2. /\ pins' \subseteq Ids /\ Cardinality(pins') <= PinsPerDay
          /\ \A p \in pins' : p \in pins \/ p = a.id
      BY <3>1, Drafting
    <3>3. QED
      BY <3>1, <3>2
  <2>3. QED
    BY <2>1, <2>2
<1>3. TypeOK'
  BY <1>1, <1>2, Standing, TypeMove
<1>4. /\ TruePlans(plan', site') /\ TrueRows(assets', site') /\ Truthful(t, site')
      /\ \A o \in Opp : site[o] # None => site'[o] # None
  BY <1>1 DEF IInv, SiteInv
<1>5. \A i \in Ids, o \in Opp : Says(assets', i, o) \/ ClaimedBy(t, i, o) => Claims(i, o)
  BY <1>1, Standing
<1>6. ASSUME ~undone'
      PROVE  /\ OnePerOpp(assets') /\ OnePerAsset(links') /\ Based(t, assets', links')
             /\ LivePlans(plan', assets') /\ Alive(t, assets') /\ PublicInv'
  <2>1. FilesInv /\ LiveInv /\ PublicInv
    BY <1>6 DEF IInv, KeptInv
  <2>2. ASSUME NEW p \in pins' PROVE \E o \in Opp : Says(assets, p, o) /\ site[o] # None
    <3>1. CASE p \in pins
      BY <2>1, <3>1 DEF PublicInv
    <3>2. CASE \E a \in assets : a.live /\ p = a.id
      <4>1. PICK a \in assets : a.live /\ p = a.id
        BY <3>2
      <4>2. a.opp \in Opp /\ site[a.opp] # None
        BY <4>1, Standing DEF AssetRow, IInv, SiteInv, TrueRows
      <4>3. QED
        BY <4>1, <4>2 DEF Says
    <3>3. QED
      BY <1>2, <3>1, <3>2
  <2>3. PublicInv'
    BY <2>1, <2>2 DEF PublicInv
  <2>4. QED
    BY <1>1, <1>6, <2>1, <2>3 DEF FilesInv, LiveInv
<1>7. ids' \in {ids, ids + 1} /\ (undone => undone') /\ links \subseteq links'
  OBVIOUS
<1>8. QED
  BY <1>1, <1>3, <1>4, <1>5, <1>6, <1>7, MoveStep

LEMMA CyclePinStep == ASSUME IInv, NEW r \in Runner, CyclePin(r) PROVE IInv'
<1>1. /\ Go(r, Rest)
      /\ UNCHANGED <<plan, assets, links, site, todo, made, ids, undone, runs, crashes>>
  BY DEF CyclePin, files, night, count
<1>2. UNCHANGED pins \/ \E a \in assets : a.live /\ Draft(a.id)
  BY DEF CyclePin, Draftable
<1>3. QED
  BY <1>1, <1>2, PinStep

LEMMA DraftPinStep == ASSUME IInv, DraftPin PROVE IInv'
<1>1. Night \in Runner /\ Go(Night, run[Night])
  BY DEF DraftPin, Go, Runner, IInv, RunInv
<1>2. UNCHANGED <<plan, assets, links, site, todo, made, ids, undone, runs, crashes>>
  BY DEF DraftPin, files, night, count
<1>3. \E a \in assets : a.live /\ Draft(a.id)
  BY DEF DraftPin, Draftable
<1>4. QED
  BY <1>1, <1>2, <1>3, PinStep

\* The selection takes the plan off one opportunity before a chain is started.
LEMMA NightTakesStep == ASSUME IInv, NEW o \in Opp, NightTakes(o) PROVE IInv'
<1>1. /\ Night \in Runner /\ run = [r \in Runner |-> run[r]]
      /\ plan' = [plan EXCEPT ![o] = "none"]
      /\ todo' = todo \ {o}
      /\ UNCHANGED <<assets, links, site, pins, made, ids, undone, runs, crashes>>
  BY DEF NightTakes, Runner, IInv, RunInv, count
<1>2. plan \in Plans /\ plan' \in Plans
  BY <1>1, Standing DEF Plans
<1>3. PICK t : /\ Go(Night, t)
               /\ t = run[Night] \/ t = [Chain(o, FALSE) EXCEPT !.board = plan']
  <2>1. CASE Go(Night, [Chain(o, FALSE) EXCEPT !.board = plan'])
    BY <2>1
  <2>2. CASE UNCHANGED run
    BY <1>1, <2>2 DEF Go
  <2>3. QED
    BY <2>1, <2>2 DEF NightTakes
<1>4. t = run[Night] \/ /\ t.at = "match" /\ t.opp = o /\ t.board = plan' /\ t.pin = FALSE
                        /\ ~HasAsset(t) /\ ~OnFile(t) /\ ~Finished(t) /\ ~Out(t)
  <2>1. ASSUME t = [Chain(o, FALSE) EXCEPT !.board = plan']
        PROVE  t.at = "match" /\ t.opp = o /\ t.board = plan' /\ t.pin = FALSE
    BY <2>1 DEF Chain, State
  <2>2. QED
    BY <1>3, <2>1 DEF HasAsset, OnFile, Finished, Out
<1>5. TruePlans(plan', site) /\ TrueRows(assets, site)
  <2>1. TruePlans(plan, site) /\ TrueRows(assets, site)
    BY DEF IInv, SiteInv
  <2>2. \A p \in Opp : plan'[p] = "completed" => plan[p] = "completed"
    BY <1>1, <1>2 DEF Plans
  <2>3. QED
    BY <2>1, <2>2 DEF TruePlans
<1>6. /\ Proper(t) /\ Truthful(t, site)
      /\ \A i, p : ClaimedBy(t, i, p) => Claims(i, p)
  <2>1. CASE t = run[Night]
    BY <1>1, <2>1, Standing
  <2>2. CASE t # run[Night]
    BY <1>2, <1>4, <1>5, <2>2 DEF Proper, Step, Truthful, ClaimedBy
  <2>3. QED
    BY <2>1, <2>2
<1>7. /\ TruePlans(plan', site') /\ TrueRows(assets', site') /\ Truthful(t, site')
      /\ \A p \in Opp : site[p] # None => site'[p] # None
  BY <1>1, <1>5, <1>6
<1>8. \A i \in Ids, p \in Opp : Says(assets', i, p) \/ ClaimedBy(t, i, p) => Claims(i, p)
  BY <1>1, <1>6, Standing
<1>9. ASSUME ~undone'
      PROVE  /\ OnePerOpp(assets') /\ OnePerAsset(links') /\ Based(t, assets', links')
             /\ links \subseteq links'
             /\ \A i \in Ids, p \in Opp : Says(assets, i, p) => Says(assets', i, p)
             /\ \A p \in Opp : HasLive(assets, p) => HasLive(assets', p)
             /\ LivePlans(plan', assets') /\ Alive(t, assets')
             /\ PublicInv'
  <2>1. FilesInv /\ LiveInv /\ PublicInv
    BY <1>1, <1>9 DEF IInv, KeptInv
  <2>2. LivePlans(plan', assets)
    <3>1. \A p \in Opp : plan'[p] = "completed" => plan[p] = "completed"
      BY <1>1, <1>2 DEF Plans
    <3>2. QED
      BY <2>1, <3>1 DEF LiveInv, LivePlans
  <2>3. Based(t, assets, links) /\ Alive(t, assets)
    <3>1. CASE t = run[Night]
      BY <1>1, <2>1, <3>1 DEF FilesInv, LiveInv
    <3>2. CASE t # run[Night]
      BY <1>4, <2>2, <3>2 DEF Based, Alive
    <3>3. QED
      BY <3>1, <3>2
  <2>4. PublicInv'
    BY <1>1, <2>1 DEF PublicInv
  <2>5. QED
    BY <1>1, <2>1, <2>2, <2>3, <2>4 DEF FilesInv
<1>10. TypeOK'
  <2>1. todo' \subseteq Opp
    BY <1>1, Standing
  <2>2. QED
    BY <1>1, <1>2, <1>3, <1>6, <2>1, Standing, TypeMove
<1>11. ids' \in {ids, ids + 1} /\ (undone => undone')
  BY <1>1
<1>12. QED
  BY <1>1, <1>3, <1>6, <1>7, <1>8, <1>9, <1>10, <1>11, MoveStep

LEMMA HumanTakesStep == ASSUME IInv, NEW o \in Opp, HumanTakes(o) PROVE IInv'
<1>1. /\ Human \in Runner /\ runs < MaxRuns /\ runs' = runs + 1
      /\ UNCHANGED <<plan, assets, links, site, pins, todo, made, ids, undone, crashes>>
  BY DEF HumanTakes, Runner, files, night
<1>2. PICK pin \in BOOLEAN : Go(Human, Chain(o, pin))
  BY DEF HumanTakes
<1>3. PICK t : t = Chain(o, pin)
  OBVIOUS
<1>4. t.at = "match" /\ t.opp = o /\ t.board = plan /\ t.pin = pin
  BY <1>3 DEF Chain, State
<1>5. ~HasAsset(t) /\ ~OnFile(t) /\ ~Finished(t) /\ ~Out(t)
  BY <1>4 DEF HasAsset, OnFile, Finished, Out
<1>6. Proper(t)
  BY <1>1, <1>4, <1>5, Standing DEF Proper, Step
<1>7. Truthful(t, site)
  BY <1>4, <1>5 DEF Truthful, IInv, SiteInv
<1>8. \A i, p : ~ClaimedBy(t, i, p)
  BY <1>4, <1>5 DEF ClaimedBy
<1>9. ~undone => Based(t, assets, links) /\ Alive(t, assets)
  BY <1>4, <1>5 DEF Based, Alive, IInv, KeptInv, LiveInv
<1>10. TypeOK'
  <2>1. runs \in 0..MaxRuns /\ MaxRuns \in Nat
    BY <1>1, Standing, ChainAssumption
  <2>2. runs' \in 0..MaxRuns
    BY <1>1, <2>1
  <2>3. QED
    BY <1>1, <1>2, <1>3, <1>6, <2>2, Standing, TypeMove
<1>11. ids' \in {ids, ids + 1} /\ Go(Human, t)
  BY <1>1, <1>2, <1>3
<1>12. QED
  BY <1>1, <1>6, <1>7, <1>8, <1>9, <1>10, <1>11, QuietMove

LEMMA BeginNightStep == ASSUME IInv, BeginNight PROVE IInv'
<1> DEFINE t == run[Night]
<1>1. /\ Night \in Runner /\ run = [r \in Runner |-> run[r]]
      /\ runs < MaxRuns /\ runs' = runs + 1 /\ made' = 0
      /\ todo' = {o \in Opp : plan[o] # "completed"}
      /\ UNCHANGED <<plan, assets, links, site, pins, run, ids, undone, crashes>>
  BY DEF BeginNight, Runner, files, IInv, RunInv
<1>2. Go(Night, t)
  BY <1>1 DEF Go
<1>3. /\ Proper(t) /\ Truthful(t, site)
      /\ \A i, o : ClaimedBy(t, i, o) => Claims(i, o)
      /\ ~undone => Based(t, assets, links) /\ Alive(t, assets)
  BY <1>1, Standing
<1>4. TypeOK'
  <2>1. runs \in 0..MaxRuns /\ MaxRuns \in Nat
    BY <1>1, Standing, ChainAssumption
  <2>2. runs' \in 0..MaxRuns /\ made' \in Nat /\ todo' \subseteq Opp
    BY <1>1, <2>1
  <2>3. QED
    BY <1>1, <1>2, <1>3, <2>2, Standing, TypeMove
<1> HIDE DEF t
<1>5. ids' \in {ids, ids + 1}
  BY <1>1
<1>6. QED
  BY <1>1, <1>2, <1>3, <1>4, <1>5, QuietMove

\* A death leaves the files as they are: every step before it holds on its own.
LEMMA CrashStep == ASSUME IInv, NEW r \in Runner, Crash(r) PROVE IInv'
<1>1. /\ Go(r, Rest) /\ crashes < MaxCrashes /\ crashes' = crashes + 1
      /\ todo' \subseteq todo
      /\ UNCHANGED <<plan, assets, links, site, pins, made, ids, undone, runs>>
  BY DEF Crash, files
<1>2. TypeOK'
  <2>1. crashes \in 0..MaxCrashes /\ MaxCrashes \in Nat /\ todo \subseteq Opp
    BY Standing, ChainAssumption
  <2>2. crashes' \in 0..MaxCrashes /\ todo' \subseteq Opp
    BY <1>1, <2>1
  <2>3. QED
    BY <1>1, <2>2, Resting, Standing, TypeMove
<1>3. /\ Proper(Rest) /\ Truthful(Rest, site) /\ \A i, o : ~ClaimedBy(Rest, i, o)
      /\ Based(Rest, assets, links) /\ Alive(Rest, assets) /\ ids' \in {ids, ids + 1}
  BY <1>1, Resting
<1>4. QED
  BY <1>1, <1>2, <1>3, QuietMove

LEMMA InitIInv == ASSUME Init PROVE IInv
<1>1. \A r \in Runner : run[r] = Rest
  BY DEF Init
<1>2. TypeOK
  <2>1. /\ Cardinality(pins) <= PinsPerDay
        /\ ids \in 0..MaxIds /\ runs \in 0..MaxRuns /\ crashes \in 0..MaxCrashes
    BY FS_EmptySet, ChainAssumption DEF Init
  <2>2. \A r \in Runner : run[r].at \in Step
    BY <1>1, Resting DEF Step
  <2>3. QED
    BY <2>1, <2>2 DEF Init, TypeOK
<1>3. RunInv
  BY <1>1, Resting DEF Init, RunInv
<1>4. SiteInv
  BY <1>1, Resting DEF Init, SiteInv, TruePlans, TrueRows
<1>5. OwnInv
  BY <1>1, Resting DEF Init, OwnInv, Claims, Says
<1>6. KeptInv
  <2>1. FilesInv
    BY <1>1, Resting DEF Init, FilesInv, OnePerOpp, OnePerAsset
  <2>2. LiveInv
    BY <1>1, Resting DEF Init, LiveInv, LivePlans
  <2>3. PublicInv
    BY DEF Init, PublicInv
  <2>4. QED
    BY <2>1, <2>2, <2>3 DEF KeptInv
<1>7. QED
  BY <1>2, <1>3, <1>4, <1>5, <1>6 DEF IInv

LEMMA StepIInv == ASSUME IInv, [Next]_vars PROVE IInv'
<1>1. CASE BeginNight
  BY <1>1, BeginNightStep
<1>2. ASSUME NEW o \in Opp, NightTakes(o) PROVE IInv'
  BY <1>2, NightTakesStep
<1>3. ASSUME NEW o \in Opp, HumanTakes(o) PROVE IInv'
  BY <1>3, HumanTakesStep
<1>4. ASSUME NEW r \in Runner, ChainStep(r) PROVE IInv'
  BY <1>4, MatchStep, LoadAssetsStep, SaveAssetStep, LoadLinksStep, SaveLinkStep,
     DeployStep, SaveLiveStep, SavePlanStep, CyclePinStep DEF ChainStep
<1>5. ASSUME NEW r \in Runner, Crash(r) PROVE IInv'
  BY <1>5, CrashStep
<1>6. CASE DraftPin
  BY <1>6, DraftPinStep
<1>7. CASE UNCHANGED vars
  <2>1. UNCHANGED <<plan, assets, links, site, pins, run, todo, made, ids, undone, runs, crashes>>
    BY <1>7 DEF vars, files, night, count
  <2>2. UNCHANGED <<TypeOK, RunInv, SiteInv, OwnInv>>
    BY <2>1 DEF TypeOK, RunInv, SiteInv, OwnInv, Claims
  <2>3. UNCHANGED KeptInv
    BY <2>1 DEF KeptInv, FilesInv, LiveInv, PublicInv
  <2>4. QED
    BY <2>2, <2>3 DEF IInv
<1>8. QED
  BY <1>1, <1>2, <1>3, <1>4, <1>5, <1>6, <1>7 DEF Next

-----------------------------------------------------------------------------
\* The claims of the chain hold in every reachable state: what the versions of
\* each file say, and what each runner goes by.
THEOREM ChainStaysSound == Spec => []IInv
BY InitIInv, StepIInv, PTL DEF Spec

\* The files hold what the code can have written, and pins keep to the day's
\* number.
THEOREM TypeCorrect == Spec => []TypeOK
<1>1. IInv => TypeOK
  BY DEF IInv
<1>2. QED
  BY <1>1, ChainStaysSound, PTL

\* affiliate_pipeline.py, "never partially fabricates progress": a completed
\* plan has its page and, while no save is taken back, its live asset.
THEOREM CompletedIsLiveAlways == Spec => []CompletedIsLive
<1>1. ASSUME IInv PROVE CompletedIsLive
  <2>1. TruePlans(plan, site)
    BY <1>1 DEF IInv, SiteInv
  <2>2. ~undone => LivePlans(plan, assets)
    BY <1>1 DEF IInv, KeptInv, LiveInv
  <2>3. QED
    BY <2>1, <2>2 DEF CompletedIsLive, TruePlans, LivePlans, HasLive
<1>2. QED
  BY <1>1, ChainStaysSound, PTL

\* The link on a page can be resolved and a pin points at a page that is out,
\* while no save is taken back.
THEOREM PublicIsBackedAlways == Spec => []PublicIsBacked
<1>1. ASSUME IInv PROVE PublicIsBacked
  <2>1. ~undone => PublicInv
    BY <1>1 DEF IInv, KeptInv
  <2>2. QED
    BY <2>1 DEF PublicIsBacked, PublicInv, Says
<1>2. QED
  BY <1>1, ChainStaysSound, PTL

\* A second chain for an opportunity whose page is out carries the same link.
LEMMA SameLink ==
  ASSUME IInv, NEW r \in Runner, Deploy(r), ~undone, NEW o \in Opp, site[o] # None
  PROVE  site'[o] = site[o]
<1> DEFINE s == run[r]
<1>1. /\ s.at = "deploy" /\ s.opp \in Opp
      /\ UNCHANGED site \/ site' = [site EXCEPT ![s.opp] = s.link]
  BY Standing DEF Deploy, Proper
<1>2. FilesInv /\ PublicInv /\ Based(s, assets, links) /\ site \in [Opp -> Ids \cup {None}]
  BY Standing DEF IInv, KeptInv
<1> HIDE DEF s
<1>3. /\ Says(assets, s.asset, s.opp)
      /\ \E k \in links : k.id = s.link /\ k.asset = s.asset
  BY <1>1, <1>2 DEF Based, OnFile, HasAsset
<1>4. CASE o = s.opp
  <2>1. PICK k \in links : k.id = site[o] /\ Says(assets, k.asset, o)
    BY <1>2 DEF PublicInv
  <2>2. PICK l \in links : l.id = s.link /\ l.asset = s.asset
    BY <1>3
  <2>3. k.asset = l.asset
    BY <1>2, <1>3, <1>4, <2>1, <2>2 DEF FilesInv, OnePerOpp, Says
  <2>4. s.link = site[o]
    BY <1>2, <2>1, <2>2, <2>3 DEF FilesInv, OnePerAsset
  <2>5. QED
    BY <1>1, <1>2, <1>4, <2>4
<1>5. CASE o # s.opp
  BY <1>1, <1>2, <1>5
<1>6. QED
  BY <1>4, <1>5

LEMMA OnlyDeployPublishes ==
  ASSUME [Next]_vars
  PROVE  UNCHANGED site \/ \E r \in Runner : Deploy(r)
<1>1. CASE BeginNight \/ DraftPin
  BY <1>1 DEF BeginNight, DraftPin
<1>2. ASSUME NEW o \in Opp, NightTakes(o) \/ HumanTakes(o) PROVE UNCHANGED site
  BY <1>2 DEF NightTakes, HumanTakes
<1>3. ASSUME NEW r \in Runner, ChainStep(r) \/ Crash(r) PROVE UNCHANGED site \/ Deploy(r)
  BY <1>3 DEF ChainStep, Match, LoadAssets, SaveAsset, LoadLinks, SaveLink, SaveLive,
     SavePlan, CyclePin, Crash
<1>4. CASE UNCHANGED vars
  BY <1>4 DEF vars
<1>5. QED
  BY <1>1, <1>2, <1>3, <1>4 DEF Next

KeepsLinks == \A o \in Opp : site[o] # None /\ ~undone => site'[o] = site[o]

\* affiliate_links.py:48: a page keeps the link it went out with while no save
\* is taken back, whoever deploys it again.
THEOREM PageKeepsLinkAlways == Spec => PageKeepsLink
<1>1. IInv /\ [Next]_vars => [KeepsLinks]_vars
  BY SameLink, OnlyDeployPublishes DEF KeepsLinks
<1>2. Spec => [][KeepsLinks]_vars
  BY <1>1, ChainStaysSound, PTL DEF Spec
<1>3. QED
  BY <1>2 DEF PageKeepsLink, KeepsLinks
=============================================================================
