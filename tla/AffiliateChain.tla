---------------------------- MODULE AffiliateChain ----------------------------
(***************************************************************************)
(* The affiliate chain (affiliate_pipeline.py, affiliate_assets.py,        *)
(* affiliate_links.py, pinterest_pins.py, affiliate_cycle.py): match an    *)
(* offer, build an asset, mint a link, deploy the page, note that it is    *)
(* live, save the plan, draft a pin.                                       *)
(*                                                                         *)
(* The night loop walks the opportunities with a cap on completed chains;  *)
(* a human may run one chain at the same time (affiliate-deploy, or        *)
(* pipeline-cycle, which drafts a pin and saves no plan).  Each step loads *)
(* a file and writes it back whole, and a runner may die anywhere.         *)
(*                                                                         *)
(* Abstracted: which offer fits, how a page reads, and whether its quality *)
(* passes: any of it may stop a chain.  One offer, one source per link.    *)
(***************************************************************************)
EXTENDS Integers, FiniteSets

CONSTANTS
    Opp,            \* opportunities that are verified
    Night, Human,   \* the two programs that run chains
    None,
    MaxActions,     \* completed chains of one night
    PinsPerDay,     \* MAX_PINS_DRAFTED_PER_DAY
    MaxIds,         \* bound: ids minted
    MaxRuns,        \* bound: nights, and chains a human starts
    MaxCrashes      \* bound: deaths of a program

ASSUME ChainAssumption ==
    /\ IsFiniteSet(Opp) /\ Night # Human
    /\ None \notin Opp \cup 0..MaxIds
    /\ {MaxActions, PinsPerDay, MaxIds, MaxRuns, MaxCrashes} \subseteq Nat

VARIABLES
    plan,       \* opportunities.json: strategy.plan
    assets,     \* affiliate_assets.json
    links,      \* affiliate_links.json
    site,       \* the link on the deployed page of an opportunity
    pins,       \* pinterest pins: assets with a draft
    run,        \* where each program stands, with its copies
    todo,       \* opportunities the night has still to look at
    made,       \* chains the night completed
    ids,        \* ids minted so far
    undone,     \* history: a save took back what another program had saved
    runs, crashes

files == <<plan, assets, links>>
night == <<todo, made>>
count == <<ids, undone, runs, crashes>>
vars == <<files, site, pins, run, night, count>>

Runner == {Night, Human}

-----------------------------------------------------------------------------
(* Rows *)

AssetOf(store, o) == {a \in store : a.opp = o}
LinkOf(store, a) == {k \in store : k.asset = a}

\* Where a runner stands, with its copy of the board; a step adds what it holds.
State(step, o, board, pin) ==
    [at |-> step, opp |-> o, board |-> board, pin |-> pin,
     asset |-> None, link |-> None, copy |-> None, result |-> None]
Rest == State("rest", None, None, FALSE)

\* What a save of store takes back: rows on file that the copy had not seen.
TakesBack(onFile, copy) == ~ (onFile \subseteq copy)

Init ==
    /\ plan = [o \in Opp |-> "none"]
    /\ assets = {} /\ links = {} /\ pins = {}
    /\ site = [o \in Opp |-> None]
    /\ run = [r \in Runner |-> Rest]
    /\ todo = {} /\ made = 0
    /\ ids = 0 /\ undone = FALSE
    /\ runs = 0 /\ crashes = 0

Go(r, step) == run' = [run EXCEPT ![r] = step]

\* plan() and affiliate-deploy keep their copy of the board until the chain is
\* over; pipeline-cycle saves no plan.
Chain(o, pin) == State("match", o, plan, pin)

-----------------------------------------------------------------------------
(* Who starts a chain *)

\* run_affiliate_tick: what is completed is left alone.
BeginNight ==
    /\ run[Night] = Rest /\ todo = {} /\ runs < MaxRuns
    /\ todo' = {o \in Opp : plan[o] # "completed"}
    /\ made' = 0
    /\ runs' = runs + 1
    /\ UNCHANGED <<files, site, pins, run, ids, undone, crashes>>

\* Only chains that completed count.
UnderCap == made < MaxActions

\* evaluate and select save the opportunity without its plan; when AFFILIATE is
\* the pick, and the cap allows it, plan() starts the chain on a fresh copy.
NightTakes(o) ==
    /\ run[Night] = Rest /\ o \in todo
    /\ todo' = todo \ {o}
    /\ plan' = [plan EXCEPT ![o] = "none"]
    /\ \/ /\ UnderCap
          /\ Go(Night, [Chain(o, FALSE) EXCEPT !.board = plan'])
       \/ UNCHANGED run
    /\ UNCHANGED <<assets, links, site, pins, made, count>>

\* A human starts one chain; a cycle will draft a pin after it.
HumanTakes(o) ==
    /\ run[Human] = Rest /\ runs < MaxRuns
    /\ \E pin \in BOOLEAN : Go(Human, Chain(o, pin))
    /\ runs' = runs + 1
    /\ UNCHANGED <<files, site, pins, night, ids, undone, crashes>>

-----------------------------------------------------------------------------
(* run_affiliate_chain *)

At(s, step) == State(step, s.opp, s.board, s.pin)
Blocked(s) == [At(s, "save plan") EXCEPT !.result = "human"]

\* An offer that can be used matches, or not.
Match(r) ==
    /\ run[r].at = "match"
    /\ \/ Go(r, At(run[r], "load assets"))
       \/ Go(r, Blocked(run[r]))
    /\ UNCHANGED <<files, site, pins, night, count>>

\* build_asset: one asset per opportunity and offer.
Known(o) == AssetOf(assets, o)

LoadAssets(r) ==
    /\ run[r].at = "load assets"
    /\ LET o == run[r].opp
       IN IF Known(o) # {}
          THEN /\ \E a \in Known(o) : \/ Go(r, [At(run[r], "load links") EXCEPT !.asset = a.id])
                                      \/ Go(r, Blocked(run[r]))
               /\ UNCHANGED ids
          ELSE /\ ids < MaxIds
               /\ ids' = ids + 1
               /\ Go(r, [At(run[r], "save asset") EXCEPT !.asset = ids, !.copy = assets])
    /\ UNCHANGED <<files, site, pins, night, undone, runs, crashes>>

\* The record is saved also when the quality check then stops the chain.
SaveAsset(r) ==
    /\ run[r].at = "save asset"
    /\ LET s == run[r]
       IN /\ assets' = s.copy \cup {[id |-> s.asset, opp |-> s.opp, live |-> FALSE]}
          /\ undone' = (undone \/ TakesBack(assets, s.copy))
          /\ \/ Go(r, [At(s, "load links") EXCEPT !.asset = s.asset])
             \/ Go(r, Blocked(s))
    /\ UNCHANGED <<plan, links, site, pins, night, ids, runs, crashes>>

\* Wrong: always a new tracking id.
MintedNever(a) == {}

\* create_link: one link per asset, offer and source.
Minted(a) == LinkOf(links, a)

LoadLinks(r) ==
    /\ run[r].at = "load links"
    /\ LET a == run[r].asset
       IN IF Minted(a) # {}
          THEN /\ \E k \in Minted(a) :
                     Go(r, [At(run[r], "deploy") EXCEPT !.asset = a, !.link = k.id])
               /\ UNCHANGED ids
          ELSE /\ ids < MaxIds
               /\ ids' = ids + 1
               /\ Go(r, [At(run[r], "save link") EXCEPT !.asset = a, !.link = ids, !.copy = links])
    /\ UNCHANGED <<files, site, pins, night, undone, runs, crashes>>

\* Wrong: hands the link out without saving it.
SaveLinkNever(r) ==
    /\ run[r].at = "save link"
    /\ Go(r, [At(run[r], "deploy") EXCEPT !.asset = run[r].asset, !.link = run[r].link])
    /\ UNCHANGED <<files, site, pins, night, count>>

SaveLink(r) ==
    /\ run[r].at = "save link"
    /\ LET s == run[r]
       IN /\ links' = s.copy \cup {[id |-> s.link, asset |-> s.asset]}
          /\ undone' = (undone \/ TakesBack(links, s.copy))
          /\ Go(r, [At(s, "deploy") EXCEPT !.asset = s.asset, !.link = s.link])
    /\ UNCHANGED <<plan, assets, site, pins, night, ids, runs, crashes>>

\* deploy_asset: the page goes out with the link, or the adapter refuses.
Deploy(r) ==
    /\ run[r].at = "deploy"
    /\ LET s == run[r]
       IN \/ /\ site' = [site EXCEPT ![s.opp] = s.link]
             /\ Go(r, [At(s, "save live") EXCEPT !.asset = s.asset])
          \/ /\ Go(r, Blocked(s))
             /\ UNCHANGED site
    /\ UNCHANGED <<files, pins, night, count>>

\* The runner's asset, now with the URL of its page.
WithLive(store, s) ==
    {a \in store : a.id # s.asset} \cup {[id |-> s.asset, opp |-> s.opp, live |-> TRUE]}

\* The asset file is loaded again for this save.
SaveLive(r) ==
    /\ run[r].at = "save live"
    /\ assets' = WithLive(assets, run[r])
    /\ Go(r, [At(run[r], "save plan") EXCEPT !.asset = run[r].asset, !.result = "completed"])
    /\ UNCHANGED <<plan, links, site, pins, night, count>>

\* Wrong: notes every chain as done.
ResultAlways(s) == "completed"

Result(s) == s.result

\* The whole copy of the board is saved.
SavePlan(r) ==
    /\ run[r].at = "save plan"
    /\ LET s == run[r]
           done == Result(s) = "completed"
       IN /\ IF s.pin THEN UNCHANGED <<plan, undone>>
             ELSE /\ plan' = [s.board EXCEPT ![s.opp] = Result(s)]
                  /\ undone' = (undone \/ plan # s.board)
          /\ made' = IF r = Night /\ done THEN made + 1 ELSE made
          /\ Go(r, IF s.pin /\ s.result = "completed"
                   THEN [At(s, "pin") EXCEPT !.asset = s.asset] ELSE Rest)
    /\ UNCHANGED <<assets, links, site, pins, todo, ids, runs, crashes>>

-----------------------------------------------------------------------------
(* Pins *)

\* draft_pin: the asset has a URL.
Draftable(a) == a \in assets /\ a.live

\* Idempotent per asset, and so many a day.
Draft(id) ==
    pins' = IF Cardinality(pins) < PinsPerDay THEN pins \cup {id} ELSE pins

\* The cycle drafts the pin of the asset it has just deployed.
CyclePin(r) ==
    /\ run[r].at = "pin"
    /\ IF \E a \in assets : a.id = run[r].asset /\ Draftable(a)
       THEN Draft(run[r].asset) ELSE UNCHANGED pins
    /\ Go(r, Rest)
    /\ UNCHANGED <<files, site, night, count>>

\* pinterest-draft, by hand.
DraftPin ==
    /\ \E a \in assets : Draftable(a) /\ Draft(a.id)
    /\ UNCHANGED <<files, site, run, night, count>>

Crash(r) ==
    /\ run[r] # Rest \/ (r = Night /\ todo # {})
    /\ crashes < MaxCrashes
    /\ crashes' = crashes + 1
    /\ Go(r, Rest)
    /\ todo' = IF r = Night THEN {} ELSE todo
    /\ UNCHANGED <<files, site, pins, made, ids, undone, runs>>

ChainStep(r) == \/ Match(r) \/ LoadAssets(r) \/ SaveAsset(r) \/ LoadLinks(r)
                \/ SaveLink(r) \/ Deploy(r) \/ SaveLive(r) \/ SavePlan(r) \/ CyclePin(r)

Next == \/ BeginNight
        \/ \E o \in Opp : NightTakes(o) \/ HumanTakes(o)
        \/ \E r \in Runner : ChainStep(r) \/ Crash(r)
        \/ DraftPin

Spec == Init /\ [][Next]_vars

-----------------------------------------------------------------------------
(* Properties *)

Step == {"rest", "match", "load assets", "save asset", "load links", "save link",
         "deploy", "save live", "save plan", "pin"}
AssetRow == [id : 0..MaxIds, opp : Opp, live : BOOLEAN]
LinkRow == [id : 0..MaxIds, asset : 0..MaxIds]

\* The files hold what the code can have written.
TypeOK ==
    /\ plan \in [Opp -> {"none", "human", "completed"}]
    /\ assets \subseteq AssetRow /\ links \subseteq LinkRow
    /\ site \in [Opp -> 0..MaxIds \cup {None}]
    /\ pins \subseteq 0..MaxIds /\ Cardinality(pins) <= PinsPerDay
    /\ \A r \in Runner : run[r].at \in Step
    /\ todo \subseteq Opp /\ made \in Nat
    /\ ids \in 0..MaxIds /\ undone \in BOOLEAN
    /\ runs \in 0..MaxRuns /\ crashes \in 0..MaxCrashes

\* affiliate_pipeline.py, "never partially fabricates progress": a plan that says
\* completed has its page on the site, and unless a save was taken back an asset
\* that says so too - whoever else runs chains, and wherever one died.
CompletedIsLive ==
    \A o \in Opp : plan[o] = "completed" =>
        /\ site[o] # None
        /\ ~undone => \E a \in assets : a.opp = o /\ a.live

\* create_link before deploy_asset before draft_pin: unless a stale copy has
\* taken a row back, the link on a page is one record_click will find, and a pin
\* points at a page that is out.
PublicIsBacked ==
    ~undone =>
        /\ \A o \in Opp : site[o] # None => \E k \in links : k.id = site[o]
        /\ \A p \in pins : \E a \in assets : a.id = p /\ site[a.opp] # None

\* affiliate_links.py:48, re-running "never orphans click history": a page keeps
\* the link it went out with, as long as no save is taken back.
PageKeepsLink ==
    [][\A o \in Opp : site[o] # None /\ ~undone => site'[o] = site[o]]_vars

=============================================================================
