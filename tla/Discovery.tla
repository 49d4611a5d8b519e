------------------------------ MODULE Discovery ------------------------------
(****************************************************************************)
(* Controlled discovery (src/core/discovery.js): each site has a recipe,    *)
(* a settings row with the time of its next run, and at most one run, which *)
(* reads robots.txt, then the sitemap, then the pages of its frontier, and  *)
(* leaves candidate products for the Review Queue.                          *)
(*                                                                          *)
(* A run awaits the network once per frontier item, so the user, the tick   *)
(* of the service and the runs of other sites interleave with it.           *)
(*                                                                          *)
(* Abstractions.  What a site answers (robots rules, links, whether a page  *)
(* is a product) is any subset of the site's pages; URL scores, depth and   *)
(* the "same site" test only cut that subset.  The page, byte and time      *)
(* budgets may be used up before any request but the first.  Robots.txt     *)
(* has the highest priority, then the sitemaps, then the seed page, then    *)
(* what was found.  Of a run only what it still needs is kept: the frontier *)
(* is dropped when it ends, and its status is running or not.  The number   *)
(* and the terms of a recipe are left out, and discovery_settings.enabled,  *)
(* which no page of the program turns off.                                  *)
(****************************************************************************)
EXTENDS Naturals, FiniteSets

CONSTANTS
    Sites,          \* sites: one row per registrable domain
    Pages,          \* canonical addresses of pages
    SiteOf,         \* the site of a page
    DueLimit,       \* sites one tick may explore (LIMIT 3 in the code)
    None            \* no page

ASSUME SiteOfAssumption == SiteOf \in [Pages -> Sites]
ASSUME DueLimitAssumption == DueLimit \in Nat
ASSUME NoneAssumption == None \notin Pages

VARIABLES
    network,        \* network control: may the program use the network
    seeds,          \* seed_urls by page: [on, use, key]
    settings,       \* discovery_settings: sites that have a row
    due,            \* sites whose next_run_at has come
    recipe,         \* site_recipes.status by site
    rows,           \* discovery_runs: sites with a row that says running
    runner,         \* who runs a live run of the site: "none", "tick", "user"
    stage,          \* what the live run does next
    disallowed,     \* pages robots.txt forbade to a live run
    frontier,       \* crawl_frontier of the live runs, by page
    found,          \* runs that have found a candidate
    candidate,      \* product_candidates.status by page
    dueList,        \* what is left of the list this tick's scheduler read
    ticking,        \* the service is in the discovery part of a tick
    late,           \* history: recipes found wanting since that list was read
    faults          \* counts deaths and writes that threw

webVars == <<disallowed, frontier, found>>
runVars == <<rows, runner, stage>>
tickVars == <<dueList, ticking, late>>
planVars == <<settings, due, recipe>>
discoveryVars == <<network, seeds, planVars, runVars, webVars, candidate, tickVars, faults>>

RecipeStatus == {"none", "suggested", "active", "needs_review"}
FrontierStatus == {"none", "seed", "pending", "visited", "skipped"}
CandidateStatus == {"none", "pending", "approved", "excluded", "deferred"}

PagesOf(s) == {p \in Pages : SiteOf[p] = s}
NoSeed == [on |-> FALSE, use |-> "none", key |-> None]

(****************************************************************************)
(* The entry point of a run: a discovery seed before a monitor seed.        *)
(****************************************************************************)
EnabledSeeds(s) == {p \in PagesOf(s) : seeds[p].on}
SeedChoice(s) ==
    LET preferred == {p \in EnabledSeeds(s) : seeds[p].use = "discovery"}
    IN  IF preferred # {} THEN preferred ELSE EnabledSeeds(s)

\* ensureDiscoverySettings without a patch: a new row is due at once.
EnsureSettings(s) ==
    /\ settings' = settings \cup {s}
    /\ due' = IF s \in settings THEN due ELSE due \cup {s}

(****************************************************************************)
(* runSiteDiscovery up to its first await.  It refuses a site that has a    *)
(* running row and one that has no enabled seed, before it changes anything *)
(****************************************************************************)
Startable(s) == s \notin rows /\ SeedChoice(s) # {}

StartRun(s, who) ==
    /\ Startable(s)
    /\ EnsureSettings(s)
    /\ \E p \in SeedChoice(s) : frontier' = [frontier EXCEPT ![p] = "seed"]
    /\ rows' = rows \cup {s}
    /\ runner' = [runner EXCEPT ![s] = who]
    /\ stage' = [stage EXCEPT ![s] = "robots"]
    /\ UNCHANGED <<network, seeds, recipe, disallowed, found, candidate, faults>>

\* The settings, the row and the first items of its frontier are written outside the
\* try: when one of these writes throws, the ones before it stay and nothing runs.
StartFails(s) ==
    /\ Startable(s)
    /\ EnsureSettings(s)
    /\ rows' \in {rows, rows \cup {s}}
    /\ faults' = faults + 1
    /\ UNCHANGED <<network, seeds, recipe, runner, stage, webVars, candidate>>

(****************************************************************************)
(* The end of a run: the recipe is judged by the candidates of the run, the *)
(* row stops saying running and the site gets its next time.                *)
(****************************************************************************)
Live(s) == runner[s] # "none"

Forget(sites) ==
    /\ runner' = [s \in Sites |-> IF s \in sites THEN "none" ELSE runner[s]]
    /\ stage' = [s \in Sites |-> IF s \in sites THEN "none" ELSE stage[s]]
    /\ disallowed' = [s \in Sites |-> IF s \in sites THEN {} ELSE disallowed[s]]
    /\ frontier' = [p \in Pages |-> IF SiteOf[p] \in sites THEN "none" ELSE frontier[p]]
    /\ found' = found \ sites

Judge(s, good) ==
    /\ recipe' = [recipe EXCEPT ![s] = IF good THEN "active" ELSE "needs_review"]
    /\ late' = IF good THEN late ELSE late \cup {s}

FinishRun(s, good) ==
    /\ Judge(s, good)
    /\ rows' = rows \ {s}
    /\ due' = due \ {s}
    /\ Forget({s})
    /\ UNCHANGED <<network, seeds, settings, candidate, dueList, ticking, faults>>

\* A write of the catch or of the finally throws as well: the run is over, and what
\* was to be written after it is not.  The row is not finished before the recipe is
\* judged.
RunBreaksOff(s) ==
    /\ Live(s)
    /\ \/ UNCHANGED <<recipe, late, rows>>
       \/ \E good \in {FALSE, (s \in found)} : Judge(s, good) /\ rows' \in {rows, rows \ {s}}
    /\ due' \in {due, due \ {s}}
    /\ rows' = rows \/ due' = due
    /\ Forget({s})
    /\ faults' = faults + 1
    /\ UNCHANGED <<network, seeds, settings, candidate, dueList, ticking>>

(****************************************************************************)
(* Robots and sitemap.  A robots.txt that cannot be read leaves every page  *)
(* allowed; a sitemap that cannot be read lists nothing.  Nothing but the   *)
(* run itself looks at its rules and frontier, so both are one step.        *)
(****************************************************************************)
Allowed(s) == PagesOf(s) \ disallowed[s]

Enqueue(pages) ==
    [q \in Pages |-> IF q \in pages /\ frontier[q] = "none" THEN "pending" ELSE frontier[q]]

\* What the sitemaps and the pages of the site may lead a run to: allowed pages
\* whose address or link text hints at a product or a category.
Links(s) == SUBSET Allowed(s)

ReadRobots(s) == \E rules \in SUBSET PagesOf(s) : disallowed' = [disallowed EXCEPT ![s] = rules]

ReadRobotsAndSitemap(s) ==
    /\ stage[s] = "robots"
    /\ ReadRobots(s)
    /\ \E listed \in Links(s)' : frontier' = Enqueue(listed)
    /\ stage' = [stage EXCEPT ![s] = "pages"]
    /\ UNCHANGED <<network, seeds, planVars, rows, runner, found, candidate, tickVars, faults>>

(****************************************************************************)
(* The pages of the frontier: the seed first, then any of the others.  A    *)
(* page that cannot be fetched is visited without links or candidate.       *)
(****************************************************************************)
Waiting(s) == {p \in PagesOf(s) : frontier[p] \in {"seed", "pending"}}
IsNext(p) ==
    /\ stage[SiteOf[p]] = "pages"
    /\ p \in Waiting(SiteOf[p])
    /\ frontier[p] = "pending" => \A q \in Waiting(SiteOf[p]) : frontier[q] # "seed"

Skips(p) == p \in disallowed[SiteOf[p]]

SkipPage(p) ==
    /\ IsNext(p) /\ Skips(p)
    /\ frontier' = [frontier EXCEPT ![p] = "skipped"]
    /\ UNCHANGED <<network, seeds, planVars, runVars, disallowed, found, candidate,
                   tickVars, faults>>

\* saveCandidate: a new candidate waits for review (as pending, or as excluded by
\* its classification); one that is known keeps the status the user gave it.
SaveCandidate(p) ==
    candidate' = IF candidate[p] = "none" THEN [candidate EXCEPT ![p] = "pending"] ELSE candidate

\* The page may have redirected to another page of the site.
VisitPage(p) ==
    LET s == SiteOf[p] IN
    /\ IsNext(p) /\ ~Skips(p)
    /\ \/ UNCHANGED <<found, candidate>>
       \/ \E at \in PagesOf(s) : SaveCandidate(at) /\ found' = found \cup {s}
    /\ \E links \in Links(s) :
        frontier' = [Enqueue(links) EXCEPT ![p] = "visited"]
    /\ UNCHANGED <<network, seeds, planVars, runVars, disallowed, tickVars, faults>>

\* The loop ends when the frontier is empty, a budget is used up, an active
\* recipe has found nothing in ten pages, or the site refuses an item (HTTP 401,
\* 403, 429, a CAPTCHA): one of these can happen at every stage.
EndRun(s) ==
    /\ Live(s)
    /\ FinishRun(s, s \in found)

\* An exception outside the fetch of an item, whose handler gets its writes through.
AbortRun(s) ==
    /\ Live(s)
    /\ FinishRun(s, FALSE)

RunStep ==
    \/ \E s \in Sites : ReadRobotsAndSitemap(s) \/ EndRun(s) \/ AbortRun(s)
    \/ \E p \in Pages : SkipPage(p) \/ VisitPage(p)

(****************************************************************************)
(* The scheduler part of a tick (runDiscoveryScheduler, runDueDiscoveries): *)
(* it reads the due sites once, then runs them one after the other.  A site *)
(* that refuses to start stays due.                                         *)
(****************************************************************************)
\* Mutated form of DueSites: the status of the recipe is not asked for.
DueSitesOfAnyRecipe == settings \cap due

DueSites == {s \in settings \cap due : recipe[s] # "needs_review"}

ListDue ==
    /\ dueList' \in {list \in SUBSET DueSites :
                       Cardinality(list) = DueLimit \/ list = DueSites}
    /\ Cardinality(dueList') <= DueLimit
    /\ ticking' = TRUE
    /\ late' = {}

NoTickRun == \A s \in Sites : runner[s] # "tick"

RunNextDue(s) ==
    /\ ticking /\ NoTickRun /\ s \in dueList
    /\ StartRun(s, "tick")
    /\ dueList' = dueList \ {s}
    /\ UNCHANGED <<ticking, late>>

PassOver(s) ==
    /\ ticking /\ NoTickRun /\ s \in dueList /\ ~Startable(s)
    /\ dueList' = dueList \ {s}
    /\ UNCHANGED <<network, seeds, planVars, runVars, webVars, candidate, ticking, late, faults>>

DueStartFails(s) ==
    /\ ticking /\ NoTickRun /\ s \in dueList
    /\ StartFails(s)
    /\ dueList' = dueList \ {s}
    /\ UNCHANGED <<ticking, late>>

EndTick ==
    /\ ticking /\ NoTickRun /\ dueList = {}
    /\ ticking' = FALSE
    /\ late' = {}
    /\ UNCHANGED <<network, seeds, planVars, runVars, webVars, candidate, dueList, faults>>

DiscoveryFault == \E s \in Sites : RunBreaksOff(s) \/ DueStartFails(s)

Scheduler == EndTick \/ \E s \in Sites : RunNextDue(s) \/ PassOver(s)

TimePasses(s) ==
    /\ s \in settings \ due
    /\ due' = due \cup {s}
    /\ UNCHANGED <<network, seeds, settings, recipe, runVars, webVars, candidate, tickVars, faults>>

(****************************************************************************)
(* The user explores a site by hand, or gives it budgets and recipe hints.  *)
(****************************************************************************)
ExploreNow(s) ==
    /\ network
    /\ StartRun(s, "user") \/ StartFails(s)
    /\ UNCHANGED tickVars

Configure(s) ==
    /\ EnsureSettings(s)
    /\ recipe' = [recipe EXCEPT ![s] = "suggested"]
    /\ UNCHANGED <<network, seeds, runVars, webVars, candidate, tickVars, faults>>

(****************************************************************************)
(* The service dies, and its next start settles the rows it left.           *)
(****************************************************************************)
LoseRuns ==
    /\ Forget(Sites)
    /\ dueList' = {} /\ ticking' = FALSE /\ late' = {}
    /\ faults' = faults + 1
    /\ UNCHANGED <<network, seeds, planVars, rows, candidate>>

\* Mutated form of RecoverRuns: the rows of dead runs are left as they are.
RecoverNothing == UNCHANGED rows

RecoverRuns == rows' = {}
=============================================================================
