---------------------------- MODULE Collaboration ----------------------------
(***************************************************************************)
(* The collaboration commands of a checkout.  They share one state file    *)
(* (.snipara/collaboration/state.json): the work session, the sessions of  *)
(* workflows, the leases believed active and the review acknowledgements.  *)
(* A command loads the file, awaits the hosted service, and saves what it  *)
(* made of the copy it loaded, whole.  `watch` loads it once and saves its *)
(* copy at every tick.                                                     *)
(* The hosted service is modelled from its use: it keeps leases until they *)
(* expire or are released, and a heartbeat renews one.                     *)
(***************************************************************************)
EXTENDS Naturals, FiniteSets

CONSTANTS
  Callers,        \* processes that run one command at a time
  Plans,          \* workflows that claim resources
  ResourceOf,     \* the resource a workflow works on
  Resources,
  WatchTargets,   \* sets of resources the watch may find in the working tree
  Scopes,         \* guard profile and action
  Findings,       \* fingerprints of findings that are only to be reviewed
  NothingToReview, \* any other evaluation: clear, or a hard block
  AckLife,        \* REVIEW_ONLY_ACK_TTL_MS
  PlanLeaseLife,  \* DEFAULT_WORKFLOW_CLAIM_TTL_SECONDS
  WatchLeaseLife, \* DEFAULT_WATCH_HEARTBEAT_TTL_SECONDS
  CollabHorizon,  \* bound: the clock stops here
  CollabBudget,   \* bound: commands started
  Alphabets       \* bound: the kinds of commands one behaviour mixes, and whether two overlap

ASSUME CollaborationShape ==
  /\ ResourceOf \in [Plans -> Resources]
  /\ WatchTargets \subseteq SUBSET Resources
  /\ AckLife \in Nat
  \* The watch ticks more often than any lease expires.
  /\ PlanLeaseLife \in Nat \ {0, 1} /\ WatchLeaseLife \in Nat \ {0, 1}

VARIABLES
  shared,   \* the state file
  caller,   \* what each process is doing, and the copy it holds
  watch,    \* the watch loop
  hosted,   \* leases of the hosted service
  now,
  log       \* auxiliary: what was acknowledged and used, what went wrong

collabVars == <<shared, caller, watch, hosted, now, log>>

\* Session ids: one the hosted service gave to a plan or to the checkout, and
\* the one a plan makes up for itself.
PlanSession(p)  == <<p, "hosted">>
LocalSession(p) == <<p, "local">>
CheckoutSession == <<"checkout">>
NoSession       == << >>
SessionIds == {CheckoutSession} \cup (Plans \X {"hosted", "local"})

\* id 0 stands for `local:<session>:<resource>`.
Lease == [id : Nat, resource : Resources, session : SessionIds,
          life : {PlanLeaseLife, WatchLeaseLife}, claimed : Nat, expires : Nat]

Ack == [n : Nat, scope : Scopes, finding : Findings, expires : Nat]

Free == [pc |-> "free"]

CollabInit ==
  /\ shared = [session |-> NoSession, sessions |-> {}, leases |-> {}, acks |-> {}]
  /\ caller = [c \in Callers |-> Free]
  /\ watch = [on |-> FALSE]
  /\ hosted = {}
  /\ now = 0
  /\ \E mix \in Alphabets :
     log = [mix |-> mix, commands |-> 0, ids |-> 0, given |-> {}, used |-> {}, reused |-> FALSE,
               overlap |-> FALSE, lost |-> FALSE]

-----------------------------------------------------------------------------
(* The state in memory. *)

\* What loading and saving drop; a lease keeps its record, but nothing reads
\* one that is not active.
Unexpired(s) ==
  [s EXCEPT !.leases = {l \in @ : l.expires > now}, !.acks = {a \in @ : a.expires > now}]

\* Mutant: the session made up for the workflow, although it may have one.
MadeUpSession(s, p) == LocalSession(p)

\* Mutant: the work session, although the checkout may have none.
AnySession(s, p) == s.session

SessionOf(s, p) == IF p \in s.sessions THEN PlanSession(p) ELSE LocalSession(p)

\* A call of the service claims some resources under one fresh number; id 0 is
\* a lease the file makes up because there was no service to ask.
Claims(rs, id, session, life) ==
  [id : {id}, resource : rs, session : {session}, life : {life}, claimed : {now},
   expires : {now + life}]

\* A merge replaces the record of the same id.
Merged(ls, new) ==
  new \cup {l \in ls : \A n \in new : l.id # n.id \/ l.resource # n.resource \/ l.session # n.session}

\* The same lease, whatever its expiry says.
Same(ls) == {k \in hosted : \E l \in ls : l.id = k.id /\ l.resource = k.resource}

Busy(c) == {d \in Callers \ {c} : caller[d].pc # "free"} # {} \/ watch.on

Call(c, from, to) == caller[c].pc = from /\ caller' = [caller EXCEPT ![c] = to]

Loaded == Unexpired(shared)

\* A command loads the file; from here on it works on that copy.
Load(c, command) ==
  /\ log.commands < CollabBudget /\ command.kind \in log.mix.kinds
  /\ log.mix.overlap \/ \A d \in Callers : caller[d].pc = "free"
  /\ Call(c, "free", command)
  /\ log' = [log EXCEPT !.commands = @ + 1, !.overlap = @ \/ Busy(c)]
  /\ UNCHANGED <<shared, watch, hosted, now>>

\* and saves it whole.
Save(s) == shared' = Unexpired(s)

Calling(c, kind) == caller[c].pc = "calling" /\ caller[c].kind = kind

-----------------------------------------------------------------------------
(* guard *)

BeginGuard(c, scope, enforce, ack) ==
  Load(c, [pc |-> "calling", kind |-> "guard", held |-> Loaded,
           scope |-> scope, enforce |-> enforce, ack |-> ack])

OfScope(acks, scope) == {a \in acks : a.scope = scope}

\* Mutant: an acknowledgement of the scope, whatever was found.
AckOfScope(s, scope, finding) == OfScope(s.acks, scope)

\* consumeReviewOnlyAcknowledgement looks for the acknowledgement of this very
\* finding, after it expired the old ones.
AcksFor(s, scope, finding) ==
  {a \in OfScope(Unexpired(s).acks, scope) : a.finding = finding}

\* Mutant: the acknowledgement that was used stays.
NotConsumed(s, a) == s.acks

Consumed(s, a) == s.acks \ {a}

SavesGuard(c, acks) ==
  /\ Save([caller[c].held EXCEPT !.acks = acks])
  /\ caller' = [caller EXCEPT ![c] = Free]
  /\ UNCHANGED <<watch, hosted, now>>

\* --ack-review-only on a finding that is only to be reviewed: it replaces the
\* acknowledgement of the scope.
GuardAcknowledges(c, finding) ==
  LET r == caller[c]
      given == [n |-> Cardinality(log.given) + 1, scope |-> r.scope, finding |-> finding,
                expires |-> now + AckLife]
  IN  /\ Calling(c, "guard") /\ r.enforce /\ r.ack
      /\ SavesGuard(c, (r.held.acks \ OfScope(r.held.acks, r.scope)) \cup {given})
      /\ log' = [log EXCEPT !.given = @ \cup {given}]

\* A saved acknowledgement lets the same finding pass, and is removed.
GuardConsumes(c, finding) ==
  LET r == caller[c]
  IN  /\ Calling(c, "guard") /\ r.enforce /\ ~r.ack
      /\ \E a \in AcksFor(r.held, r.scope, finding) :
           /\ SavesGuard(c, Consumed(r.held, a))
           /\ log' = [log EXCEPT
                !.used = @ \cup {[n |-> a.n, scope |-> r.scope, finding |-> finding, at |-> now]},
                !.reused = @ \/ \E u \in log.used : u.n = a.n]

\* Any other evaluation (nothing found, a hard block, another finding, a guard
\* that does not enforce) drops the acknowledgements of the scope.
GuardInvalidates(c, finding) ==
  LET r == caller[c]
  IN  /\ Calling(c, "guard")
      /\ ~(r.enforce /\ r.ack /\ finding \in Findings)
      /\ ~(r.enforce /\ ~r.ack /\ AcksFor(r.held, r.scope, finding) # {})
      /\ SavesGuard(c, r.held.acks \ OfScope(r.held.acks, r.scope))
      /\ UNCHANGED log

\* Without an answer of the service the guard lets everything pass and saves
\* nothing.
GuardUnanswered(c) ==
  /\ Calling(c, "guard")
  /\ caller' = [caller EXCEPT ![c] = Free]
  /\ UNCHANGED <<shared, watch, hosted, now, log>>

-----------------------------------------------------------------------------
(* start, claim *)

BeginStart(c) == Load(c, [pc |-> "calling", kind |-> "start", held |-> Loaded])

WithSession(s) == IF s.session = NoSession THEN [s EXCEPT !.session = CheckoutSession] ELSE s

\* start: the id of the service, or one the file makes up.
Start(c) ==
  /\ Calling(c, "start")
  /\ Save(WithSession(caller[c].held))
  /\ caller' = [caller EXCEPT ![c] = Free]
  /\ UNCHANGED <<watch, hosted, now, log>>

BeginClaim(c, r) ==
  Load(c, [pc |-> "calling", kind |-> "claim", held |-> Loaded, resource |-> r])

\* claim: a checkout without session starts one, and saves it before it claims.
EnsureWorkSession(c) ==
  /\ Calling(c, "claim") /\ caller[c].held.session = NoSession
  /\ Save(WithSession(caller[c].held))
  /\ caller' = [caller EXCEPT ![c].held = WithSession(@)]
  /\ UNCHANGED <<watch, hosted, now, log>>

\* What a process makes of the answer to its claim: answered, unanswered
\* although the service made the lease, or refused.
Claimed(c, s, ls, fallback, answer) ==
  /\ hosted' = IF answer = "refused" THEN hosted ELSE hosted \cup ls
  /\ caller' = [caller EXCEPT
       ![c].pc = "saving",
       ![c].held = [s EXCEPT !.leases = Merged(@, IF answer = "ok" THEN ls ELSE fallback)]]
  /\ log' = [log EXCEPT !.ids = @ + 1, !.lost = @ \/ answer = "lost"]
  /\ UNCHANGED <<shared, watch, now>>

Replies == {"ok", "lost", "refused"}

Claim(c, answer) ==
  LET r == caller[c]
  IN  /\ Calling(c, "claim") /\ r.held.session # NoSession
      /\ Claimed(c, r.held, Claims({r.resource}, log.ids + 1, r.held.session, PlanLeaseLife),
                 {}, answer)

-----------------------------------------------------------------------------
(* The coordination of a workflow *)

BeginPlan(c, kind, p) ==
  Load(c, [pc |-> "calling", kind |-> kind, held |-> Loaded, plan |-> p])

\* workflow start: the session of the plan, then its claim.  Without the one or
\* the other, a local lease that the service knows nothing of.
StartPlan(c, online, answer) ==
  LET p == caller[c].plan
      h == caller[c].held
      s == [h EXCEPT !.sessions = IF online THEN @ \cup {p} ELSE @,
                     !.session = IF online THEN PlanSession(p) ELSE SessionOf(h, p)]
  IN  /\ Calling(c, "startPlan") /\ (online \/ answer = "refused")
      /\ Claimed(c, s, Claims({ResourceOf[p]}, log.ids + 1, s.session, PlanLeaseLife),
                 Claims({ResourceOf[p]}, 0, s.session, PlanLeaseLife), answer)

BeginRelease(c, kind) == Load(c, [pc |-> "calling", kind |-> kind, held |-> Loaded])

\* The leases a release is about: those of the plan's session, all of them, or
\* one.
Selected(r) ==
  CASE r.kind = "releasePlan" -> {{l \in r.held.leases : l.session = SessionOf(r.held, r.plan)}}
    [] r.kind = "releaseAll"  -> {r.held.leases}
    [] r.kind = "releaseOne"  -> {{l} : l \in r.held.leases}
    [] OTHER                  -> {}

\* release: every lease in parallel, and some of the calls may fail; the file
\* calls them released all the same.
Release(c, reached) ==
  LET r == caller[c]
  IN  /\ r.pc = "calling"
      /\ \E ls \in Selected(r) :
           /\ hosted' = hosted \ (reached \cap Same(ls))
           /\ caller' = [caller EXCEPT ![c].pc = "saving", ![c].held.leases = @ \ ls]
           /\ log' = [log EXCEPT !.lost = @ \/ ~(Same(ls) \subseteq reached)]
      /\ UNCHANGED <<shared, watch, now>>

SaveCommand(c) ==
  /\ Call(c, "saving", Free)
  /\ Save(caller[c].held)
  /\ UNCHANGED <<watch, hosted, now, log>>

\* A process is killed anywhere.
StopCommand(c) ==
  /\ caller[c].pc # "free"
  /\ caller' = [caller EXCEPT ![c] = Free]
  /\ log' = [log EXCEPT !.lost = TRUE]
  /\ UNCHANGED <<shared, watch, hosted, now>>

-----------------------------------------------------------------------------
(* watch *)

StartWatch ==
  /\ ~watch.on /\ log.commands < CollabBudget /\ "watch" \in log.mix.kinds
  /\ watch' = [on |-> TRUE, held |-> Unexpired(shared), target |-> {}, due |-> TRUE,
               calm |-> \A c \in Callers : caller[c].pc = "free"]
  /\ log' = [log EXCEPT !.commands = @ + 1,
                        !.overlap = @ \/ \E c \in Callers : caller[c].pc # "free"]
  /\ UNCHANGED <<shared, caller, hosted, now>>

\* Mutant: a matching lease needs no heartbeat.
NoHeartbeat(ls) == {}

\* The leases a tick renews: those on the resources it found.
Renewed(ls) == Same(ls)

\* A tick: renew the leases on what is being changed now, claim what none of
\* them covers, release the others.  The copy keeps the expiry the leases had
\* when they were claimed.  An outage lasts for the whole tick here.
WatchTick(target, online) ==
  LET h        == WithSession(watch.held)
      matching == {l \in h.leases : l.resource \in target}
      stale    == h.leases \ matching
      missing  == target \ {l.resource : l \in matching}
      claimed  == Claims(missing, log.ids + 1, h.session, WatchLeaseLife)
      s        == IF target = {} THEN h
                  ELSE [h EXCEPT !.leases = matching \cup IF online THEN claimed ELSE {}]
  IN  /\ watch.on /\ watch.due
      /\ hosted' = IF ~online \/ target = {} THEN hosted
                   ELSE {IF l \in Renewed(matching) THEN [l EXCEPT !.expires = now + l.life] ELSE l
                           : l \in hosted \ Same(stale)} \cup claimed
      /\ Save(s)
      /\ watch' = [watch EXCEPT !.held = Unexpired(s), !.target = target, !.due = FALSE,
                                !.calm = @ /\ online /\ (\A l \in h.leases : l.id # 0)
                                           /\ (target = {} => h.leases = {})]
      /\ log' = [log EXCEPT !.ids = IF online /\ missing # {} THEN @ + 1 ELSE @,
                            !.lost = @ \/ (~online /\ Same(stale) # {})]
      /\ UNCHANGED <<caller, now>>

StopWatch ==
  /\ watch.on
  /\ watch' = [on |-> FALSE]
  /\ UNCHANGED <<shared, caller, hosted, now, log>>

\* A unit of time is longer than the pause of the watch, and shorter than the
\* life of what it claims.
CollabTick ==
  /\ now < CollabHorizon
  /\ watch.on => ~watch.due
  /\ now' = now + 1
  /\ hosted' = {l \in hosted : l.expires > now'}
  /\ watch' = IF watch.on THEN [watch EXCEPT !.due = TRUE] ELSE watch
  /\ UNCHANGED <<shared, caller, log>>

Command(c) ==
  \/ \E scope \in Scopes, enforce \in BOOLEAN : \E ack \in {FALSE, enforce} : BeginGuard(c, scope, enforce, ack)
  \/ \E f \in Findings : GuardAcknowledges(c, f) \/ GuardConsumes(c, f)
  \/ \E f \in Findings \cup {NothingToReview} : GuardInvalidates(c, f)
  \/ GuardUnanswered(c)
  \/ BeginStart(c) \/ Start(c)
  \/ \E r \in Resources : BeginClaim(c, r)
  \/ EnsureWorkSession(c)
  \/ \E answer \in Replies : Claim(c, answer)
  \/ \E p \in Plans : BeginPlan(c, "startPlan", p) \/ BeginPlan(c, "releasePlan", p)
  \/ \E online \in BOOLEAN, answer \in Replies : StartPlan(c, online, answer)
  \/ \E kind \in {"releaseAll", "releaseOne"} : BeginRelease(c, kind)
  \/ \E reached \in SUBSET hosted : Release(c, reached)
  \/ SaveCommand(c) \/ StopCommand(c)

CollabNext ==
  \/ \E c \in Callers : Command(c)
  \/ StartWatch
  \/ \E target \in WatchTargets, online \in BOOLEAN : WatchTick(target, online)
  \/ StopWatch
  \/ CollabTick

CollabSpec == CollabInit /\ [][CollabNext]_collabVars

-----------------------------------------------------------------------------
(* Properties *)

StateOK(s) ==
  /\ s.session \in SessionIds \cup {NoSession} /\ s.sessions \subseteq Plans
  /\ s.leases \subseteq Lease /\ s.acks \subseteq Ack

\* The state file and the copies of it hold what the code declares.
CollabTypeOK ==
  /\ StateOK(shared) /\ hosted \subseteq Lease
  /\ \A c \in Callers :
       caller[c].pc # "free" => caller[c].pc \in {"calling", "saving"} /\ StateOK(caller[c].held)
  /\ watch.on => StateOK(watch.held)

\* Whatever runs at the same time and whatever is killed: an enforced guard that
\* lets a finding pass on a saved acknowledgement has been given one for that
\* very profile, action and finding, less than AckLife ago; and it is used once,
\* as long as no other collaboration command (and no watch, whose copy brings a
\* consumed one back) was under way when one began
\* (consumeReviewOnlyAcknowledgement).
OnlyAcknowledgedFindingsPass ==
  /\ \A u \in log.used : \E g \in log.given :
       /\ g.scope = u.scope /\ g.finding = u.finding
       /\ u.at < g.expires /\ g.expires <= u.at + AckLife
  /\ log.reused => log.overlap

\* When the release of a workflow has been saved, the service holds no claim of
\* its session, whatever other workflows, claims and outages came before; only a
\* claim older than its life, which the watch renewed without telling the file,
\* can be left.  (No overlapping command, killed process or lost answer.)
ReleaseEndsClaims ==
  [][\A c \in Callers :
       /\ caller[c].pc = "saving" /\ caller[c].kind = "releasePlan" /\ caller'[c] = Free
       /\ ~log'.lost /\ ~log'.overlap
       => \A l \in hosted' :
            l.session = PlanSession(caller[c].plan) => l.claimed + l.life <= now]_collabVars

\* While the watch runs undisturbed, everything it found changed at its last tick
\* is covered by a lease of the service that has not expired, although the file
\* lets a lease expire that the heartbeats keep alive (runCollaborationWatchTick,
\* expireLocalLeases).  A tick that holds leases and finds nothing changed renews
\* none of them, and one that runs out before the next tick would still be taken
\* for a cover there: such a watch is not calm.
WatchKeepsCovered ==
  watch.on /\ watch.calm /\ ~log.lost /\ ~log.overlap
  => \A r \in watch.target : \E l \in hosted : l.resource = r /\ l.expires > now
=============================================================================
