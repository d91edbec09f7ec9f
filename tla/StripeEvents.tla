----------------------------- MODULE StripeEvents -----------------------------
(***************************************************************************)
(* The events by which Stripe tells of a tenant's subscription, and the    *)
(* row of subscriptions that follows them.                                 *)
(*                                                                         *)
(* Stripe delivers an event again and again until it is answered 200, in   *)
(* any order; a delivery is the claim of the event, the mutation, and      *)
(* completion or release, one statement each. Several may be in flight, of *)
(* one event too. Most tenants buy one subscription; a second one can be   *)
(* bought while the first event of the first is on its way. The customer,  *)
(* periods and prices are left out, as is the checkout.                    *)
(***************************************************************************)
EXTENDS Integers, Sequences, FiniteSets

CONSTANTS
  Handlers,   \* deliveries that may be in flight at once
  Subs,       \* Stripe's subscriptions of the tenant
  Plans,
  NoSub, NoPlan,
  MaxEvents,  \* bound on events
  MaxFaults   \* bound on faults

ASSUME StripeAssumption ==
  /\ NoSub \notin Subs /\ NoPlan \notin Plans
  /\ MaxEvents \in Nat /\ MaxFaults \in Nat

VARIABLES
  row,       \* subscriptions
  bought,    \* what Stripe has of each subscription
  events,    \* the events Stripe made, oldest first; two may have the same second
  claim,     \* stripe_events; "old" is a claim of more than five minutes
  delivery,  \* the deliveries
  acked,     \* events that Stripe got a 200 for
  swallowed, \* history: events of which a delivery was answered 200 because another
             \* one was in flight, or had died
  known,     \* history: the time of the newest subscription event that was applied
  overtaken, \* history: subscription events newer than that, dropped as stale
  faults     \* how often something failed so far

stripeVars == <<row, bought, events, claim, delivery, acked, swallowed, known, overtaken, faults>>
stripe == <<bought, events>>
webhook == <<row, claim, delivery, acked, swallowed, known, overtaken>>

Ids == 1..MaxEvents
Statuses == {"active", "past_due", "canceled"}
Event == [kind : {"subscription", "invoice"}, sub : Subs, plan : Plans \cup {NoPlan},
          status : Statuses, at : Nat]
NoRow == [sub |-> NoSub, plan |-> NoPlan, status |-> "none", at |-> 0]
NoDelivery == [at |-> "idle", event |-> 0]

Fault == faults < MaxFaults /\ faults' = faults + 1

StripeInit ==
  /\ row = NoRow
  /\ bought = [k \in Subs |-> [plan |-> NoPlan, status |-> "none"]]
  /\ events = <<>>
  /\ claim = [i \in Ids |-> "none"] /\ delivery = [h \in Handlers |-> NoDelivery] /\ acked = {}
  /\ swallowed = {} /\ known = 0 /\ overtaken = {} /\ faults = 0

------------------------------------------------------------------------------
(* Stripe.                                                                 *)

Now == IF events = <<>> THEN 0 ELSE events[Len(events)].at

\* New events, at this second or the next; the first one at second 1.
Emit(new) ==
  /\ Len(events) + Len(new) <= MaxEvents
  /\ \E at \in {Now, Now + 1} \ {0} :
       events' = events \o [i \in 1..Len(new) |-> [new[i] EXCEPT !.at = at]]

Subscription(k, plan, status) ==
  [kind |-> "subscription", sub |-> k, plan |-> plan, status |-> status, at |-> 0]
Invoice(k, status) ==
  [kind |-> "invoice", sub |-> k, plan |-> NoPlan, status |-> status, at |-> 0]

\* A Checkout Session is paid, which can be made while the tenant has no subscription.
Buy(k, plan) ==
  /\ row.sub = NoSub /\ bought[k].status = "none"
  /\ bought' = [bought EXCEPT ![k] = [plan |-> plan, status |-> "active"]]
  /\ Emit(<<Subscription(k, plan, "active")>>)
  /\ UNCHANGED <<webhook, faults>>

\* The portal: a change of plan or a cancellation.
Change(k, new) ==
  /\ bought[k].status \in {"active", "past_due"}
  /\ new \in {[bought[k] EXCEPT !.plan = plan] : plan \in Plans \ {bought[k].plan}}
            \cup {[bought[k] EXCEPT !.status = "canceled"]}
  /\ bought' = [bought EXCEPT ![k] = new]
  /\ Emit(<<Subscription(k, new.plan, new.status)>>)
  /\ UNCHANGED <<webhook, faults>>

\* A payment succeeds or fails, with an event of the subscription if its status changes.
\* A canceled one may have invoices that are still open.
Bill(k, status) ==
  /\ bought[k].status # "none"
  /\ IF bought[k].status \in {status, "canceled"}
     THEN Emit(<<Invoice(k, status)>>) /\ UNCHANGED bought
     ELSE /\ Emit(<<Subscription(k, bought[k].plan, status), Invoice(k, status)>>)
          /\ bought' = [bought EXCEPT ![k].status = status]
  /\ UNCHANGED <<webhook, faults>>

------------------------------------------------------------------------------
(* stripe_webhook_inner.                                                   *)

Claimable(i) == claim[i] \in {"none", "released", "old"}
Answer(h) == delivery' = [delivery EXCEPT ![h] = NoDelivery]
Of(h) == events[delivery[h].event]
Go(h, at) == delivery' = [delivery EXCEPT ![h].at = at]

\* An event that is not claimed yet, was released, or was claimed long ago is claimed,
Claim(h, i) ==
  /\ delivery[h] = NoDelivery /\ i \in DOMAIN events \ acked /\ Claimable(i)
  /\ claim' = [claim EXCEPT ![i] = "processing"]
  /\ delivery' = [delivery EXCEPT ![h] = [at |-> "apply", event |-> i]]
  /\ UNCHANGED <<stripe, row, acked, swallowed, known, overtaken, faults>>

\* any other answered 200.
AnswerDuplicate(i) ==
  /\ i \in DOMAIN events \ acked /\ ~Claimable(i)
  /\ acked' = acked \cup {i}
  /\ swallowed' = IF claim[i] = "done" THEN swallowed ELSE swallowed \cup {i}
  /\ UNCHANGED <<stripe, row, claim, delivery, known, overtaken, faults>>

\* Mutant: the time of what the row reflects is not looked at.
ApplyAnyway(h) ==
  /\ delivery[h].at = "apply" /\ Of(h).kind = "subscription"
  /\ row' = [sub |-> Of(h).sub, plan |-> Of(h).plan, status |-> Of(h).status, at |-> Of(h).at]
  /\ known' = Of(h).at
  /\ Go(h, "complete")
  /\ UNCHANGED <<stripe, claim, acked, swallowed, overtaken, faults>>

\* Events of the subscription replace the row unless it reflects a newer event;
ApplySubscription(h) ==
  /\ delivery[h].at = "apply" /\ Of(h).kind = "subscription"
  /\ IF row.at <= Of(h).at
     THEN /\ row' = [sub |-> Of(h).sub, plan |-> Of(h).plan, status |-> Of(h).status,
                     at |-> Of(h).at]
          /\ known' = Of(h).at
          /\ UNCHANGED overtaken
     ELSE /\ overtaken' = IF Of(h).at > known THEN overtaken \cup {delivery[h].event}
                          ELSE overtaken
          /\ UNCHANGED <<row, known>>
  /\ Go(h, "complete")
  /\ UNCHANGED <<stripe, claim, acked, swallowed, faults>>

\* those of invoices set its status, if it is that of the subscription they are for,
ApplyInvoice(h) ==
  /\ delivery[h].at = "apply" /\ Of(h).kind = "invoice" /\ row # NoRow
  /\ row' = IF row.sub = Of(h).sub /\ row.at <= Of(h).at
            THEN [row EXCEPT !.status = Of(h).status, !.at = Of(h).at] ELSE row
  /\ Go(h, "complete")
  /\ UNCHANGED <<stripe, claim, acked, swallowed, known, overtaken, faults>>

\* and fail where there is none yet.
ApplyFails(h) ==
  /\ delivery[h].at = "apply"
  /\ \/ Of(h).kind = "invoice" /\ row = NoRow /\ UNCHANGED faults
     \/ Fault
  /\ Go(h, "release")
  /\ UNCHANGED <<stripe, row, claim, acked, swallowed, known, overtaken>>

\* What succeeded is complete, and answered 200;
Complete(h) ==
  /\ delivery[h].at = "complete"
  /\ claim' = [claim EXCEPT ![delivery[h].event] = "done"]
  /\ acked' = acked \cup {delivery[h].event}
  /\ Answer(h)
  /\ UNCHANGED <<stripe, row, swallowed, known, overtaken, faults>>

\* Mutant: a claim is released that another delivery has completed.
ReleaseAnyway(h) ==
  /\ delivery[h].at = "release"
  /\ claim' = [claim EXCEPT ![delivery[h].event] = "released"]
  /\ Answer(h)
  /\ UNCHANGED <<stripe, row, acked, swallowed, known, overtaken, faults>>

\* what failed is released, and answered 500.
Release(h) ==
  /\ delivery[h].at = "release"
  /\ claim' = [claim EXCEPT ![delivery[h].event] = IF @ = "done" THEN @ ELSE "released"]
  /\ Answer(h)
  /\ UNCHANGED <<stripe, row, acked, swallowed, known, overtaken, faults>>

\* A delivery dies, or cannot complete or release its claim.
Die(h) ==
  /\ delivery[h] # NoDelivery /\ Fault
  /\ Answer(h)
  /\ UNCHANGED <<stripe, row, claim, acked, swallowed, known, overtaken>>

\* The answer of a delivery that completed is lost.
AnswerLost(h) ==
  /\ delivery[h].at = "complete" /\ Fault
  /\ claim' = [claim EXCEPT ![delivery[h].event] = "done"]
  /\ Answer(h)
  /\ UNCHANGED <<stripe, row, acked, swallowed, known, overtaken>>

\* Five minutes pass.
Age(i) ==
  /\ claim[i] = "processing"
  /\ claim' = [claim EXCEPT ![i] = "old"]
  /\ UNCHANGED <<stripe, row, delivery, acked, swallowed, known, overtaken, faults>>

------------------------------------------------------------------------------
Stripe ==
  \E k \in Subs :
    \/ \E plan \in Plans : Buy(k, plan)
    \/ \E new \in [plan : Plans, status : Statuses] : Change(k, new)
    \/ \E status \in {"active", "past_due"} : Bill(k, status)

Webhook(h) ==
  \/ \E i \in Ids : Claim(h, i)
  \/ ApplySubscription(h) \/ ApplyInvoice(h) \/ ApplyFails(h)
  \/ Complete(h) \/ Release(h) \/ Die(h) \/ AnswerLost(h)

StripeNext ==
  \/ Stripe
  \/ \E h \in Handlers : Webhook(h)
  \/ \E i \in Ids : AnswerDuplicate(i) \/ Age(i)

StripeSpec == StripeInit /\ [][StripeNext]_stripeVars

------------------------------------------------------------------------------
(* Properties.                                                             *)

StripeTypeOK ==
  /\ row \in [sub : Subs \cup {NoSub}, plan : Plans \cup {NoPlan},
              status : Statuses \cup {"none"}, at : Nat]
  /\ bought \in [Subs -> [plan : Plans \cup {NoPlan}, status : Statuses \cup {"none"}]]
  /\ events \in Seq(Event)
  /\ Len(events) <= MaxEvents
  /\ claim \in [Ids -> {"none", "processing", "old", "released", "done"}]
  /\ delivery \in [Handlers -> [at : {"idle", "apply", "complete", "release"},
                                event : 0..MaxEvents]]
  /\ acked \subseteq Ids /\ swallowed \subseteq Ids /\ overtaken \subseteq Ids
  /\ known \in Nat /\ faults \in 0..MaxFaults

\* An event that Stripe will not send again is processed, unless a delivery of it was
\* answered 200 while another one had it, which then failed or died: a claim that was
\* released or abandoned is not taken for one that is complete, and a slow delivery that
\* fails does not undo what another one completed.
AckedIsProcessed == \A i \in acked : claim[i] = "done" \/ i \in swallowed

Told == {i \in DOMAIN events : events[i].kind = "subscription"}

\* Events of one second that do not say the same may be applied in either order.
Ties ==
  \E i, j \in DOMAIN events :
    /\ events[i].at = events[j].at
    /\ \/ events[i].sub # events[j].sub \/ events[i].status # events[j].status
       \/ i \in Told /\ j \in Told /\ events[i].plan # events[j].plan

\* Once all events are processed, in whatever order and however often, the row has the
\* subscription that the newest event tells of, with its plan and status, unless an
\* invoice overtook that event or two events of one second differ; but a canceled
\* subscription of which an invoice is paid or fails later has the status of that.
RowFollowsStripe ==
  (\A i \in DOMAIN events : claim[i] = "done") /\ overtaken = {} /\ ~Ties =>
    \/ Told = {}
    \/ /\ \E i \in Told : /\ row.sub = events[i].sub
                          /\ \A j \in Told : events[j].at <= events[i].at
       /\ row.plan = bought[row.sub].plan
       /\ \/ row.status = bought[row.sub].status
          \/ /\ bought[row.sub].status = "canceled"
             /\ \E i \in DOMAIN events \ Told :
                  /\ events[i].sub = row.sub /\ events[i].status = row.status
                  /\ \A j \in Told : events[j].sub = row.sub => events[j].at < events[i].at

===============================================================================
