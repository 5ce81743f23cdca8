--------------------------- MODULE SecureDelivery ---------------------------
(***************************************************************************)
(* The outbound queue with the transport security policy in front of every *)
(* connection: before a host is dialled, Resolve looks for DANE records    *)
(* and then for an MTA-STS policy, which it keeps in the process's memory. *)
(* The destination is one domain whose records, policy file and            *)
(* certificate its owner changes at any time.                              *)
(*                                                                         *)
(* The steps of OutboundQueue are unchanged except that a host is dialled  *)
(* only under a resolved policy, and that a crash empties the cache.       *)
(***************************************************************************)
EXTENDS OutboundQueue, FiniteSetsExt

CONSTANTS
    Sites,          \* the states the destination may be in
    DaneEnabled, MtaStsEnabled,
    AbsentFor,      \* minutes "no policy" is believed (the code: 60)
    DefaultAge,     \* max_age when it is missing or absurd (the code: a day)
    AgeCap,         \* the longest max_age believed (the code: a year)
    MaxMisses,      \* bound: lookups and fetches that fail
    MaxChanges      \* bound: changes of the destination

(***************************************************************************)
(* tlsa: TLSA records, and whether DNSSEC signs them.  sts, mx, age: what  *)
(* the policy file says, "none" when there is no file.  cert: what the     *)
(* hosts present: a certificate the world trusts, one the TLSA records     *)
(* name, or another, or no STARTTLS at all.                                *)
(***************************************************************************)
Site == [tlsa: {"none", "unsigned", "signed"},
         sts: {"none", "testing", "enforce"}, mx: SUBSET Nat, age: Nat,
         cert: {"trusted", "named", "other", "plain"}]

ASSUME SecureAssumption ==
    /\ Sites \subseteq Site
    /\ DaneEnabled \in BOOLEAN /\ MtaStsEnabled \in BOOLEAN
    /\ AbsentFor \in Nat \ {0} /\ DefaultAge \in Nat \ {0}
    /\ AgeCap \in Nat /\ AgeCap >= DefaultAge
    /\ MaxMisses \in Nat /\ MaxChanges \in Nat

VARIABLES
    site,      \* the destination as it is
    cache,     \* the resolver's entry for the domain
    policy,    \* the policy each worker resolved for the host it is at
    misses,    \* failed lookups and fetches so far
    changes,   \* changes of the destination so far
    noticeBy,  \* until when a demand may be unknown here (observation)
    pinnedBy   \* until when a withdrawn one may be kept (observation)

tls == <<site, cache, policy, misses, changes, noticeBy, pinnedBy>>

secureVars == <<vars, tls>>

NoEntry == [holds |-> "nothing", enforce |-> FALSE, mx |-> {}, until |-> 0]

Unresolved == [mode |-> "unresolved", enforce |-> FALSE, mx |-> {}]

SecureInit ==
    /\ Init
    /\ site \in Sites
    /\ cache = NoEntry
    /\ policy = [w \in Workers |-> Unresolved]
    /\ misses = 0 /\ changes = 0 /\ noticeBy = 0 /\ pinnedBy = 0

Misses == misses < MaxMisses /\ misses' = misses + 1

-----------------------------------------------------------------------------
\* Mutant of Cached: an entry is believed for ever.
CachedForever == cache.holds # "nothing"

Cached == cache.holds # "nothing" /\ ~(now > cache.until)

\* Mutant of EffectiveAge: max_age is taken as it is.
PublishedAge(age) == age

(***************************************************************************)
(* parsePolicy: a max_age that is missing or absurd is a day.              *)
(***************************************************************************)
EffectiveAge(age) == IF age = 0 \/ age > AgeCap THEN DefaultAge ELSE age

(***************************************************************************)
(* fetchPolicy and what mtaStsPolicy keeps of it.  A file that cannot be   *)
(* had is a destination without a policy.                                  *)
(***************************************************************************)
Fetched(reached) ==
    IF reached /\ site.sts # "none"
    THEN [holds |-> "policy", enforce |-> site.sts = "enforce",
          mx |-> site.mx, until |-> now + EffectiveAge(site.age)]
    ELSE [NoEntry EXCEPT !.holds = "absent", !.until = now + AbsentFor]

NewDanePolicy == [mode |-> "dane", enforce |-> TRUE, mx |-> {}]

Opportunistic == [mode |-> "opportunistic", enforce |-> FALSE, mx |-> {}]

FromEntry(e) ==
    IF e.holds = "policy"
    THEN [mode |-> "mta-sts", enforce |-> e.enforce, mx |-> e.mx]
    ELSE Opportunistic

AtHost(w) == pc[w] = "smtp" /\ policy[w] = Unresolved

Resolves(w, p) == policy' = [policy EXCEPT ![w] = p]

(***************************************************************************)
(* LookupTLSA fails, or finds records nobody signed: an error, and the     *)
(* host is passed over.                                                    *)
(***************************************************************************)
ResolveFails(w) ==
    /\ AtHost(w) /\ DaneEnabled
    /\ \/ site.tlsa = "unsigned" /\ UNCHANGED misses
       \/ Misses
    /\ HostFails(w, "temporary")
    /\ UNCHANGED <<now, rows, batch, cur, faults, admin, obs>>
    /\ UNCHANGED <<site, cache, policy, changes, noticeBy, pinnedBy>>

Dane == DaneEnabled /\ site.tlsa # "none"

ResolveDane(w) ==
    /\ AtHost(w) /\ Dane /\ site.tlsa = "signed"
    /\ Resolves(w, NewDanePolicy)
    /\ UNCHANGED <<vars, site, cache, misses, changes, noticeBy, pinnedBy>>

ResolveCached(w) ==
    /\ AtHost(w) /\ ~Dane
    /\ MtaStsEnabled => Cached
    /\ Resolves(w, IF MtaStsEnabled THEN FromEntry(cache) ELSE Opportunistic)
    /\ UNCHANGED <<vars, site, cache, misses, changes, noticeBy, pinnedBy>>

ResolveFetched(w) ==
    /\ AtHost(w) /\ ~Dane /\ MtaStsEnabled /\ ~Cached
    /\ \E reached \in BOOLEAN :
         /\ cache' = Fetched(reached)
         /\ Resolves(w, FromEntry(Fetched(reached)))
         /\ \/ reached /\ UNCHANGED <<misses, noticeBy>>
            \/ /\ ~reached /\ Misses
               /\ noticeBy' = Max({noticeBy, now + AbsentFor})
    /\ UNCHANGED <<vars, site, changes, pinnedBy>>

-----------------------------------------------------------------------------
(***************************************************************************)
(* What the connection must show under the policy: tlsConfigFor and the    *)
(* refusals of deliverToMX.                                                *)
(***************************************************************************)
CoversHost(p, h) == p.mode = "mta-sts" => h \in p.mx

MatchesCertificate == site.cert = "named"

Satisfied(p) ==
    CASE p.mode = "dane"    -> MatchesCertificate
      [] p.mode = "mta-sts" -> site.cert = "trusted"

RefuseHost(w) ==
    LET p == policy[w] IN
    /\ pc[w] = "smtp" /\ p # Unresolved
    /\ p.enforce /\ ~(CoversHost(p, hosts[w]) /\ Satisfied(p))
    /\ HostFails(w, "temporary")
    /\ Resolves(w, Unresolved)
    /\ UNCHANGED <<now, rows, batch, cur, faults, admin, obs>>
    /\ UNCHANGED <<site, cache, misses, changes, noticeBy, pinnedBy>>

DeliverToMX(w) ==
    LET p == policy[w] IN
    /\ p # Unresolved
    /\ p.enforce => CoversHost(p, hosts[w]) /\ Satisfied(p)
    /\ TryHost(w)
    /\ Resolves(w, Unresolved)
    /\ UNCHANGED <<site, cache, misses, changes, noticeBy, pinnedBy>>

(***************************************************************************)
(* The process dies with its cache.                                        *)
(***************************************************************************)
CrashSecure(w) ==
    /\ Crash(w)
    /\ cache' = NoEntry
    /\ Resolves(w, Unresolved)
    /\ UNCHANGED <<site, misses, changes, noticeBy, pinnedBy>>

(***************************************************************************)
(* The owner of the destination changes it.  Until the longest of what may *)
(* be in the cache has run out, the old policy may be applied here.        *)
(***************************************************************************)
Kept == CASE site.sts = "none" -> 0
          [] site.sts # "none" /\ site.age = 0 -> DefaultAge
          [] OTHER -> Min({site.age, AgeCap})

ChangeSite ==
    /\ changes < MaxChanges /\ changes' = changes + 1
    /\ \E j \in Jobs : Open(j)
    /\ site' \in Sites \ {site}
    /\ noticeBy' = Max({noticeBy, now + AbsentFor, now + Kept})
    /\ pinnedBy' = IF site.sts = "enforce" THEN Max({pinnedBy, now + Kept})
                                           ELSE pinnedBy
    /\ UNCHANGED <<vars, cache, policy, misses>>

SecureTick == Tick /\ UNCHANGED tls

SecureWorkerStep(w) ==
    \/ pc[w] # "smtp" /\ WorkerStep(w) /\ UNCHANGED tls
    \/ ResolveFails(w) \/ ResolveDane(w) \/ ResolveCached(w)
    \/ ResolveFetched(w) \/ RefuseHost(w) \/ DeliverToMX(w)

SecureNext ==
    \/ \E w \in Workers : SecureWorkerStep(w) \/ CrashSecure(w)
    \/ \E j \in Jobs :
         /\ \/ Enqueue(j) \/ RetryJob(j) \/ CancelJob(j)
            \/ SetMailboxActive(j) \/ DeleteMailbox(j)
         /\ UNCHANGED tls
    \/ ChangeSite
    \/ SecureTick

SecureSpec == SecureInit /\ [][SecureNext]_secureVars

-----------------------------------------------------------------------------
(***************************************************************************)
(* Properties                                                              *)
(***************************************************************************)
Signed == DaneEnabled /\ site.tlsa = "signed"

Demanded == Signed \/ (MtaStsEnabled /\ site.sts = "enforce")

Resolved(w) == policy[w] = Unresolved /\ policy'[w] # Unresolved

\* A host is dialled under an enforcing policy whenever the destination asks
\* for one, except that a policy file may be news: for as long as the answer
\* it replaces was to be believed, or an hour after it could not be had.  For
\* signed TLSA records there is no such delay, whatever the cache holds.
PolicyIsNoticed ==
    [][\A w \in Workers :
          Resolved(w) /\ Demanded =>
              policy'[w].enforce \/ (~Signed /\ now <= noticeBy')]_secureVars

\* A policy the destination has withdrawn is enforced no longer than its
\* max_age told, and never past AgeCap: a file that gives a missing or an
\* absurd age, and retries that keep asking, cannot hold mail back for ever.
PolicyIsNotPinned ==
    [][\A w \in Workers :
          Resolved(w) /\ policy'[w].enforce /\ ~Demanded
              => now <= pinnedBy]_secureVars
=============================================================================
