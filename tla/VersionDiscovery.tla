-------------------------- MODULE VersionDiscovery --------------------------
(***************************************************************************)
(* The search for newer version tags of an image                           *)
(* (docker/updater/version.go, registry.go): the registry's catalog is     *)
(* read page by page, kept for a while and shared by the scans that want   *)
(* it at once; the newest tag that the container's policy allows is shown. *)
(*                                                                         *)
(* One repository; a page of the catalog holds one tag, so the limit on    *)
(* pages is the one on tags as well.  Prerelease identifiers are numeric   *)
(* or not, and ordered within their kind.  Time is a counter.              *)
(***************************************************************************)
EXTENDS Naturals, Integers, Sequences, FiniteSets, FiniteSetsExt, SequencesExt

CONSTANTS
    VersionOrder,     \* the tags, oldest first as semantic versioning has it
    Wants,            \* what containers want: current tag, policy, prereleases
    Scans,            \* scans that may be under way
    MaxTagPages,      \* maxRegistryTagPages
    VersionTTL,       \* how long a catalog is kept
    LookupTimeout,    \* how long a catalog may take to read
    MaxVersionTime,   \* bound: the clock
    MaxVersionSteps   \* bound: scans and published tags

ASSUME VersionAssumption ==
    /\ VersionOrder \in Seq(Range(VersionOrder)) /\ Len(VersionOrder) > 1 /\ 0 \notin Scans
    /\ Wants \subseteq [cur : Range(VersionOrder), policy : {"patch", "minor", "major"}, pre : BOOLEAN]
    /\ {MaxTagPages, LookupTimeout} \subseteq Nat \ {0}
    /\ VersionTTL \in Nat /\ VersionTTL > LookupTimeout
    /\ MaxVersionTime \in Nat \ {0} /\ MaxVersionSteps \in Nat

Tags == Range(VersionOrder)

VARIABLES
    vTags,      \* the registry's catalog
    vCache,     \* the kept catalog: tags, till; till = 0 is none
    vLead,      \* inflight: the scan that reads the catalog, 0 if none
    vScan,      \* the scans
    vNow,
    vSteps

versionVars == <<vTags, vCache, vLead, vScan, vNow, vSteps>>

(* want: current tag, policy and whether prereleases count; got: the pages *)
(* read; use: the catalog it answers from; since: when it began.           *)
NoVersionScan == [at |-> "none", want |-> CHOOSE w \in Wants : TRUE,
           page |-> 0, token |-> FALSE, got |-> <<>>, use |-> <<>>, since |-> 0, read |-> 0]

VersionInit ==
    /\ vTags = <<VersionOrder[Len(VersionOrder) - 1]>> /\ vCache = [tags |-> <<>>, till |-> 0, read |-> 0] /\ vLead = 0
    /\ vScan = [s \in Scans |-> NoVersionScan] /\ vNow = 1 /\ vSteps = 0

VersionStep == vSteps < MaxVersionSteps /\ vSteps' = vSteps + 1
-----------------------------------------------------------------------------
Sign(a, b) == IF a < b THEN -1 ELSE IF a > b THEN 1 ELSE 0

(* comparePrerelease: identifier by identifier, a number below a word, the *)
(* longer of two that agree above the shorter.                             *)
comparePrerelease(a, b) ==
    LET short == IF Len(a) < Len(b) THEN Len(a) ELSE Len(b)
        differ == {i \in 1..short : a[i] # b[i]}
        i == Min(differ)
    IN IF differ = {} THEN Sign(Len(a), Len(b))
       ELSE IF a[i].num = b[i].num THEN Sign(a[i].v, b[i].v)
       ELSE IF a[i].num THEN -1 ELSE 1

(* Mutant of compareSemanticTag: a prerelease is above its release.        *)
PrereleaseAbove(a, b) ==
    LET differ == {i \in 1..3 : a.n[i] # b.n[i]}
    IN IF differ # {} THEN Sign(a.n[Min(differ)], b.n[Min(differ)])
       ELSE comparePrerelease(a.pre, b.pre)

(* compareSemanticTag: the numbers, then a release above its prereleases.  *)
compareSemanticTag(a, b) ==
    LET differ == {i \in 1..3 : a.n[i] # b.n[i]}
    IN IF differ # {} THEN Sign(a.n[Min(differ)], b.n[Min(differ)])
       ELSE IF a.pre = b.pre THEN 0
       ELSE IF a.pre = <<>> THEN 1
       ELSE IF b.pre = <<>> THEN -1
       ELSE comparePrerelease(a.pre, b.pre)

(* versionPolicyAllows: a patch policy holds the minor number only when    *)
(* the current tag has one.                                                *)
versionPolicyAllows(cur, tag, policy) ==
    CASE policy = "patch" -> tag.n[1] = cur.n[1] /\ (cur.precision < 2 \/ tag.n[2] = cur.n[2])
      [] policy = "minor" -> tag.n[1] = cur.n[1]
      [] policy = "major" -> TRUE

(* newestAllowedTag: one pass over the tags; the result is a set of one    *)
(* tag, or empty.                                                          *)
newestAllowedTag(want, tags) ==
    LET newest[n \in 0..Len(tags)] ==
            IF n = 0 THEN {}
            ELSE IF /\ want.pre \/ tags[n].pre = <<>>
                    /\ compareSemanticTag(tags[n], want.cur) > 0
                    /\ versionPolicyAllows(want.cur, tags[n], want.policy)
                    /\ \A b \in newest[n - 1] : compareSemanticTag(tags[n], b) > 0
                 THEN {tags[n]} ELSE newest[n - 1]
    IN newest[Len(tags)]
-----------------------------------------------------------------------------
(* tags: a catalog that is kept and not too old, another scan's reading,   *)
(* or a reading of its own.                                                *)
StartScan(s, want) ==
    /\ VersionStep /\ vScan[s].at = "none"
    /\ LET new == [NoVersionScan EXCEPT !.want = want, !.since = vNow, !.read = vNow]
       IN IF vNow < vCache.till
            THEN /\ vScan' = [vScan EXCEPT ![s] = [new EXCEPT !.at = "answered", !.use = vCache.tags,
                                                              !.read = vCache.read]]
                 /\ UNCHANGED vLead
            ELSE /\ vScan' = [vScan EXCEPT ![s] = [new EXCEPT !.at = IF vLead = 0 THEN "read" ELSE "wait"]]
                 /\ vLead' = IF vLead = 0 THEN s ELSE vLead
    /\ UNCHANGED <<vTags, vCache, vNow>>

(* The reading is over: the catalog is kept if it was read, and everybody  *)
(* who waits has the same catalog or the same error.                       *)
Settle(s, ok, tags) ==
    /\ vLead' = 0
    /\ vCache' = IF ok THEN [tags |-> tags, till |-> vScan[s].since + VersionTTL, read |-> vScan[s].since]
                 ELSE vCache
    /\ vScan' = [r \in Scans |->
                   IF r = s \/ vScan[r].at = "wait"
                     THEN [vScan[r] EXCEPT !.at = IF ok THEN "answered" ELSE "error", !.use = tags,
                                           !.read = vScan[s].since]
                     ELSE vScan[r]]

(* The page the token is for.                                              *)
RetryWithToken(s) == vScan[s].page

(* The first answer may be 401: a token is asked for, once, and the page   *)
(* is asked for again.  A second 401 or a refused token is an error.       *)
anonymousBearerToken(s) ==
    /\ vScan[s].at = "read" /\ ~vScan[s].token
    /\ vScan' = [vScan EXCEPT ![s].token = TRUE, ![s].page = RetryWithToken(s)]
    /\ UNCHANGED <<vTags, vCache, vLead, vNow, vSteps>>

(* One page: its tag if it is new.  The reading ends at the last page or   *)
(* at the limit on pages.                                                  *)
requestRegistryTagsPage(s) ==
    /\ vScan[s].at = "read" /\ vScan[s].page < MaxTagPages /\ vScan[s].page < Len(vTags)
    /\ LET tag == vTags[vScan[s].page + 1]
           got == IF Contains(vScan[s].got, tag) THEN vScan[s].got ELSE Append(vScan[s].got, tag)
       IN vScan' = [vScan EXCEPT ![s].got = got, ![s].page = @ + 1]
    /\ UNCHANGED <<vTags, vCache, vLead, vNow, vSteps>>

registryTagsWithClient(s) ==
    /\ vScan[s].at = "read" /\ (vScan[s].page >= MaxTagPages \/ vScan[s].page >= Len(vTags))
    /\ Settle(s, TRUE, vScan[s].got)
    /\ UNCHANGED <<vTags, vNow, vSteps>>

(* A failed request, an unsafe link, a status, a cancelled leader.         *)
ReadError(s) ==
    /\ vScan[s].at = "read" /\ Settle(s, FALSE, <<>>)
    /\ UNCHANGED <<vTags, vNow, vSteps>>

WaiterLeaves(s) ==
    /\ vScan[s].at = "wait"
    /\ vScan' = [vScan EXCEPT ![s].at = "error"]
    /\ UNCHANGED <<vTags, vCache, vLead, vNow, vSteps>>

PublishTag(tag) ==
    /\ VersionStep /\ ~Contains(vTags, tag)
    /\ vTags' = Append(vTags, tag)
    /\ UNCHANGED <<vCache, vLead, vScan, vNow>>

(* The deadline of a reading ends it (ReadError) before time goes on.      *)
VersionTick ==
    /\ vLead # 0 => vNow - vScan[vLead].since < LookupTimeout
    /\ vNow < MaxVersionTime /\ vNow' = vNow + 1
    /\ UNCHANGED <<vTags, vCache, vLead, vScan, vSteps>>

VersionNext ==
    \/ VersionTick \/ \E t \in Tags : PublishTag(t)
    \/ \E s \in Scans :
         \/ \E want \in Wants : StartScan(s, want)
         \/ anonymousBearerToken(s) \/ requestRegistryTagsPage(s) \/ registryTagsWithClient(s)
         \/ ReadError(s) \/ WaiterLeaves(s)

VersionSpec == VersionInit /\ [][VersionNext]_versionVars
-----------------------------------------------------------------------------
VersionTypeOK ==
    /\ vNow \in 1..MaxVersionTime /\ vSteps \in 0..MaxVersionSteps /\ vLead \in Scans \cup {0}
    /\ \A s \in Scans : vScan[s].at \in {"none", "read", "wait", "answered", "error"}

Age(tag) == CHOOSE i \in DOMAIN VersionOrder : VersionOrder[i] = tag

(* What is shown is the newest of the tags the policy leaves, in the order *)
(* semantic versioning gives them and whatever order the registry lists    *)
(* them in; nothing is shown only if there is none (newestAllowedTag).     *)
NewestShown ==
    \A s \in Scans : vScan[s].at = "answered" =>
        LET want == vScan[s].want
            fit == {t \in Range(vScan[s].use) :
                      /\ Age(t) > Age(want.cur) /\ (want.pre \/ t.pre = <<>>)
                      /\ versionPolicyAllows(want.cur, t, want.policy)}
        IN newestAllowedTag(want, vScan[s].use) =
             {t \in fit : \A u \in fit : Age(u) <= Age(t)}

(* An answer comes from the registry's first pages, without a hole and     *)
(* none of them lost to the token's detour, and the reading it rests on    *)
(* began no longer than the time to live before the scan (tags).           *)
CatalogWhole ==
    \A s \in Scans : vScan[s].at = "answered" =>
        /\ IsPrefix(vScan[s].use, vTags) /\ Len(vScan[s].use) >= 1
        /\ vScan[s].since - vScan[s].read < VersionTTL

VersionsSound == NewestShown /\ CatalogWhole
=============================================================================
