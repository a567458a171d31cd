------------------------------- MODULE HostData -------------------------------
(***************************************************************************)
(* Checks of the pure parts of the host, QuotaData and HostMessages, over  *)
(* bounded inputs. A behaviour is a sequence of calls: `call` is Idle, or  *)
(* one call with its input and what it yields, and the invariants compare  *)
(* the two with a reference, or the host's side with the phone's.          *)
(***************************************************************************)
EXTENDS QuotaData, HostMessages

CONSTANTS
  Times,        \* seconds at which something is fetched, collected, or ends
  Limits,       \* usage answers and session limits, as two windows or none
  CardBodies,   \* inventory answers
  Sources,      \* what a collect may find
  Logs,         \* session logs
  Lengths,      \* lengths of files, sizes of bodies
  Hellos,       \* greetings
  Addresses,    \* sets of addresses the computer may have
  Draws,        \* [range, most] of the random codes
  Titles,       \* titles, as words
  Policies, Contexts,
  HookNames,    \* the names an event of hooks.json may have
  Handlers,     \* the handlers a group may hold: "own" is the host's
  HookFiles,    \* values of "hooks" in hooks.json
  Links         \* the plugin's pairing links

(* A field of an answer may be missing or of another type. Times are       *)
(* seconds since 1970.                                                     *)
Optional(S)  == S \cup {None}
WindowValues == [length : Optional(Nat), used : Optional(Int), resetsAt : Optional(Int)]
UsageBodies  == [primary : Optional(WindowValues), secondary : Optional(WindowValues)]
ResetCredits == [available : BOOLEAN, id : Nat, title : Optional(Nat),
                 granted : Optional(Nat), expires : Optional(Nat)]
Inventories  == [count : Optional(Nat), credits : Optional(Seq(ResetCredits))]
SessionLogs  == Seq([modified : Nat, lines : Seq([at : Optional(Nat), limits : UsageBodies])])

(* What becomes of them: values, and None is none of them.                 *)
Windows    == [id : {"primary", "secondary"} \X Nat,
               name : {"five_hour", "weekly", "custom"}, minutes : Nat,
               remaining : Optional(Nat), resetsAt : Nat, status : {"current", "pending_sync"}]
ReadLimits == [at : Nat, limits : UsageBodies]

(* What a refresh may have left in the direct files and Chromium in its    *)
(* cache.                                                                  *)
IsSources(s) ==
  /\ s.usage = None \/ \E limits \in Limits, now \in Times :
       s.usage = [at |-> now, windows |-> WindowsOf(limits, NormalizeWindow, now)]
  /\ s.reset \in Optional([at : Nat, count : Nat, cards : Seq([granted : Nat, expires : Nat])])
  /\ s.package \in BOOLEAN
  /\ s.cachedUsage \in Optional([at : Nat, body : Optional(UsageBodies)])
  /\ s.cachedReset \in Optional([at : Nat, body : Inventories])
  /\ s.sessions \in SessionLogs

(* What "hooks" of hooks.json may be besides Absent and Odd.               *)
HookGroups == Seq(Handlers) \cup {Odd}
IsHooks(hooks) == \E names \in SUBSET HookNames : hooks \in [names -> Seq(HookGroups) \cup {Odd}]

ASSUME HookAssumption ==
  /\ TaskEvents \subseteq HookNames /\ "own" \in Handlers
  /\ Absent # Odd
  /\ ~IsHooks(Absent) /\ ~IsHooks(Odd)
  /\ Odd \notin Seq(Handlers) /\ Odd \notin Seq(HookGroups)

ASSUME DataAssumption ==
  /\ None \notin Windows /\ None \notin ReadLimits
  /\ Times \subseteq Nat /\ Lengths \subseteq Nat
  /\ Limits \subseteq UsageBodies /\ CardBodies \subseteq Inventories
  /\ \A sources \in Sources : IsSources(sources)
  /\ \A files \in Logs :
       /\ files \in Seq([modified : Nat, lines : Seq([at : Optional(Nat), limits : Nat \X Nat])])
       /\ \A f \in DOMAIN files : \A i \in DOMAIN files[f].lines :
            files[f].lines[i].limits = <<f, i>>
  /\ \A hello \in Hellos : hello.quota \in Seq(Int)
  /\ \A addresses \in Addresses :
       /\ IsFiniteSet(addresses)
       /\ \A a \in addresses : a.number \in Nat /\ a = [net |-> a.net, number |-> a.number]
  /\ \A draws \in Draws :
       draws.range \in Nat \ {0} /\ draws.most \in Nat /\ draws.range <= draws.most
  /\ \A words \in Titles : words \in Seq([length : Nat \ {0}, private : BOOLEAN, control : BOOLEAN])
  /\ Policies \subseteq [mode : {"Never", "WhenChatGptUnfocused", "Always"},
                         authorization : BOOLEAN, review : BOOLEAN,
                         phone : BOOLEAN, band : BOOLEAN, band8 : BOOLEAN]
  /\ Contexts \subseteq [focused : BOOLEAN, foreground : BOOLEAN, reconnect : BOOLEAN]
  /\ \A hooks \in HookFiles : hooks \in {Absent, Odd} \/ IsHooks(hooks)
  /\ \A link \in Links : link.urls \in Seq(ToSet(link.urls))

VARIABLE call

Idle == [kind |-> "idle"]

DataInit == call = Idle

AuthFiles == {None} \cup [length : {0, 2000, 16385}]
Statuses  == {0, 200, 401, 500}

(* A refresh asks for the usage.                                           *)
CallUsage ==
  \E auth \in AuthFiles, status \in Statuses, body \in Limits \cup {None}, now \in Times :
    call' = [kind |-> "usage", body |-> body, now |-> now,
             got |-> RefreshUsage(auth, status, body, now)]

(* A refresh asks for the cards, a collect shows what was stored.          *)
CallCards ==
  \E body \in CardBodies, now, later \in Times :
    /\ now <= later
    /\ LET stored == FetchInventory(200, body, now)
       IN call' = [kind |-> "cards", body |-> body, now |-> now, later |-> later,
                   got |-> IF "error" \in DOMAIN stored THEN None
                           ELSE StoredInventory(stored, later)]

(* A collect, and the start of a later run with what it cached.            *)
CallCollect ==
  \E sources \in Sources, now, later \in Times :
    /\ now <= later
    /\ LET snapshot == Collect(sources, now)
       IN call' = [kind |-> "collect", sources |-> sources, now |-> now, later |-> later,
                   got |-> snapshot, cached |-> LoadCachedSnapshot(snapshot, later)]

CallSessions ==
  \E files \in Logs :
    call' = [kind |-> "sessions", files |-> files, got |-> LatestRateLimits(files)]

CallAnswers ==
  \E answers \in UNION {[1..n -> Times] : n \in 0..3} :
    call' = [kind |-> "answers", answers |-> answers,
             got |-> NewestAnswer([i \in DOMAIN answers |-> [at |-> answers[i], body |-> i]])]

CallEntries ==
  \E length \in Lengths, key \in 0..(CAPACITY + 1) :
    call' = [kind |-> "entries", length |-> length, key |-> key,
             got |-> Entries(length, [offset \in HEADER..(length - 1) |-> key])]

CallAddress ==
  \E address \in [initialized : BOOLEAN, kind : 0..5, start : 0..2],
     size \in Lengths, length \in Lengths \cup {None} :
    call' = [kind |-> "address", length |-> length, size |-> size, external |-> address.kind = 0,
             got |-> ReadCacheAddress(address, size, length)]

CallHello ==
  \E hello \in Hellos :
    call' = [kind |-> "hello", hello |-> hello,
             got |-> IF ValidHello(hello) THEN ServerHello(hello) ELSE None]

CallPair ==
  \E addresses \in Addresses, port \in {1, 47831, 65535} :
    call' = [kind |-> "offer", addresses |-> addresses, got |-> BeginPairing(addresses, port)]

CallCode ==
  \E draws \in Draws :
    call' = [kind |-> "code", draws |-> draws,
             got |-> [code \in 0..(draws.range - 1) |->
                       Cardinality({draw \in 0..draws.most :
                                      CodeOf(draw, draws.range, draws.most) = code})]]

CallTitle ==
  \E words \in Titles :
    call' = [kind |-> "title", words |-> words, got |-> SanitizeTitle(words)]

CallPlan ==
  \E policy \in Policies, context \in Contexts,
     state \in {"Running", "NeedsAuthorization", "WaitingForReview"} :
    call' = [kind |-> "plan", host |-> HostPlan(policy, state, context),
             phone |-> PhonePlan(policy, state, context)]

CallHooks ==
  \E hooks \in HookFiles :
    call' = [kind |-> "hooks", hooks |-> hooks,
             merged |-> MergeHooks(hooks), removed |-> RemoveOwned(hooks)]

CallLink ==
  \E link \in Links :
    call' = [kind |-> "link", link |-> link, got |-> ParsePairingLink(link)]

Return == call # Idle /\ call' = Idle

Call ==
  \/ CallUsage \/ CallCards \/ CallCollect \/ CallSessions \/ CallAnswers
  \/ CallEntries \/ CallAddress
  \/ CallHello \/ CallPair \/ CallCode \/ CallTitle \/ CallPlan \/ CallHooks \/ CallLink

DataNext == \/ call = Idle /\ Call
        \/ Return

DataSpec == DataInit /\ [][DataNext]_call

-----------------------------------------------------------------------------
(* Every call yields a value of its type: an error or windows, an          *)
(* inventory, a range of bytes, an offer.                                  *)
DataTypeOK ==
  /\ call.kind \in {"idle", "usage", "cards", "collect", "sessions", "answers",
                    "entries", "address",
                    "hello", "offer", "code", "title", "plan", "hooks", "link"}
  /\ call.kind = "usage" =>
       IF "error" \in DOMAIN call.got
       THEN ErrorCode(call.got.error) \in {"AUTH_UNAVAILABLE", "AUTH_REJECTED", "NETWORK",
                                           "RESPONSE_FORMAT", "UPSTREAM_HTTP"}
       ELSE call.got.at = call.now
  /\ call.kind = "collect" =>
       /\ call.got.at = call.now
       /\ call.got.status \in {"ok", "partial", "unavailable"}
       /\ call.got.link \in {"ok", "stale", "format_changed", "unavailable"}
       /\ call.got.inventory.status \in {"cached", "cached_derived", "missing", "unavailable"}

(* A window shows exactly what upstream said: a percentage only until the  *)
(* window resets and only when it is whole, and no whole one is lost whose *)
(* minutes are a u32 (normalize_window_values).                            *)
WindowsSayWhatUpstreamSaid ==
  (call.kind = "usage" /\ "windows" \in DOMAIN call.got) =>
    /\ \A i \in DOMAIN call.got.windows :
         LET w == call.got.windows[i]
             v == IF w.id[1] = "primary" THEN call.body.primary ELSE call.body.secondary
         IN /\ 60 * w.minutes = v.length /\ w.resetsAt = v.resetsAt
            /\ IF v.resetsAt > call.now
               THEN w.status = "current" /\ 2 * w.remaining + v.used = Full
               ELSE w.status = "pending_sync" /\ w.remaining = None
    /\ \A v \in {call.body.primary, call.body.secondary} \ {None} :
         (/\ None \notin {v.length, v.used, v.resetsAt}
          /\ v.length > 0 /\ v.length % 60 = 0 /\ v.length < 60 * U32
          /\ v.resetsAt \in 1..LastSecond
          /\ v.used \in {2 * percent : percent \in 0..100})
         => \E i \in DOMAIN call.got.windows : call.got.windows[i].resetsAt = v.resetsAt

(* The cards shown are the available ones of the answer that have not      *)
(* expired when they are shown, soonest first, counted as shown; they are  *)
(* called derived as soon as one is missing (parse_direct_reset_inventory, *)
(* read_direct_reset_inventory).                                           *)
CardsAreTheAvailableOnes ==
  (call.kind = "cards" /\ call.got # None) =>
    LET items == call.got.items
        Good(c, t) == c.available /\ c.granted # None /\ c.expires = t
    IN /\ call.got.count = Len(items)
       /\ \A i \in DOMAIN items :
            /\ items[i].expires > call.later
            /\ \A j \in 1..(i - 1) : items[j].expires <= items[i].expires
       /\ \A t \in {u \in Times : u > call.later} :
            Cardinality({i \in DOMAIN items : items[i].expires = t})
              = Cardinality({i \in DOMAIN call.body.credits : Good(call.body.credits[i], t)})
       /\ (call.got.status = "cached") = (Len(items) = call.body.count)

(* Windows are shown with the time of the source they come from, and a     *)
(* missing time means that there was no source (collect).                  *)
NoSourcesMixed ==
  call.kind = "collect" =>
    LET s == call.sources
        direct  == IF s.usage = None THEN {} ELSE {<<s.usage.at, s.usage.windows>>}
        cached  == IF s.cachedUsage = None \/ ~s.package \/ direct # {} THEN {}
                   ELSE {<<s.cachedUsage.at,
                           IF s.cachedUsage.body = None THEN <<>>
                           ELSE WindowsOf(s.cachedUsage.body, NormalizeWindow, call.now)>>}
        session == IF direct \cup cached # {} THEN {}
                   ELSE UNION {{<<IF line.at = None THEN f.modified ELSE line.at,
                                  WindowsOf(line.limits, NormalizeLegacyWindow, call.now)>> :
                                  line \in ToSet(f.lines)} : f \in ToSet(s.sessions)}
        found   == direct \cup cached \cup session
    IN IF found = {}
       THEN /\ call.got.limitsAt = None /\ call.got.windows = <<>>
            /\ call.got.link = "unavailable"
       ELSE <<call.got.limitsAt, call.got.windows>> \in found /\ call.got.link # "unavailable"

(* What an earlier run cached never looks fresh: it is stale and partial,  *)
(* and shows no card that has expired since (load_cached_snapshot).        *)
ReloadedLooksOld ==
  (call.kind = "collect" /\ call.cached # None) =>
    LET inventory == call.cached.inventory
    IN /\ call.cached.status = "partial" /\ call.cached.link = "stale"
       /\ inventory.status # "cached"
       /\ \A i \in DOMAIN inventory.items : inventory.items[i].expires > call.later
       /\ inventory.count = None \/ inventory.count = Len(inventory.items)

(* What the host collects, and what it reloads from an earlier run, passes *)
(* the phone's decoder in every version they can negotiate: one refused    *)
(* snapshot ends the connection. Windows whose minutes are no signed       *)
(* integer are excepted: the host passes them on.                          *)
PhoneTakesEverySnapshot ==
  call.kind = "collect" =>
    \A version \in 1..3, snapshot \in {call.got, call.cached} \ {None} :
      (\A i \in DOMAIN snapshot.windows : snapshot.windows[i].minutes < I32)
      => PhoneTakesQuota(QuotaWire(snapshot, version), version)

(* The newest line with limits wins, and of equally new ones the line of   *)
(* the file modified last (read_latest_rate_limits); of Chromium's copies  *)
(* the newest does (find_cached_json).                                     *)
NewestWins ==
  /\ (call.kind = "answers" /\ call.got # None) =>
       \A i \in DOMAIN call.answers :
         \/ call.answers[i] < call.got.at
         \/ call.answers[i] = call.got.at /\ i <= call.got.body
  /\ (call.kind = "sessions" /\ call.got # None) =>
    LET lines == UNION {{<<f, i>> : i \in DOMAIN call.files[f].lines} : f \in DOMAIN call.files}
        At(l) == IF call.files[l[1]].lines[l[2]].at = None THEN call.files[l[1]].modified
                 ELSE call.files[l[1]].lines[l[2]].at
        won   == call.got.limits
    IN \A l \in lines :
         \/ At(l) < At(won)
         \/ At(l) = At(won) /\ call.files[l[1]].modified <= call.files[won[1]].modified

(* No entry and no body is read outside its block file, whatever the       *)
(* fields of the file say, and a body in a block file is never cut         *)
(* (find_cached_json, read_cache_address).                                 *)
CacheReadsStayInside ==
  /\ call.kind = "entries" =>
       \A offset \in call.got : offset >= HEADER /\ offset + KEY + call.key <= call.length
                                /\ offset + ENTRY <= call.length
  /\ (call.kind = "address" /\ call.got # None) =>
       /\ call.got.to <= call.length
       /\ ~call.external => call.got.from >= HEADER /\ call.got.to - call.got.from = call.size

(* The two sides agree on the highest version both know, the phone accepts *)
(* the answer to every accepted greeting, and the host accepts what the    *)
(* phone sends with it.                                                    *)
GreetingsAgree ==
  call.kind = "hello" =>
    /\ call.got # None =>
         /\ PhoneTakesServerHello(call.got)
         /\ call.got.quota = Max(ToSet(call.hello.quota))
         /\ ValidRefreshRequest(PhoneRefresh(call.got), call.got.connection)
    /\ ValidConnectionId(call.hello.client) => ValidHello(PhoneHello(call.hello.client))

(* Every offer shown can be scanned, a computer with a private address can *)
(* always show one, and each phone of an offered network is let in         *)
(* (begin_pairing, to_qr_offer, allowed_peer, PairingOfferWireContract).   *)
OfferIsScannable ==
  call.kind = "offer" =>
    IF \A a \in call.addresses : ~Private(a.net) /\ ~LinkLocal(a.net)
    THEN call.got = [error |-> "NoPrivateAddress"]
    ELSE /\ "endpoints" \in DOMAIN call.got
         /\ PhoneTakesOffer(call.got.endpoints)
         /\ \A i \in DOMAIN call.got.endpoints :
              LET e == call.got.endpoints[i]
              IN AllowedPeer(e.net) /\ [net |-> e.net, number |-> e.number] \in call.addresses

(* Every pairing code is equally likely (random_pairing_code).             *)
CodesAreEven ==
  call.kind = "code" =>
    /\ \A code \in DOMAIN call.got : call.got[code] = call.got[0]
    /\ call.got[0] > 0

(* A title fits the phone's decoder, unless it holds a control character   *)
(* (sanitize_title, TaskWireContract).                                     *)
TitlesFitThePhone ==
  (call.kind = "title" /\ ~call.got.control) => PhoneTakesTitle(call.got)

(* The host's and the phone's copies of the alert policy decide alike.     *)
PoliciesAgree ==
  call.kind = "plan" =>
    /\ call.host.phone = call.phone.phone /\ call.host.band = call.phone.band
    /\ call.phone.phone => call.host.urgency = call.phone.urgency

OthersOf(hooks) ==
  [e \in DOMAIN hooks |->
    LET others == [i \in DOMAIN hooks[e] |-> Cleaned(hooks[e][i])]
    IN Picked(others, {i \in DOMAIN others : others[i] # <<>>})]

(* Installing and removing the hooks keeps everybody else's handlers, in   *)
(* their groups and order; installing again changes nothing, and each task *)
(* event runs the host's handler exactly once (merge_hook_config,          *)
(* remove_hook_config).                                                    *)
OthersHooksSurvive ==
  (call.kind = "hooks" /\ "hooks" \in DOMAIN call.merged) =>
    LET before == IF call.hooks = Absent THEN <<>> ELSE OthersOf(call.hooks)
        merged == call.merged.hooks
        At(f, e) == IF e \in DOMAIN f THEN f[e] ELSE <<>>
        Own(e) == {p \in (DOMAIN merged[e]) \X (1..3) :
                     /\ merged[e][p[1]] # Odd
                     /\ p[2] \in DOMAIN merged[e][p[1]] /\ merged[e][p[1]][p[2]] = "own"}
    IN /\ \A e \in DOMAIN merged \cup DOMAIN before :
            /\ At(OthersOf(merged), e) = At(before, e)
            /\ At(call.removed.hooks, e) = At(before, e)
       /\ MergeHooks(merged) = call.merged
       /\ RemoveOwned(merged) = call.removed
       /\ \A e \in TaskEvents : Cardinality(Own(e)) = 1

(* The plugin tries every endpoint of an accepted link, each once, in the  *)
(* order of the link, and none outside the local network                   *)
(* (parse_deeplink_pairing_payload).                                       *)
LinkNamesEachEndpointOnce ==
  (call.kind = "link" /\ "urls" \in DOMAIN call.got) =>
    LET Named(i) == [net |-> call.link.urls[i].net, port |-> call.link.urls[i].port]
        urls == call.got.urls
    IN /\ IsInjective(urls)
       /\ ToSet(urls) = {Named(i) : i \in DOMAIN call.link.urls}
       /\ \A i \in DOMAIN urls : Private(urls[i].net) \/ LinkLocal(urls[i].net)
       /\ \A i, j \in DOMAIN urls : i < j =>
            \E k \in DOMAIN call.link.urls :
              Named(k) = urls[i] /\ \A l \in 1..k : Named(l) # urls[j]

(* What is shown of the quota is what its sources said: each value under   *)
(* its own time and status, nothing lost and nothing read past an end.     *)
QuotaIsWhatSourcesSaid ==
  /\ DataTypeOK
  /\ WindowsSayWhatUpstreamSaid
  /\ CardsAreTheAvailableOnes
  /\ NoSourcesMixed
  /\ NewestWins
  /\ ReloadedLooksOld
  /\ CacheReadsStayInside

(* What the host sends and decides, the phone takes and decides: the rules *)
(* are written once in Rust and once in Kotlin.                            *)
PhoneAgreesWithHost ==
  /\ PhoneTakesEverySnapshot
  /\ GreetingsAgree
  /\ TitlesFitThePhone
  /\ PoliciesAgree

(* Every offer, link and code that can be made can be used.                *)
OffersCanBeUsed ==
  /\ OfferIsScannable
  /\ CodesAreEven
  /\ LinkNamesEachEndpointOnce
=============================================================================
