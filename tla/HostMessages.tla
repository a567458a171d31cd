----------------------------- MODULE HostMessages -----------------------------
(***************************************************************************)
(* What the Windows host and its phone accept from each other, as the two  *)
(* sides check it: pairing offers and requests, greetings, refresh         *)
(* requests, tokens and tasks (windows-native/src/lib.rs, network.rs,      *)
(* host.rs; the phone's wire contracts), the alert policy both sides hold,  *)
(* Codex's hooks.json that the host rewrites (hook.rs), and the messages   *)
(* of the AstroBox plugin (astrobox-plugin/src/protocol.rs).               *)
(*                                                                         *)
(* Operators only; HostData checks them. A text is its length and its      *)
(* alphabet, each alphabet holding the ones before it; an IPv4 address is  *)
(* its network and a number within it.                                     *)
(***************************************************************************)
EXTENDS Integers, FiniteSets, SequencesExt, Sorting

CONSTANTS
  Absent,    \* no such key
  Odd        \* a JSON value of a shape that is not asked for

Alphabets == <<"digits", "hex", "id", "other">>
Within(text, alphabet) == \E i, j \in 1..4 : /\ Alphabets[i] = text.of
                                             /\ Alphabets[j] = alphabet /\ i <= j

ValidConnectionId(text) == text.length \in 16..128 /\ Within(text, "id")
ValidCode(text)         == text.length = 6 /\ Within(text, "digits")
ValidToken(text)        == text.length = 64 /\ Within(text, "hex")

RandomConnectionId == [length |-> 32, of |-> "hex"]
NewToken           == [length |-> 64, of |-> "hex"]

-----------------------------------------------------------------------------
(* Greetings.                                                              *)

(* Mutant: versions the phone may know and the host does not pass.         *)
HelloUnordered(hello) ==
  /\ hello.transport = 1 /\ ValidConnectionId(hello.client)
  /\ Len(hello.quota) \in 1..8
  /\ \A i \in DOMAIN hello.quota : hello.quota[i] \in 1..4
  /\ hello.tasks = <<1>>

ValidHello(hello) ==
  /\ hello.transport = 1 /\ ValidConnectionId(hello.client)
  /\ Len(hello.quota) \in 1..8
  /\ \A i \in DOMAIN hello.quota : hello.quota[i] \in 1..3
  /\ \A i \in 1..(Len(hello.quota) - 1) : hello.quota[i] < hello.quota[i + 1]
  /\ hello.tasks = <<1>>

NegotiateQuotaVersion(hello) ==
  IF Contains(hello.quota, 3) THEN 3
  ELSE IF Contains(hello.quota, 2) THEN 2
  ELSE IF Contains(hello.quota, 1) THEN 1 ELSE 0

ServerHello(hello) ==
  [transport |-> 1, connection |-> RandomConnectionId,
   quota |-> NegotiateQuotaVersion(hello), tasks |-> 1, heartbeat |-> 15000]

PhoneTakesServerHello(hello) ==
  /\ hello.transport = 1 /\ hello.quota \in 1..3 /\ hello.tasks = 1
  /\ hello.heartbeat >= 5000 /\ hello.heartbeat <= 60000
  /\ ValidConnectionId(hello.connection)

PhoneHello(client) ==
  [transport |-> 1, client |-> client, quota |-> <<1, 2, 3>>, tasks |-> <<1>>]

ValidPairRequest(request) == ValidCode(request.code) /\ ValidConnectionId(request.client)

ValidRefreshRequest(request, negotiated) ==
  /\ request.transport = 1 /\ request.connection = negotiated /\ request.scope = "quota"

(* The phone sends back the identity it was greeted with.                  *)
PhoneRefresh(hello) ==
  [transport |-> 1, connection |-> hello.connection, scope |-> "quota"]

-----------------------------------------------------------------------------
(* Addresses and pairing offers.                                           *)

Private(net)   == net \in {"10/8", "172.16/12", "192.168/16"}
LinkLocal(net) == net = "169.254/16"

AllowedPeer(net) == \/ Private(net) \/ LinkLocal(net)
                    \/ net \in {"127/8", "::1", "fc00::/7", "fe80::/10"}

IsPort(port) == port >= 1 /\ port <= 65535

ValidPairingEndpoint(endpoint) ==
  /\ endpoint.length <= 128
  /\ endpoint.scheme = "wss" /\ endpoint.path = "/pair" /\ ~endpoint.extra
  /\ IsPort(endpoint.port)
  /\ Private(endpoint.net) \/ LinkLocal(endpoint.net)

ToQrOffer(endpoints) ==
  IF \/ Len(endpoints) \notin 1..8 \/ ~IsInjective(endpoints)
     \/ \E i \in DOMAIN endpoints : ~ValidPairingEndpoint(endpoints[i])
  THEN [error |-> "InvalidEndpoint"] ELSE [endpoints |-> endpoints]

NetOrder(net) == CASE net = "10/8" -> 1 [] net = "169.254/16" -> 2
                   [] net = "172.16/12" -> 3 [] net = "192.168/16" -> 4

(* The private addresses of the computer, and the order they are offered in. *)
LocalAddresses(addresses) == {a \in addresses : Private(a.net) \/ LinkLocal(a.net)}

AddressOrder(local) ==
  {p \in local \X local : \/ NetOrder(p[1].net) < NetOrder(p[2].net)
                          \/ p[1].net = p[2].net /\ p[1].number < p[2].number}

PairingEndpoint(address, port) ==
  [net |-> address.net, number |-> address.number, length |-> 30,
   scheme |-> "wss", path |-> "/pair", extra |-> FALSE, port |-> port]

(* The endpoints of the first few local addresses.                         *)
LocalEndpoints(local, most, port) ==
  LET inOrder == Sorted(local, AddressOrder(local))
      n       == IF Cardinality(local) < most THEN Cardinality(local) ELSE most
  IN [i \in 1..n |-> PairingEndpoint(inOrder[i], port)]

(* Mutant: every private address is offered.                               *)
BeginPairingAll(addresses, port) ==
  LET local     == LocalAddresses(addresses)
      endpoints == LocalEndpoints(local, Cardinality(local), port)
  IN IF endpoints = <<>> THEN [error |-> "NoPrivateAddress"] ELSE ToQrOffer(endpoints)

BeginPairing(addresses, port) ==
  LET endpoints == LocalEndpoints(LocalAddresses(addresses), 8, port)
  IN IF endpoints = <<>> THEN [error |-> "NoPrivateAddress"] ELSE ToQrOffer(endpoints)

PhoneTakesOffer(endpoints) ==
  /\ Len(endpoints) \in 1..8
  /\ Cardinality({endpoints[i] : i \in DOMAIN endpoints}) = Len(endpoints)
  /\ \A i \in DOMAIN endpoints :
       LET e == endpoints[i]
       IN /\ e.length <= 128 /\ e.scheme = "wss" /\ e.path = "/pair" /\ ~e.extra
          /\ IsPort(e.port)
          /\ e.net \in {"10/8", "172.16/12", "192.168/16", "169.254/16"}

(* Mutant: a draw from the uneven end is used.                             *)
CodeOfAll(draw, range, most) == draw % range

(* random_pairing_code with draws 0..most and range codes: None is a draw  *)
(* that is repeated.                                                       *)
CodeOf(draw, range, most) ==
  IF draw < most - (most % range) THEN draw % range ELSE -1

-----------------------------------------------------------------------------
(* Titles and tasks. A word is its length, whether it is a private part    *)
(* and whether it holds a control character.                               *)

GenericTitle == [length |-> 2, control |-> FALSE]

(* How long the first n words are with a space between them.               *)
Joined(words) ==
  LET sum[n \in 0..Len(words)] ==
        CASE n = 0 -> 0
          [] n = 1 -> words[1].length
          [] OTHER -> sum[n - 1] + 1 + words[n].length
  IN sum

(* Mutant: the title is not cut.                                           *)
TitleUncut(words) ==
  LET safe == Picked(words, {i \in DOMAIN words : ~words[i].private})
  IN IF safe = <<>> THEN GenericTitle
     ELSE [length |-> Joined(safe)[Len(safe)], control |-> \E i \in DOMAIN safe : safe[i].control]

SanitizeTitle(words) ==
  LET safe  == Picked(words, {i \in DOMAIN words : ~words[i].private})
      total == Joined(safe)[Len(safe)]
      Starts(i) == Joined(safe)[i] - safe[i].length
  IN IF total = 0 THEN GenericTitle
     ELSE [length |-> IF total < 16 THEN total ELSE 16,
           control |-> \E i \in DOMAIN safe : safe[i].control /\ Starts(i) < 16]

(* TaskWireContract.decode on one title.                                   *)
PhoneTakesTitle(title) == title.length \in 1..16 /\ ~title.control

-----------------------------------------------------------------------------
(* The alert policy, on the host and on the phone.                         *)

HostPlan(policy, state, context) ==
  LET enabled == CASE state = "Running"             -> FALSE
                   [] state = "NeedsAuthorization"  -> policy.authorization
                   [] state = "WaitingForReview"    -> policy.review
      timely  == CASE policy.mode = "Never"                -> FALSE
                   [] policy.mode = "WhenChatGptUnfocused" -> ~context.focused
                   [] policy.mode = "Always"               -> TRUE
  IN IF \/ ~enabled \/ ~timely \/ context.foreground
        \/ context.reconnect /\ state = "WaitingForReview"
        \/ ~policy.phone /\ ~policy.band
     THEN [phone |-> FALSE, band |-> FALSE, urgency |-> "none"]
     ELSE [phone |-> policy.phone, band |-> policy.band,
           urgency |-> IF state = "NeedsAuthorization" THEN "vibrate" ELSE "silent"]

(* Mutant: a reconnect alerts of what waits for review.                    *)
PhonePlanReconnects(policy, state, context) ==
  LET enabled == CASE state = "Running"             -> FALSE
                   [] state = "NeedsAuthorization"  -> policy.authorization
                   [] state = "WaitingForReview"    -> policy.review
      timely  == \/ policy.mode = "Always"
                 \/ policy.mode = "WhenChatGptUnfocused" /\ ~context.focused
  IN IF enabled /\ timely /\ ~context.foreground
     THEN [phone |-> policy.phone, band |-> policy.band, band8 |-> policy.band8,
           urgency |-> IF ~policy.phone THEN "none"
                       ELSE IF state = "NeedsAuthorization" THEN "vibrate" ELSE "silent"]
     ELSE [phone |-> FALSE, band |-> FALSE, band8 |-> FALSE, urgency |-> "none"]

PhonePlan(policy, state, context) ==
  LET enabled == CASE state = "Running"             -> FALSE
                   [] state = "NeedsAuthorization"  -> policy.authorization
                   [] state = "WaitingForReview"    -> policy.review
      timely  == \/ policy.mode = "Always"
                 \/ policy.mode = "WhenChatGptUnfocused" /\ ~context.focused
  IN IF /\ enabled /\ timely /\ ~context.foreground
        /\ ~(context.reconnect /\ state = "WaitingForReview")
        /\ policy.phone \/ policy.band \/ policy.band8
     THEN [phone |-> policy.phone, band |-> policy.band, band8 |-> policy.band8,
           urgency |-> IF ~policy.phone THEN "none"
                       ELSE IF state = "NeedsAuthorization" THEN "vibrate" ELSE "silent"]
     ELSE [phone |-> FALSE, band |-> FALSE, band8 |-> FALSE, urgency |-> "none"]

-----------------------------------------------------------------------------
(* Codex's hooks.json: each event has groups of handlers, and a handler is *)
(* the host's ("own") if one of its commands holds the owner marker. Odd   *)
(* stands for any value that is not the object or array asked for.         *)

TaskEvents == {"UserPromptSubmit", "PermissionRequest", "PreToolUse", "Stop"}

Cleaned(group) ==
  IF group = Odd THEN Odd ELSE Picked(group, {i \in DOMAIN group : group[i] # "own"})

(* The groups of an event that are left with a handler.                    *)
Kept(groups) ==
  LET cleaned == [i \in DOMAIN groups |-> Cleaned(groups[i])]
  IN Picked(cleaned, {i \in DOMAIN cleaned : cleaned[i] # <<>>})

(* Groups left without a handler go, and events left without a group.      *)
RemoveOwned(hooks) ==
  CASE hooks = Absent -> [hooks |-> <<>>]
    [] hooks = Odd    -> [error |-> "hooks must be an object"]
    [] hooks \notin {Absent, Odd} ->
         IF \E e \in DOMAIN hooks : hooks[e] = Odd
         THEN [error |-> "hooks.event must be an array"]
         ELSE LET left == {e \in DOMAIN hooks : Kept(hooks[e]) # <<>>}
              IN [hooks |-> [e \in left |-> Kept(hooks[e])]]

(* Mutant: the handlers of an earlier installation stay.                   *)
MergeOver(hooks) ==
  CASE hooks = Absent -> [hooks |-> [e \in TaskEvents |-> << <<"own">> >>]]
    [] hooks = Odd    -> [error |-> "hooks must be an object"]
    [] hooks \notin {Absent, Odd} ->
         IF \E e \in DOMAIN hooks : hooks[e] = Odd
         THEN [error |-> "hooks.event must be an array"]
         ELSE [hooks |-> [e \in DOMAIN hooks \cup TaskEvents |->
                           IF e \notin DOMAIN hooks THEN << <<"own">> >>
                           ELSE IF e \in TaskEvents THEN Append(hooks[e], <<"own">>)
                           ELSE hooks[e]]]

MergeHooks(hooks) ==
  LET cleared == RemoveOwned(hooks)
  IN IF "error" \in DOMAIN cleared THEN cleared
     ELSE [hooks |-> [e \in DOMAIN cleared.hooks \cup TaskEvents |->
                       IF e \notin DOMAIN cleared.hooks THEN << <<"own">> >>
                       ELSE IF e \in TaskEvents THEN Append(cleared.hooks[e], <<"own">>)
                       ELSE cleared.hooks[e]]]

-----------------------------------------------------------------------------
(* The AstroBox plugin's pairing link.                                     *)

(* An endpoint as http://address:port, or an error.                        *)
ValidateBaseUrl(url) ==
  IF /\ url.scheme = "http" /\ ~url.extra
     /\ Private(url.net) \/ LinkLocal(url.net)
     /\ IsPort(url.port)
  THEN [net |-> url.net, port |-> url.port] ELSE [error |-> "endpoint"]

(* Mutant: repeated endpoints stay.                                        *)
DistinctUrlsAll(urls) == urls

DistinctUrls(urls) ==
  Picked(urls, {i \in DOMAIN urls : \A j \in 1..(i - 1) : urls[j] # urls[i]})

ValidLink(link) ==
  /\ link.length <= 2048 /\ link.version = 1 /\ link.kind = "codex-quota-pairing"
  /\ Len(link.urls) \in 1..8 /\ ValidCode(link.code)

ParsePairingLink(link) ==
  LET urls == [i \in DOMAIN link.urls |-> ValidateBaseUrl(link.urls[i])]
  IN IF ~ValidLink(link) \/ \E i \in DOMAIN urls : "error" \in DOMAIN urls[i]
     THEN [error |-> "pairing payload"]
     ELSE [urls |-> DistinctUrls(urls), code |-> link.code]
=============================================================================
