-------------------------- MODULE LegacyBridge_proofs --------------------------
(***************************************************************************)
(* Machine-checked proofs about LegacyBridge, for any number of handlers,  *)
(* addresses, attempts, offers, tokens and upsets. The inductive invariant *)
(* says, for every stage of a handler and of a revocation, what memory and *)
(* file have over one another and what the offer is still good for.        *)
(***************************************************************************)
EXTENDS LegacyBridge, TLAPS

(* What a handler, a revocation and the plugin's own handler are made of.  *)
Stages ==
  {Idle} \cup [at : {"body"}, code : Codes]
         \cup [at : {"mkdir"}, token : Tokens]
         \cup [at : {"rename"}, token : Tokens, body : SUBSET Tokens]

Revocations ==
  {Idle} \cup [at : {"mkdir"}, gone : SUBSET Tokens]
         \cup [at : {"rename"}, gone : SUBSET Tokens, body : SUBSET Tokens]

Posts == [at : {"post"}, code : Codes, left : Nat]
Waits == [at : {"wait"}, slot : Slots, reply : {"none", "created", "wrong", "error"},
          token : {None} \cup Tokens, code : Codes, left : Nat \ {0}]
Sends == [at : {"send"},
          kind : {"pairing_required", "snapshot", "pairing_revoked", "failed"}]

Handlers ==
  {Idle, [at |-> "register"], [at |-> "get"]} \cup Posts \cup Waits \cup Sends

(* TypeOK with the fields of the records it leaves open.                   *)
ServerInv ==
  /\ offer \in [code : 1..MaxOffers, attempts : Nat, gone : BOOLEAN]
  /\ tokens \subseteq 1..minted /\ file \subseteq 1..minted
  /\ handler \in [Slots -> Stages]
  /\ \A s \in Slots : handler[s].at = "rename" => handler[s].body \subseteq 1..minted
  /\ revoke \in Revocations
  /\ revoke.at = "rename" => revoke.body \subseteq 1..minted
  /\ minted \in 0..MaxTokens

HistoryInv ==
  /\ upsets \in 0..MaxUpsets
  /\ DOMAIN forCode = 1..minted
  /\ \A t \in 1..minted : forCode[t] \in 1..offer.code
  /\ troubled \in BOOLEAN

(* The page is drawn but while configure has not yet redrawn it, and a     *)
(* snapshot is only asked for with a credential.                           *)
PluginInv ==
  /\ cred \in {None} \cup Tokens
  /\ status \in Statuses /\ uiRoot \in BOOLEAN
  /\ shown \in [paired : BOOLEAN, status : Statuses] \cup {Idle}
  /\ task \in Handlers
  /\ task.at = "get" => cred # None
  /\ task.at = "wait" /\ task.reply = "none" => handler[task.slot] # Idle
  /\ task.at = "wait" /\ task.reply = "created" => task.token # None
  /\ uiRoot /\ task.at # "register" => shown = Screen

BridgeInv == ServerInv /\ HistoryInv /\ PluginInv

Saving(s) == handler[s].at \in {"mkdir", "rename"}
Spent(code) == \E t \in 1..minted : forCode[t] = code

(* Undisturbed, one handler runs at a time and none beside a revocation.   *)
Alone ==
  /\ \A s, u \in Slots : handler[s] # Idle /\ handler[u] # Idle => s = u
  /\ revoke # Idle => \A s \in Slots : handler[s] = Idle

(* The offer's code mints no second token: once it has minted one, the     *)
(* offer is gone or the handler that will consume it is saving.            *)
CodeInv ==
  /\ OneTokenPerCode
  /\ Spent(offer.code) => offer.gone \/ \E s \in Slots : Saving(s)
  /\ \A s \in Slots : handler[s].at = "body" =>
       /\ offer.attempts < MaxAttempts
       /\ Spent(offer.code) => handler[s].code # offer.code
  /\ offer.attempts <= MaxAttempts

(* What memory has over the file is the token being saved, and what the    *)
(* file has over memory is being revoked.                                  *)
StoreInv ==
  /\ revoke = Idle /\ (\A s \in Slots : ~Saving(s)) => tokens = file
  /\ \A s \in Slots : Saving(s) => tokens = file \cup {handler[s].token}
  /\ \A s \in Slots : handler[s].at = "rename" => handler[s].body = tokens
  /\ revoke # Idle => tokens = {} /\ revoke.gone = file
  /\ revoke.at = "rename" => revoke.body = {}

(* What the plugin has or is about to be given was in the file, and stays  *)
(* there until it is revoked.                                              *)
TrustInv ==
  /\ revoked \subseteq 1..minted
  /\ revoked \cap (tokens \cup file) = {}
  /\ cred # None => cred \in file \cup revoked
  /\ task.at = "wait" /\ task.reply = "created" => task.token \in file \cup revoked
  /\ ToldRevokedIsRevoked

Calm == ~troubled => Alone /\ CodeInv /\ StoreInv /\ TrustInv

IInv == BridgeInv /\ Calm

-----------------------------------------------------------------------------
(* What the kinds of records are told apart by.                            *)
LEMMA StageFields ==
  ASSUME NEW h \in Stages
  PROVE  /\ h.at \in {"idle", "body", "mkdir", "rename"}
         /\ h = Idle <=> h.at = "idle"
         /\ h.at = "body" => h.code \in Codes
         /\ h.at \in {"mkdir", "rename"} => h.token \in Tokens
         /\ h.at = "rename" => h.body \in SUBSET Tokens
  BY DEF Stages, Idle

LEMMA RevocationFields ==
  ASSUME NEW r \in Revocations
  PROVE  /\ r.at \in {"idle", "mkdir", "rename"}
         /\ r = Idle <=> r.at = "idle"
         /\ r.at \in {"mkdir", "rename"} => r.gone \in SUBSET Tokens
         /\ r.at = "rename" => r.body \in SUBSET Tokens
  BY DEF Revocations, Idle

LEMMA HandlerFields ==
  ASSUME NEW h \in Handlers
  PROVE  /\ h.at \in {"idle", "post", "wait", "register", "get", "send"}
         /\ h = Idle <=> h.at = "idle"
         /\ h.at = "post" => h \in Posts
         /\ h.at = "wait" => h \in Waits
         /\ h.at = "send" => h \in Sends
  BY DEF Handlers, Idle, Posts, Waits, Sends

(* A reply changes the plugin's handler only where it waits for one.       *)
LEMMA ReplyTask ==
  ASSUME NEW s \in Slots, NEW r \in {"created", "wrong", "error"},
         NEW t \in {None} \cup Tokens, task \in Handlers, Reply(s, r, t)
  PROVE  /\ task' \in Handlers
         /\ task'.at = task.at
         /\ task'.at = "send" => task' = task
         /\ task'.at = "wait" =>
              \/ task' = task /\ (task.reply # "none" \/ task.slot # s)
              \/ task'.reply = r /\ task'.token = t
<1>1. CASE task.at = "wait" /\ task.slot = s /\ task.reply = "none"
  <2>1. task \in Waits
    BY <1>1, HandlerFields
  <2>2. task' = [task EXCEPT !.reply = r, !.token = t]
    BY <1>1 DEF Reply
  <2>3. task' \in Waits /\ task'.reply = r /\ task'.token = t
    BY <2>1, <2>2 DEF Waits
  <2> QED
    BY <1>1, <2>1, <2>3 DEF Handlers, Waits
<1>2. CASE ~(task.at = "wait" /\ task.slot = s /\ task.reply = "none")
  <2>1. task' = task
    BY <1>2 DEF Reply
  <2> QED
    BY <1>2, <2>1
<1> QED
  BY <1>1, <1>2

(* The slot that a new handler takes was free.                             *)
LEMMA FreeSlot ==
  ASSUME Busy # Slots
  PROVE  LET s == CHOOSE s \in Slots : s \notin Busy
         IN s \in Slots /\ handler[s] = Idle
<1>1. \E s \in Slots : s \notin Busy
  BY DEF Busy
<1> QED
  BY <1>1 DEF Busy

(* What the plugin does by itself leaves the server and the history alone. *)
PluginSide ==
  \/ PostFails \/ GiveUp \/ ReplyUnreadable \/ TakeRefusal \/ TakeToken
  \/ Registered \/ PairingFailed \/ GetSnapshot \/ GetRejected \/ GetFails \/ Send
  \/ Events

ServerSide ==
  \/ BeginPairing \/ Expire \/ RevokeAll \/ Restart \/ Revoke
  \/ (\E s \in Slots : Handle(s))
  \/ PostAccepted

LEMMA Sides == Next => ServerSide \/ PluginSide
  BY DEF Next, Work, ServerSide, PluginSide

LEMMA PluginAlone == PluginSide => UNCHANGED <<server, past>>
  BY DEF PluginSide, Events, PostFails, GiveUp, ReplyUnreadable, TakeRefusal, TakeToken,
         Registered, PairingFailed, GetSnapshot, GetRejected, GetFails, Got, Send,
         PairingNotStarted, RunPairingFlow, RunDeeplinkPairingFlow, ForgetCredentials,
         SubscribeDevices, UiRender, OnLoad, IgnoreBandMessage, BandMessage, Quietly

-----------------------------------------------------------------------------
(* Types.                                                                  *)
LEMMA InitTypes == Init => BridgeInv
<1> SUFFICES ASSUME Init PROVE BridgeInv
  OBVIOUS
<1> USE BridgeAssumption DEF BridgeAssumption
<1>1. ServerInv
  <2>1. handler \in [Slots -> Stages] /\ revoke \in Revocations
    BY DEF Init, Stages, Revocations
  <2>2. revoke.at = "idle" /\ \A s \in Slots : handler[s].at = "idle"
    BY DEF Init, Idle
  <2> QED
    BY <2>1, <2>2 DEF Init, ServerInv, NewOffer
<1>2. HistoryInv
  <2>1. DOMAIN forCode = {} /\ 1..minted = {}
    BY DEF Init
  <2>2. upsets = 0 /\ MaxUpsets \in Nat
    BY DEF Init
  <2>3. troubled \in BOOLEAN
    BY Zenon DEF Init
  <2> QED
    BY <2>1, <2>2, <2>3 DEF HistoryInv
<1>3. PluginInv
  BY DEF Init, PluginInv, Statuses, Handlers, Idle
<1> QED
  BY <1>1, <1>2, <1>3 DEF BridgeInv

LEMMA ServerTypes ==
  ASSUME BridgeInv, ServerSide
  PROVE  ServerInv'
<1> USE BridgeAssumption DEF BridgeAssumption, BridgeInv, ServerInv
<1>1. CASE BeginPairing
  BY <1>1 DEF BeginPairing, NewOffer
<1>2. CASE Expire
  BY <1>2 DEF Expire
<1>3. CASE RevokeAll
  <2>1. revoke' \in Revocations
    BY <1>3 DEF RevokeAll, Revocations, Tokens
  <2> QED
    BY <1>3, <2>1 DEF RevokeAll
<1>4. CASE Restart
  <2>1. handler' \in [Slots -> Stages] /\ revoke' \in Revocations
    BY <1>4 DEF Restart, Stages, Revocations
  <2>2. revoke'.at = "idle" /\ \A s \in Slots : handler'[s].at = "idle"
    BY <1>4 DEF Restart, Idle
  <2> QED
    BY <1>4, <2>1, <2>2 DEF Restart, NewOffer
<1>5. CASE Revoke
  <2>1. CASE RevokeStringify
    <3>1. revoke.gone \in SUBSET Tokens
      BY <2>1, RevocationFields DEF RevokeStringify
    <3>2. revoke' \in Revocations /\ revoke'.body = tokens
      BY <2>1, <3>1 DEF RevokeStringify, Revocations, Tokens
    <3> QED
      BY <2>1, <3>2 DEF RevokeStringify
  <2>2. CASE RevokeRename
    <3>1. revoke' \in Revocations /\ revoke'.at # "rename"
      BY <2>2 DEF RevokeRename, Revocations, Idle
    <3> QED
      BY <2>2, <3>1 DEF RevokeRename
  <2>3. CASE RevokeFails
    <3>1. revoke' \in Revocations /\ revoke'.at # "rename"
      BY <2>3 DEF RevokeFails, Revocations, Idle
    <3> QED
      BY <2>3, <3>1 DEF RevokeFails
  <2> QED
    BY <1>5, <2>1, <2>2, <2>3 DEF Revoke
<1>6. ASSUME NEW s \in Slots, Handle(s)
      PROVE  ServerInv'
  <2>1. CASE ReadBody(s)
    <3>1. CASE handler[s].code = offer.code
      <4>1. minted + 1 \in Tokens /\ minted' = minted + 1 /\ tokens' = tokens \cup {minted + 1}
        BY <2>1, <3>1 DEF ReadBody, Tokens
      <4>2. handler' = [handler EXCEPT ![s] = [at |-> "mkdir", token |-> minted + 1]]
        BY <2>1, <3>1 DEF ReadBody
      <4>3. handler' \in [Slots -> Stages]
        BY <4>1, <4>2 DEF Stages
      <4>4. \A u \in Slots : handler'[u].at = "rename" => handler'[u].body \subseteq 1..minted'
        BY <4>1, <4>2
      <4> QED
        BY <2>1, <4>1, <4>3, <4>4 DEF ReadBody, Tokens
    <3>2. CASE handler[s].code # offer.code
      <4>1. handler' = [handler EXCEPT ![s] = Idle] /\ UNCHANGED <<minted, tokens>>
        BY <2>1, <3>2 DEF ReadBody
      <4>2. handler' \in [Slots -> Stages]
        BY <4>1 DEF Stages
      <4>3. \A u \in Slots : handler'[u].at = "rename" => handler'[u].body \subseteq 1..minted'
        BY <4>1 DEF Idle
      <4> QED
        BY <2>1, <4>1, <4>2, <4>3 DEF ReadBody
    <3> QED
      BY <3>1, <3>2
  <2>2. CASE Stringify(s)
    <3>1. handler[s].token \in Tokens
      BY <2>2, StageFields DEF Stringify
    <3>2. handler' \in [Slots -> Stages]
      BY <2>2, <3>1 DEF Stringify, Stages, Tokens
    <3>3. \A u \in Slots : handler'[u].at = "rename" => handler'[u].body \subseteq 1..minted'
      BY <2>2 DEF Stringify
    <3> QED
      BY <2>2, <3>2, <3>3 DEF Stringify
  <2>3. CASE Answer(s)
    <3>1. handler' \in [Slots -> Stages]
      BY <2>3 DEF Answer, Stages
    <3>2. \A u \in Slots : handler'[u].at = "rename" => handler'[u].body \subseteq 1..minted'
      BY <2>3 DEF Answer, Idle
    <3> QED
      BY <2>3, <3>1, <3>2 DEF Answer
  <2>4. CASE SaveFails(s)
    <3>1. handler' \in [Slots -> Stages]
      BY <2>4 DEF SaveFails, Stages
    <3>2. \A u \in Slots : handler'[u].at = "rename" => handler'[u].body \subseteq 1..minted'
      BY <2>4 DEF SaveFails, Idle
    <3> QED
      BY <2>4, <3>1, <3>2 DEF SaveFails
  <2> QED
    BY <1>6, <2>1, <2>2, <2>3, <2>4 DEF Handle
<1>7. CASE PostAccepted
  <2>1. PICK s \in Slots :
          handler' = [handler EXCEPT ![s] = [at |-> "body", code |-> task.code]]
    BY <1>7, FreeSlot DEF PostAccepted
  <2>2. task.code \in Codes
    BY <1>7, HandlerFields DEF PostAccepted, PluginInv, Posts
  <2>3. handler' \in [Slots -> Stages]
    BY <2>1, <2>2 DEF Stages
  <2>4. \A u \in Slots : handler'[u].at = "rename" => handler'[u].body \subseteq 1..minted'
    BY <1>7, <2>1 DEF PostAccepted
  <2> QED
    BY <1>7, <2>3, <2>4 DEF PostAccepted
<1> QED
  BY <1>1, <1>2, <1>3, <1>4, <1>5, <1>6, <1>7 DEF ServerSide

LEMMA HistoryTypes ==
  ASSUME BridgeInv, [Next]_vars
  PROVE  HistoryInv'
<1> USE BridgeAssumption DEF BridgeAssumption, BridgeInv, HistoryInv, ServerInv, Upset
<1>1. CASE BeginPairing
  BY <1>1 DEF BeginPairing, NewOffer
<1>2. CASE Expire
  BY <1>2 DEF Expire, past
<1>3. CASE RevokeAll
  BY <1>3 DEF RevokeAll
<1>4. CASE Restart
  BY <1>4 DEF Restart, NewOffer
<1>5. CASE Revoke
  <2>1. CASE RevokeStringify
    BY <2>1 DEF RevokeStringify, past
  <2>2. CASE RevokeRename
    BY <2>2 DEF RevokeRename
  <2>3. CASE RevokeFails
    BY <2>3 DEF RevokeFails
  <2> QED
    BY <1>5, <2>1, <2>2, <2>3 DEF Revoke
<1>6. ASSUME NEW s \in Slots, Handle(s)
      PROVE  HistoryInv'
  <2>1. CASE ReadBody(s)
    <3>1. offer'.code = offer.code
      BY <2>1 DEF ReadBody
    <3>2. CASE handler[s].code = offer.code
      BY <2>1, <3>1, <3>2 DEF ReadBody
    <3>3. CASE handler[s].code # offer.code
      BY <2>1, <3>1, <3>3 DEF ReadBody
    <3> QED
      BY <3>2, <3>3
  <2>2. CASE Stringify(s)
    BY <2>2 DEF Stringify, past
  <2>3. CASE Answer(s)
    BY <2>3 DEF Answer, past
  <2>4. CASE SaveFails(s)
    BY <2>4 DEF SaveFails
  <2> QED
    BY <1>6, <2>1, <2>2, <2>3, <2>4 DEF Handle
<1>7. CASE PostAccepted
  <2>1. troubled' \in BOOLEAN /\ UNCHANGED <<offer, minted, upsets, forCode>>
    BY <1>7, ZenonT(30) DEF PostAccepted
  <2> QED
    BY <2>1
<1>8. CASE PluginSide
  <2>1. upsets' \in 0..MaxUpsets
    BY <1>8 DEF PluginSide, Events, PostFails, GiveUp, ReplyUnreadable, TakeRefusal,
         TakeToken, Registered, PairingFailed, GetSnapshot, GetRejected, GetFails, Got, Send,
         PairingNotStarted, RunPairingFlow, RunDeeplinkPairingFlow, ForgetCredentials,
         SubscribeDevices, UiRender, OnLoad, IgnoreBandMessage, BandMessage, Quietly
  <2> QED
    BY <1>8, <2>1, PluginAlone DEF server, past
<1>9. CASE UNCHANGED vars
  BY <1>9 DEF vars, server, past
<1> QED
  BY <1>1, <1>2, <1>3, <1>4, <1>5, <1>6, <1>7, <1>8, <1>9, Sides DEF ServerSide

LEMMA PluginTypes ==
  ASSUME BridgeInv, [Next]_vars
  PROVE  PluginInv'
<1> USE BridgeAssumption DEF BridgeAssumption, BridgeInv, PluginInv
<1> DEFINE Waiting(h) == task.at = "wait" /\ task.reply = "none" => h[task.slot] # Idle
<1>1. CASE BeginPairing
  BY <1>1 DEF BeginPairing, plugin, Screen
<1>2. CASE Expire
  BY <1>2 DEF Expire, plugin, Screen
<1>3. CASE RevokeAll
  BY <1>3 DEF RevokeAll, plugin, Screen
<1>4. CASE Restart
  <2>1. UNCHANGED <<cred, status, uiRoot, shown>> /\ Screen' = Screen
    BY <1>4 DEF Restart, Still, Screen
  <2>2. CASE task.at = "wait" /\ task.reply = "none"
    <3>1. task \in Waits /\ task' = [task EXCEPT !.reply = "error"]
      BY <1>4, <2>2, HandlerFields DEF Restart
    <3>2. task' \in Waits /\ task'.reply = "error"
      BY <3>1 DEF Waits
    <3>3. task' \in Handlers /\ task'.at = "wait"
      BY <3>2 DEF Handlers, Waits
    <3> QED
      BY <2>1, <2>2, <3>2, <3>3
  <2>3. CASE ~(task.at = "wait" /\ task.reply = "none")
    <3>1. task' = task
      BY <1>4, <2>3 DEF Restart
    <3> QED
      BY <2>1, <2>3, <3>1
  <2> QED
    BY <2>2, <2>3
<1>5. CASE Revoke
  BY <1>5 DEF Revoke, RevokeStringify, RevokeRename, RevokeFails, plugin, Screen
<1>6. ASSUME NEW s \in Slots, Handle(s)
      PROVE  PluginInv'
  <2>1. UNCHANGED <<cred, status, uiRoot, shown>> /\ Screen' = Screen
    BY <1>6 DEF Handle, ReadBody, Stringify, Answer, SaveFails, Still, plugin, Screen
  <2>2. ASSUME NEW r \in {"created", "wrong", "error"}, NEW t \in {None} \cup Tokens,
               Reply(s, r, t), r = "created" => t # None,
               handler' = [handler EXCEPT ![s] = Idle]
        PROVE  PluginInv'
    <3>1. task' \in Handlers /\ task'.at = task.at
      BY <2>2, ReplyTask
    <3>2. CASE task'.at = "wait" /\ task' = task /\ (task.reply # "none" \/ task.slot # s)
      <4>1. task.slot \in Slots
        BY <3>2, HandlerFields DEF Waits
      <4>2. task.slot # s => handler'[task.slot] = handler[task.slot]
        BY <2>2, <4>1 DEF ServerInv
      <4> QED
        BY <2>1, <3>1, <3>2, <4>2
    <3>3. CASE task'.at = "wait" /\ task'.reply = r /\ task'.token = t
      BY <2>1, <2>2, <3>1, <3>3
    <3>4. CASE task'.at # "wait"
      BY <2>1, <3>1, <3>4
    <3> QED
      BY <2>2, <3>2, <3>3, <3>4, ReplyTask
  <2>3. ASSUME task' = task, handler'[s] # Idle,
               \A u \in Slots \ {s} : handler'[u] = handler[u]
        PROVE  PluginInv'
    <3>1. task.at = "wait" => task.slot \in Slots
      BY HandlerFields DEF Waits
    <3> QED
      BY <2>1, <2>3, <3>1
  <2>4. CASE ReadBody(s)
    <3>1. CASE handler[s].code = offer.code
      <4>1. handler' = [handler EXCEPT ![s] = [at |-> "mkdir", token |-> minted + 1]]
            /\ task' = task
        BY <2>4, <3>1 DEF ReadBody
      <4> QED
        BY <2>3, <4>1 DEF ServerInv, Idle
    <3>2. CASE handler[s].code # offer.code
      <4>1. handler' = [handler EXCEPT ![s] = Idle] /\ Reply(s, "wrong", None)
        BY <2>4, <3>2 DEF ReadBody
      <4> QED
        BY <2>2, <4>1
    <3> QED
      BY <3>1, <3>2
  <2>5. CASE Stringify(s)
    <3>1. /\ handler' = [handler EXCEPT ![s] = [at |-> "rename", token |-> handler[s].token,
                                                body |-> tokens]]
          /\ task' = task
      BY <2>5 DEF Stringify, plugin
    <3> QED
      BY <2>3, <3>1 DEF ServerInv, Idle
  <2>6. CASE Answer(s)
    <3>1. handler' = [handler EXCEPT ![s] = Idle] /\ Reply(s, "created", handler[s].token)
      BY <2>6 DEF Answer
    <3>2. handler[s].token \in Tokens /\ handler[s].token # None
      BY <2>6, StageFields DEF Answer, ServerInv, Tokens, None
    <3> QED
      BY <2>2, <3>1, <3>2
  <2>7. CASE SaveFails(s)
    <3>1. handler' = [handler EXCEPT ![s] = Idle] /\ Reply(s, "error", None)
      BY <2>7 DEF SaveFails
    <3> QED
      BY <2>2, <3>1
  <2> QED
    BY <1>6, <2>4, <2>5, <2>6, <2>7 DEF Handle
<1>7. CASE PostAccepted
  <2> DEFINE s == CHOOSE s \in Slots : s \notin Busy
  <2>1. s \in Slots
    BY <1>7, FreeSlot DEF PostAccepted
  <2>2. /\ handler' = [handler EXCEPT ![s] = [at |-> "body", code |-> task.code]]
        /\ task' = [at |-> "wait", slot |-> s, reply |-> "none", token |-> None,
                    code |-> task.code, left |-> task.left]
        /\ UNCHANGED <<cred, status, uiRoot, shown>>
    BY <1>7 DEF PostAccepted, Still
  <2> HIDE DEF s
  <2>3. task \in Posts /\ task.left > 0
    BY <1>7, HandlerFields DEF PostAccepted
  <2>4. task' \in Waits
    BY <2>1, <2>2, <2>3 DEF Posts, Waits
  <2>5. task' \in Handlers
    BY <2>4 DEF Handlers
  <2>6. handler'[task'.slot] # Idle
    BY <2>1, <2>2 DEF Idle, ServerInv
  <2>7. task.at = "post" /\ Screen' = Screen
    BY <2>2, <2>3 DEF Posts, Screen
  <2> QED
    BY <2>2, <2>5, <2>6, <2>7
<1>8. CASE PluginSide
  <2> USE DEF Statuses
  <2>1. handler' = handler
    BY <1>8, PluginAlone DEF server
  <2>2. ASSUME NEW st \in Statuses, NEW c \in {None} \cup Tokens, SetStatus(st, c),
               uiRoot' = uiRoot
        PROVE  /\ cred' \in {None} \cup Tokens /\ status' \in Statuses
               /\ shown' \in [paired : BOOLEAN, status : Statuses] \cup {Idle}
               /\ uiRoot' => shown' = Screen'
    BY <2>2 DEF SetStatus, Screen
  <2>3. ASSUME NEW st \in Statuses, NEW c \in {None} \cup Tokens, End(st, c),
               uiRoot' = uiRoot
        PROVE  PluginInv'
    <3>1. task' \in Handlers /\ task'.at = "idle"
      BY <2>3 DEF End, Handlers, Idle
    <3> QED
      BY <2>2, <2>3, <3>1 DEF End
  <2>4. ASSUME NEW code \in Codes, NEW left \in Nat,
               task' = [at |-> "post", code |-> code, left |-> left]
        PROVE  task' \in Handlers /\ task'.at = "post"
    BY <2>4 DEF Posts, Handlers
  <2>5. ASSUME task.at \in {"post", "wait"}, task.left > 0, NextEndpoint, Still
        PROVE  PluginInv'
    <3>1. task.code \in Codes /\ task.left \in Nat
      BY <2>5, HandlerFields DEF Posts, Waits
    <3>2. task' \in Handlers /\ task'.at = "post"
      BY <2>4, <2>5, <3>1 DEF NextEndpoint
    <3> QED
      BY <2>5, <3>2 DEF Still, Screen
  <2>6. ASSUME task.at = "wait" PROVE task.left > 0
    BY <2>6, HandlerFields DEF Waits
  <2>7. ASSUME NEW code \in Codes, NEW left \in Nat, SetStatus("connecting", cred),
               task' = [at |-> "post", code |-> code, left |-> left], uiRoot' = uiRoot
        PROVE  PluginInv'
    BY <2>2, <2>4, <2>7
  <2>8. ASSUME Still, task' \in Handlers, task'.at = "send", task.at = "get"
        PROVE  PluginInv'
    BY <2>8 DEF Still, Screen
  <2>9. ASSUME NEW kind \in {"snapshot", "pairing_revoked", "failed"}, Got(kind)
        PROVE  PluginInv'
    <3>1. task' \in Sends
      BY <2>9 DEF Got, Sends
    <3> QED
      BY <2>8, <2>9, <3>1 DEF Got, Sends, Handlers
  <2>10. CASE PostFails
    BY <2>5, <2>10 DEF PostFails
  <2>11. CASE GiveUp
    BY <2>5, <2>6, <2>11 DEF GiveUp
  <2>12. CASE ReplyUnreadable
    BY <2>5, <2>6, <2>12 DEF ReplyUnreadable
  <2>13. CASE TakeRefusal
    BY <2>5, <2>6, <2>13 DEF TakeRefusal
  <2>14. CASE TakeToken
    <3>1. task.token \in Tokens
      BY <2>14, HandlerFields DEF TakeToken, Waits
    <3>2. task' \in Handlers /\ task'.at = "register"
      BY <2>14 DEF TakeToken, Handlers
    <3> QED
      BY <2>14, <3>1, <3>2 DEF TakeToken
  <2>15. CASE Registered
    BY <2>3, <2>15 DEF Registered
  <2>16. CASE PairingFailed
    BY <2>3, <2>16 DEF PairingFailed
  <2>17. CASE GetSnapshot
    BY <2>9, <2>17 DEF GetSnapshot
  <2>18. CASE GetRejected
    BY <2>9, <2>18 DEF GetRejected
  <2>19. CASE GetFails
    BY <2>9, <2>19 DEF GetFails
  <2>20. CASE Send
    BY <2>3, <2>20 DEF Send
  <2>21. CASE PairingNotStarted
    BY <2>3, <2>21 DEF PairingNotStarted
  <2>22. ASSUME NEW code \in {Guessed, offer.code},
                RunPairingFlow(code) \/ RunDeeplinkPairingFlow(code)
         PROVE  PluginInv'
    <3>1. code \in Codes
      BY DEF ServerInv, Guessed, Codes
    <3>2. CASE RunPairingFlow(code)
      BY <2>7, <3>1, <3>2 DEF RunPairingFlow
    <3>3. CASE RunDeeplinkPairingFlow(code)
      BY <2>7, <3>1, <3>3 DEF RunDeeplinkPairingFlow
    <3> QED
      BY <2>22, <3>2, <3>3
  <2>23. CASE ForgetCredentials
    BY <2>3, <2>23 DEF ForgetCredentials
  <2>24. CASE SubscribeDevices
    BY <2>3, <2>24 DEF SubscribeDevices
  <2>25. CASE UiRender
    BY <2>1, <2>25 DEF UiRender, Screen
  <2>26. CASE OnLoad
    <3>1. task' \in Handlers /\ task'.at = "idle"
      BY <2>26 DEF OnLoad, Handlers, Idle
    <3> QED
      BY <2>26, <3>1 DEF OnLoad
  <2>27. CASE IgnoreBandMessage
    BY <2>3, <2>27 DEF IgnoreBandMessage
  <2>28. CASE BandMessage
    <3>1. task' \in Handlers /\ task'.at \in {"send", "get"}
          /\ (task'.at = "get" => cred # None)
      BY <2>28 DEF BandMessage, Handlers, Sends
    <3>2. task.at = "idle"
      BY <2>28 DEF BandMessage, Idle
    <3> QED
      BY <2>28, <3>1, <3>2 DEF BandMessage, Screen
  <2> QED
    BY <1>8, <2>10, <2>11, <2>12, <2>13, <2>14, <2>15, <2>16, <2>17, <2>18, <2>19, <2>20,
       <2>21, <2>22, <2>23, <2>24, <2>25, <2>26, <2>27, <2>28 DEF PluginSide, Events
<1>9. CASE UNCHANGED vars
  BY <1>9 DEF vars, server, plugin, Screen
<1> QED
  BY <1>1, <1>2, <1>3, <1>4, <1>5, <1>6, <1>7, <1>8, <1>9, Sides DEF ServerSide

LEMMA BridgeKept ==
  ASSUME BridgeInv, [Next]_vars
  PROVE  BridgeInv'
<1>1. CASE ServerSide
  BY <1>1, ServerTypes, HistoryTypes, PluginTypes DEF BridgeInv
<1>2. CASE UNCHANGED server
  <2>1. ServerInv'
    BY <1>2 DEF BridgeInv, ServerInv, server
  <2> QED
    BY <2>1, HistoryTypes, PluginTypes DEF BridgeInv
<1> QED
  BY <1>1, <1>2, Sides, PluginAlone DEF vars

LEMMA BridgeHolds == Spec => []BridgeInv
<1>1. BridgeInv /\ [Next]_vars => BridgeInv'
  BY BridgeKept
<1> QED
  BY <1>1, InitTypes, PTL DEF Spec

(* Every reachable state is well typed, a handler that waits for a reply   *)
(* waits for one that runs for it or has answered, and between events the  *)
(* page shows what the plugin holds, for any number of handlers and        *)
(* restarts.                                                               *)
THEOREM PluginIsSoundHolds == Spec => []PluginIsSound
<1>1. BridgeInv => PluginIsSound
  <2> SUFFICES ASSUME BridgeInv PROVE PluginIsSound
    OBVIOUS
  <2> USE DEF BridgeInv
  <2>1. ServerTypeOK
    <3> USE DEF ServerInv, Tokens
    <3>1. \A s \in Slots :
            \/ handler[s] = Idle
            \/ handler[s].at = "body" /\ handler[s].code \in Codes
            \/ handler[s].at = "mkdir" /\ handler[s].token \in Tokens
            \/ /\ handler[s].at = "rename" /\ handler[s].token \in Tokens
               /\ handler[s].body \subseteq Tokens
      BY StageFields
    <3>2. revoke.at \in {"idle", "mkdir", "rename"}
      BY RevocationFields
    <3>3. tokens \subseteq Tokens /\ file \subseteq Tokens
      BY BridgeAssumption DEF BridgeAssumption
    <3> QED
      BY <3>1, <3>2, <3>3 DEF ServerTypeOK
  <2>2. PluginTypeOK
    BY HandlerFields DEF PluginInv, PluginTypeOK
  <2>3. task.at = "wait" =>
          task.reply # "none" \/ (task.slot \in Slots /\ handler[task.slot] # Idle)
    BY HandlerFields DEF PluginInv, Waits
  <2>4. ShownIsCurrent
    BY DEF PluginInv, ShownIsCurrent, Idle
  <2> QED
    BY <2>1, <2>2, <2>3, <2>4 DEF PluginIsSound, TypeOK, HistoryInv
<1> QED
  BY <1>1, BridgeHolds, PTL

-----------------------------------------------------------------------------
(* A step that leaves the history untroubled overlaps nothing.             *)
Free == revoke = Idle /\ \A s \in Slots : handler[s] = Idle

LEMMA CalmStep ==
  ASSUME ServerSide, troubled \in BOOLEAN, ~troubled'
  PROVE  /\ ~troubled
         /\ \/ BeginPairing /\ (\A s \in Slots : handler[s] = Idle)
            \/ Expire
            \/ RevokeAll /\ Free
            \/ Restart /\ revoke = Idle
            \/ RevokeStringify
            \/ RevokeRename
            \/ \E s \in Slots : ReadBody(s) \/ Stringify(s) \/ Answer(s)
            \/ PostAccepted /\ Free
<1> USE DEF Busy, Free
<1>1. CASE BeginPairing
  BY <1>1, Zenon DEF BeginPairing
<1>2. CASE Expire
  BY <1>2, Zenon DEF Expire, past
<1>3. CASE RevokeAll
  BY <1>3, Zenon DEF RevokeAll
<1>4. CASE Restart
  BY <1>4, Zenon DEF Restart
<1>5. CASE Revoke
  BY <1>5, Zenon DEF Revoke, RevokeStringify, RevokeRename, RevokeFails, past
<1>6. ASSUME NEW s \in Slots, Handle(s)
      PROVE  ~troubled /\ (ReadBody(s) \/ Stringify(s) \/ Answer(s))
  BY <1>6, Zenon DEF Handle, ReadBody, Stringify, Answer, SaveFails, past
<1>7. CASE PostAccepted
  BY <1>7, Zenon DEF PostAccepted
<1> QED
  BY <1>1, <1>2, <1>3, <1>4, <1>5, <1>6, <1>7, Zenon DEF ServerSide

LEMMA AloneKept ==
  ASSUME BridgeInv, Alone, ServerSide, ~troubled'
  PROVE  Alone'
<1> USE DEF BridgeInv, ServerInv, Alone
<1>1. CASE UNCHANGED <<handler, revoke>>
  BY <1>1
<1>2. ASSUME NEW s \in Slots, handler[s] # Idle, UNCHANGED revoke,
             \A u \in Slots \ {s} : handler'[u] = handler[u]
      PROVE  Alone'
  BY <1>2
<1>3. ASSUME NEW s \in Slots, ReadBody(s) \/ Stringify(s) \/ Answer(s)
      PROVE  Alone'
  <2>1. handler[s] # Idle
    BY <1>3 DEF ReadBody, Stringify, Answer, Idle
  <2>2. UNCHANGED revoke /\ \A u \in Slots \ {s} : handler'[u] = handler[u]
    <3>1. CASE ReadBody(s)
      BY <3>1 DEF ReadBody
    <3>2. CASE Stringify(s)
      BY <3>2 DEF Stringify
    <3>3. CASE Answer(s)
      BY <3>3 DEF Answer
    <3> QED
      BY <1>3, <3>1, <3>2, <3>3
  <2> QED
    BY <1>2, <2>1, <2>2
<1>4. CASE RevokeAll /\ Free
  BY <1>4 DEF RevokeAll, Free
<1>5. CASE Restart
  BY <1>5 DEF Restart
<1>6. CASE RevokeStringify \/ RevokeRename
  <2>1. revoke # Idle /\ UNCHANGED handler
    BY <1>6 DEF RevokeStringify, RevokeRename, Idle
  <2> QED
    BY <2>1
<1>7. CASE PostAccepted /\ Free
  <2>1. UNCHANGED revoke /\ \E s \in Slots : \A u \in Slots \ {s} : handler'[u] = handler[u]
    BY <1>7, FreeSlot DEF PostAccepted
  <2> QED
    BY <1>7, <2>1 DEF Free
<1>8. CASE BeginPairing \/ Expire
  BY <1>1, <1>8 DEF BeginPairing, Expire
<1>9. troubled \in BOOLEAN
  BY DEF HistoryInv
<1> QED
  BY <1>3, <1>4, <1>5, <1>6, <1>7, <1>8, <1>9, CalmStep

LEMMA CodeKept ==
  ASSUME BridgeInv, Alone, CodeInv, ServerSide, ~troubled'
  PROVE  CodeInv'
<1> USE BridgeAssumption
    DEF BridgeAssumption, BridgeInv, ServerInv, HistoryInv
<1>1. troubled \in BOOLEAN /\ ~troubled
  BY CalmStep
<1>2. \A t, u \in 1..minted : forCode[t] = forCode[u] => t = u
  BY <1>1 DEF CodeInv, OneTokenPerCode
<1>3. ASSUME offer'.code = offer.code + 1, offer'.attempts = 0, UNCHANGED <<minted, forCode>>,
             \A s \in Slots : handler'[s] = Idle
      PROVE  CodeInv'
  <2>1. ~Spent(offer.code)'
    BY <1>3 DEF Spent
  <2> QED
    BY <1>2, <1>3, <2>1 DEF CodeInv, OneTokenPerCode, Idle
<1>4. CASE BeginPairing /\ \A s \in Slots : handler[s] = Idle
  BY <1>3, <1>4 DEF BeginPairing, NewOffer
<1>5. CASE Restart
  BY <1>3, <1>5 DEF Restart, NewOffer
<1>6. ASSUME UNCHANGED <<minted, forCode, handler, offer>>
      PROVE  CodeInv'
  <2>1. \A c : Spent(c)' = Spent(c)
    BY <1>6 DEF Spent
  <2> QED
    BY <1>1, <1>2, <1>6, <2>1 DEF CodeInv, OneTokenPerCode, Saving
<1>7. CASE Expire
  <2>1. /\ offer'.gone /\ offer'.code = offer.code /\ offer'.attempts = offer.attempts
        /\ UNCHANGED <<minted, forCode, handler>>
    BY <1>7 DEF Expire, past
  <2>2. \A c : Spent(c)' = Spent(c)
    BY <2>1 DEF Spent
  <2> QED
    BY <1>2, <2>1, <2>2 DEF CodeInv, OneTokenPerCode, Saving
<1>8. CASE RevokeAll \/ RevokeStringify \/ RevokeRename
  BY <1>6, <1>8 DEF RevokeAll, RevokeStringify, RevokeRename, past
<1>9. CASE PostAccepted /\ Free
  <2>1. PICK s \in Slots :
          handler' = [handler EXCEPT ![s] = [at |-> "body", code |-> task.code]]
    BY <1>9, FreeSlot DEF PostAccepted
  <2>2. UNCHANGED <<offer, minted, forCode>> /\ Refused = "no"
    BY <1>9 DEF PostAccepted
  <2>3. ~offer.gone /\ offer.attempts < MaxAttempts
    BY <2>2 DEF Refused
  <2>4. ~Spent(offer.code)
    BY <1>9, <2>3 DEF CodeInv, Free, Saving, Idle
  <2>5. ~Spent(offer.code)'
    BY <2>2, <2>4 DEF Spent
  <2> QED
    BY <1>2, <2>2, <2>3, <2>5 DEF CodeInv, OneTokenPerCode
<1>10. ASSUME NEW s \in Slots, ReadBody(s)
       PROVE  CodeInv'
  <2>1. /\ handler[s].at = "body" /\ offer.attempts < MaxAttempts
        /\ offer' = [offer EXCEPT !.attempts = @ + 1]
    BY <1>10 DEF ReadBody, CodeInv
  <2>2. \A u \in Slots \ {s} : handler[u] = Idle
    BY <2>1 DEF Alone, Idle
  <2>3. CASE handler[s].code = offer.code
    <3>1. /\ minted' = minted + 1
          /\ forCode' = [t \in 1..(minted + 1) |->
                           IF t > minted THEN offer.code ELSE forCode[t]]
          /\ handler' = [handler EXCEPT ![s] = [at |-> "mkdir", token |-> minted + 1]]
      BY <1>10, <2>3 DEF ReadBody
    <3>2. ~Spent(offer.code)
      BY <2>1, <2>3 DEF CodeInv
    <3>3. \A t, u \in 1..minted' : forCode'[t] = forCode'[u] => t = u
      BY <1>2, <3>1, <3>2 DEF Spent
    <3>4. Saving(s)'
      BY <3>1 DEF Saving
    <3>5. \A u \in Slots : handler'[u].at # "body"
      BY <2>2, <3>1 DEF Idle
    <3> QED
      BY <2>1, <3>3, <3>4, <3>5 DEF CodeInv, OneTokenPerCode
  <2>4. CASE handler[s].code # offer.code
    <3>1. UNCHANGED <<minted, forCode>> /\ handler' = [handler EXCEPT ![s] = Idle]
      BY <1>10, <2>4 DEF ReadBody
    <3>2. \A u \in Slots : handler'[u] = Idle
      BY <2>2, <3>1
    <3>3. Spent(offer.code)' = Spent(offer.code)
      BY <2>1, <3>1 DEF Spent
    <3>4. Spent(offer.code) => offer.gone
      BY <2>1, <2>2 DEF CodeInv, Saving, Idle
    <3> QED
      BY <1>2, <2>1, <3>1, <3>2, <3>3, <3>4 DEF CodeInv, OneTokenPerCode, Idle
  <2> QED
    BY <2>3, <2>4
<1>11. ASSUME NEW s \in Slots, Stringify(s)
       PROVE  CodeInv'
  <2>1. /\ UNCHANGED <<offer, minted, forCode>> /\ handler[s].at = "mkdir"
        /\ handler' = [handler EXCEPT ![s] = [at |-> "rename", token |-> handler[s].token,
                                              body |-> tokens]]
    BY <1>11 DEF Stringify, past
  <2>2. \A u \in Slots : handler'[u].at # "body"
    BY <2>1 DEF Alone, Idle
  <2>3. Saving(s)'
    BY <2>1 DEF Saving
  <2>4. OneTokenPerCode' /\ offer'.attempts <= MaxAttempts
    BY <1>2, <2>1 DEF CodeInv, OneTokenPerCode
  <2> QED
    BY <2>2, <2>3, <2>4 DEF CodeInv
<1>12. ASSUME NEW s \in Slots, Answer(s)
       PROVE  CodeInv'
  <2>1. /\ UNCHANGED <<minted, forCode>> /\ handler[s].at = "rename"
        /\ handler' = [handler EXCEPT ![s] = Idle]
        /\ offer'.gone /\ offer'.code = offer.code /\ offer'.attempts = offer.attempts
    BY <1>12 DEF Answer, past
  <2>2. \A u \in Slots : handler'[u] = Idle
    <3>1. handler[s] # Idle
      BY <2>1 DEF Idle
    <3> QED
      BY <2>1, <3>1 DEF Alone
  <2> QED
    BY <1>2, <2>1, <2>2 DEF CodeInv, OneTokenPerCode, Idle
<1> QED
  BY <1>1, <1>4, <1>5, <1>7, <1>8, <1>9, <1>10, <1>11, <1>12, CalmStep

LEMMA StoreKept ==
  ASSUME BridgeInv, Alone, StoreInv, ServerSide, ~troubled'
  PROVE  StoreInv'
<1> USE DEF BridgeInv, ServerInv, HistoryInv
<1>1. troubled \in BOOLEAN
  OBVIOUS
<1>2. CASE BeginPairing \/ Expire
  BY <1>2 DEF BeginPairing, Expire, StoreInv, Saving
<1>3. CASE RevokeAll /\ Free
  <2>1. tokens = file
    BY <1>3 DEF StoreInv, Free, Saving, Idle
  <2>2. /\ tokens' = {} /\ revoke' = [at |-> "mkdir", gone |-> tokens]
        /\ UNCHANGED <<file, handler>>
    BY <1>3 DEF RevokeAll
  <2>3. revoke'.gone = file' /\ revoke' # Idle /\ revoke'.at = "mkdir"
    BY <2>1, <2>2 DEF Idle
  <2> QED
    BY <1>3, <2>2, <2>3 DEF StoreInv, Free, Saving, Idle
<1>4. CASE Restart
  <2>1. /\ tokens' = file /\ UNCHANGED file /\ revoke' = Idle
        /\ \A s \in Slots : handler'[s] = Idle
    BY <1>4 DEF Restart
  <2> QED
    BY <2>1 DEF StoreInv, Saving, Idle
<1>5. CASE RevokeStringify
  <2>1. /\ revoke' = [at |-> "rename", gone |-> revoke.gone, body |-> tokens]
        /\ UNCHANGED <<tokens, file, handler>>
    BY <1>5 DEF RevokeStringify
  <2>2. revoke # Idle
    BY <1>5 DEF RevokeStringify, Idle
  <2>3. tokens = {} /\ revoke.gone = file /\ \A s \in Slots : handler[s] = Idle
    BY <2>2 DEF StoreInv, Alone
  <2>4. revoke'.gone = file' /\ revoke'.body = {} /\ revoke' # Idle
    BY <2>1, <2>3 DEF Idle
  <2> QED
    BY <2>1, <2>3, <2>4 DEF StoreInv, Saving, Idle
<1>6. CASE RevokeRename
  <2>1. /\ revoke # Idle /\ revoke.at = "rename" /\ revoke' = Idle
        /\ file' = revoke.body /\ UNCHANGED <<tokens, handler>>
    BY <1>6 DEF RevokeRename, Idle
  <2>2. file' = {} /\ tokens' = {} /\ \A s \in Slots : handler'[s] = Idle
    BY <2>1 DEF StoreInv, Alone
  <2> QED
    BY <2>1, <2>2 DEF StoreInv, Saving, Idle
<1>7. CASE PostAccepted /\ Free
  <2>1. PICK s \in Slots :
          handler' = [handler EXCEPT ![s] = [at |-> "body", code |-> task.code]]
    BY <1>7, FreeSlot DEF PostAccepted
  <2>2. UNCHANGED <<tokens, file, revoke>>
    BY <1>7 DEF PostAccepted
  <2>3. \A u \in Slots : ~Saving(u) /\ ~Saving(u)'
    BY <1>7, <2>1 DEF Free, Saving, Idle
  <2>4. tokens = file /\ revoke = Idle
    BY <1>7, <2>3 DEF StoreInv, Free
  <2> QED
    BY <2>2, <2>3, <2>4 DEF StoreInv, Saving, Idle
<1>8. ASSUME NEW s \in Slots, ReadBody(s) \/ Stringify(s) \/ Answer(s)
      PROVE  /\ revoke = Idle /\ revoke' = Idle
             /\ \A u \in Slots \ {s} : handler[u] = Idle /\ handler'[u] = Idle
             /\ \A u \in Slots \ {s} : ~Saving(u) /\ ~Saving(u)'
  <2>1. handler[s] # Idle
    BY <1>8 DEF ReadBody, Stringify, Answer, Idle
  <2>2. revoke = Idle /\ \A u \in Slots \ {s} : handler[u] = Idle
    BY <2>1 DEF Alone
  <2>3. UNCHANGED revoke /\ \A u \in Slots \ {s} : handler'[u] = handler[u]
    <3>1. CASE ReadBody(s)
      BY <3>1 DEF ReadBody
    <3>2. CASE Stringify(s)
      BY <3>2 DEF Stringify
    <3>3. CASE Answer(s)
      BY <3>3 DEF Answer
    <3> QED
      BY <1>8, <3>1, <3>2, <3>3
  <2> QED
    BY <2>2, <2>3 DEF Saving, Idle
<1>9. ASSUME NEW s \in Slots, ReadBody(s)
      PROVE  StoreInv'
  <2>1. ~Saving(s) /\ tokens = file /\ UNCHANGED file
    BY <1>8, <1>9 DEF ReadBody, Saving, StoreInv
  <2>2. CASE handler[s].code = offer.code
    <3>1. /\ tokens' = tokens \cup {minted + 1}
          /\ handler' = [handler EXCEPT ![s] = [at |-> "mkdir", token |-> minted + 1]]
      BY <1>9, <2>2 DEF ReadBody
    <3>2. Saving(s)' /\ handler'[s].at = "mkdir" /\ handler'[s].token = minted + 1
      BY <3>1 DEF Saving
    <3> QED
      BY <1>8, <1>9, <2>1, <3>1, <3>2 DEF StoreInv, Idle
  <2>3. CASE handler[s].code # offer.code
    <3>1. UNCHANGED tokens /\ handler' = [handler EXCEPT ![s] = Idle]
      BY <1>9, <2>3 DEF ReadBody
    <3>2. \A u \in Slots : handler'[u] = Idle
      BY <1>8, <1>9, <3>1
    <3> QED
      BY <1>8, <1>9, <2>1, <3>1, <3>2 DEF StoreInv, Idle, Saving
  <2> QED
    BY <2>2, <2>3
<1>10. ASSUME NEW s \in Slots, Stringify(s)
       PROVE  StoreInv'
  <2>1. /\ Saving(s) /\ UNCHANGED <<tokens, file>>
        /\ handler' = [handler EXCEPT ![s] = [at |-> "rename", token |-> handler[s].token,
                                              body |-> tokens]]
    BY <1>10 DEF Stringify, Saving
  <2>2. tokens = file \cup {handler[s].token}
    BY <2>1 DEF StoreInv
  <2>3. Saving(s)' /\ handler'[s].token = handler[s].token /\ handler'[s].body = tokens
    BY <2>1 DEF Saving
  <2> QED
    BY <1>8, <1>10, <2>1, <2>2, <2>3 DEF StoreInv, Idle
<1>11. ASSUME NEW s \in Slots, Answer(s)
       PROVE  StoreInv'
  <2>1. /\ handler[s].at = "rename" /\ file' = handler[s].body /\ UNCHANGED tokens
        /\ handler' = [handler EXCEPT ![s] = Idle]
    BY <1>11 DEF Answer
  <2>2. file' = tokens'
    BY <2>1 DEF StoreInv
  <2>3. \A u \in Slots : handler'[u] = Idle
    BY <1>8, <1>11, <2>1
  <2> QED
    BY <1>8, <1>11, <2>2, <2>3 DEF StoreInv, Saving, Idle
<1> QED
  BY <1>1, <1>2, <1>3, <1>4, <1>5, <1>6, <1>7, <1>9, <1>10, <1>11, CalmStep

(* The credential in hand stays where TrustInv has it, whatever the server *)
(* does with memory and file.                                              *)
LEMMA TrustKeptByServer ==
  ASSUME BridgeInv, Alone, StoreInv, TrustInv, ServerSide, ~troubled'
  PROVE  TrustInv'
<1> USE DEF BridgeInv, ServerInv, HistoryInv
<1>1. troubled \in BOOLEAN /\ ~troubled
  BY CalmStep
<1> DEFINE Known  == file \cup revoked
           Doomed == revoked \cup Leaving
<1>2. ASSUME Known \subseteq Known', revoked' \subseteq 1..minted',
             revoked' \cap (tokens \cup file)' = {},
             UNCHANGED cred, task' \in Handlers,
             task'.at = "wait" /\ task'.reply = "created" => task'.token \in Known',
             task'.at = "send" => task' = task, Doomed \subseteq Doomed'
      PROVE  TrustInv'
  <2>1. ToldRevokedIsRevoked'
    BY <1>1, <1>2 DEF TrustInv, ToldRevokedIsRevoked
  <2> QED
    BY <1>2, <2>1 DEF TrustInv
<1>3. task \in Handlers
  BY DEF PluginInv
<1>4. ASSUME UNCHANGED <<file, revoked, cred, task, minted>>, tokens' \subseteq tokens,
             Doomed \subseteq Doomed'
      PROVE  TrustInv'
  BY <1>2, <1>3, <1>4 DEF TrustInv
<1>5. CASE BeginPairing \/ Expire
  BY <1>4, <1>5 DEF BeginPairing, Expire, plugin, past, Leaving
<1>6. CASE RevokeAll /\ Free
  BY <1>4, <1>6 DEF RevokeAll, Free, Leaving, plugin
<1>7. CASE RevokeStringify
  <2>1. Leaving' = Leaving
    BY <1>7 DEF RevokeStringify, Leaving, Idle
  <2> QED
    BY <1>4, <1>7, <2>1 DEF RevokeStringify, plugin, past
<1>8. CASE RevokeRename
  <2>1. /\ revoke # Idle /\ revoke' = Idle /\ revoked' = revoked \cup revoke.gone
        /\ file' = revoke.body /\ UNCHANGED <<tokens, cred, task, minted>>
    BY <1>8 DEF RevokeRename, Idle, plugin
  <2>2. tokens' = {} /\ file' = {} /\ revoke.gone = file
    BY <1>8, <2>1 DEF StoreInv, RevokeRename
  <2>3. Leaving = file /\ Leaving' = {} /\ revoked' = Known
    BY <2>1, <2>2 DEF Leaving
  <2> QED
    BY <1>2, <1>3, <2>1, <2>2, <2>3 DEF TrustInv
<1>9. CASE Restart /\ revoke = Idle
  <2>1. /\ tokens' = file /\ UNCHANGED <<file, cred, minted, revoked>> /\ revoke' = Idle
    BY <1>9 DEF Restart, Still
  <2>2. task' \in Handlers /\ (task'.at = "send" => task' = task)
        /\ (task'.at = "wait" /\ task'.reply = "created" =>
              task' = task)
    <3>1. CASE task.at = "wait" /\ task.reply = "none"
      <4>1. task \in Waits /\ task' = [task EXCEPT !.reply = "error"]
        BY <1>3, <1>9, <3>1, HandlerFields DEF Restart
      <4>2. task' \in Waits /\ task'.reply = "error"
        BY <4>1 DEF Waits
      <4> QED
        BY <4>2 DEF Handlers, Waits
    <3>2. CASE ~(task.at = "wait" /\ task.reply = "none")
      BY <1>3, <1>9, <3>2 DEF Restart
    <3> QED
      BY <3>1, <3>2
  <2>3. Doomed' = Doomed
    BY <1>9, <2>1 DEF Leaving
  <2> QED
    BY <1>2, <2>1, <2>2, <2>3 DEF TrustInv
<1>10. ASSUME NEW s \in Slots, ReadBody(s)
       PROVE  TrustInv'
  <2>1. UNCHANGED <<file, revoked, cred, revoke>> /\ Doomed' = Doomed
    BY <1>10 DEF ReadBody, Still, Leaving
  <2>2. CASE handler[s].code = offer.code
    BY <1>2, <1>3, <1>10, <2>1, <2>2 DEF ReadBody, TrustInv
  <2>3. CASE handler[s].code # offer.code
    <3>1. UNCHANGED <<tokens, minted>> /\ Reply(s, "wrong", None)
      BY <1>10, <2>3 DEF ReadBody
    <3>2. task' \in Handlers /\ (task'.at = "send" => task' = task)
          /\ (task'.at = "wait" /\ task'.reply = "created" => task' = task)
      BY <1>3, <3>1, ReplyTask
    <3> QED
      BY <1>2, <2>1, <3>1, <3>2 DEF TrustInv
  <2> QED
    BY <2>2, <2>3
<1>11. ASSUME NEW s \in Slots, Stringify(s)
       PROVE  TrustInv'
  BY <1>4, <1>11 DEF Stringify, plugin, past, Leaving
<1>12. ASSUME NEW s \in Slots, Answer(s)
       PROVE  TrustInv'
  <2>1. /\ handler[s].at = "rename" /\ file' = handler[s].body
        /\ Reply(s, "created", handler[s].token)
        /\ UNCHANGED <<tokens, revoked, cred, revoke, minted>>
    BY <1>12 DEF Answer, Still, past
  <2>2. file' = file \cup {handler[s].token} /\ file' = tokens
    BY <2>1 DEF StoreInv, Saving
  <2>3. handler[s].token \in Tokens
    BY <2>1, StageFields
  <2>4. task' \in Handlers /\ (task'.at = "send" => task' = task)
        /\ (task'.at = "wait" /\ task'.reply = "created" =>
              task' = task \/ task'.token = handler[s].token)
    BY <1>3, <2>1, <2>3, ReplyTask
  <2>5. Doomed' = Doomed
    BY <2>1 DEF Leaving
  <2> QED
    BY <1>2, <2>1, <2>2, <2>4, <2>5 DEF TrustInv
<1>13. CASE PostAccepted /\ Free
  <2> DEFINE s == CHOOSE s \in Slots : s \notin Busy
  <2>1. UNCHANGED <<tokens, file, revoke, revoked, cred, minted>>
    BY <1>13 DEF PostAccepted, Still
  <2>2. task' = [at |-> "wait", slot |-> s, reply |-> "none", token |-> None,
                 code |-> task.code, left |-> task.left]
    BY <1>13 DEF PostAccepted
  <2>3. task' \in Handlers /\ task'.at = "wait" /\ task'.reply = "none"
    <3>1. s \in Slots
      BY <1>13, FreeSlot DEF PostAccepted
    <3>2. task \in Posts /\ task.left > 0
      BY <1>3, <1>13, HandlerFields DEF PostAccepted
    <3> HIDE DEF s
    <3>3. task' \in Waits
      BY <2>2, <3>1, <3>2 DEF Waits, Posts
    <3> QED
      BY <2>2, <3>3 DEF Handlers
  <2>4. Doomed' = Doomed
    BY <2>1 DEF Leaving
  <2> QED
    BY <1>2, <2>1, <2>3, <2>4 DEF TrustInv
<1> QED
  BY <1>1, <1>5, <1>6, <1>7, <1>8, <1>9, <1>10, <1>11, <1>12, <1>13, CalmStep

(* A step of the plugin takes a credential only from a reply, and tells    *)
(* the band "pairing revoked" only of one the server does not know.        *)
LEMMA PluginMoves ==
  ASSUME BridgeInv, PluginSide
  PROVE  /\ \/ cred' \in {cred, None}
            \/ task.at = "wait" /\ task.reply = "created" /\ cred' = task.token
         /\ task'.at # "wait"
         /\ task'.at = "send" /\ task'.kind = "pairing_revoked" =>
              task.at = "get" /\ cred \notin tokens /\ cred' = cred
<1> USE DEF End, SetStatus, NextEndpoint, Got, Still
<1>1. CASE PostFails \/ GiveUp \/ ReplyUnreadable \/ TakeRefusal
  BY <1>1 DEF PostFails, GiveUp, ReplyUnreadable, TakeRefusal
<1>2. CASE TakeToken
  BY <1>2 DEF TakeToken
<1>3. CASE Registered \/ PairingFailed \/ Send
  BY <1>3 DEF Registered, PairingFailed, Send, Idle
<1>4. CASE GetSnapshot \/ GetRejected \/ GetFails
  BY <1>4 DEF GetSnapshot, GetRejected, GetFails
<1>5. CASE Events
  <2>1. CASE PairingNotStarted \/ ForgetCredentials \/ SubscribeDevices \/ IgnoreBandMessage
    BY <2>1 DEF PairingNotStarted, ForgetCredentials, SubscribeDevices, IgnoreBandMessage, Idle
  <2>2. CASE \E c \in {Guessed, offer.code} : RunPairingFlow(c) \/ RunDeeplinkPairingFlow(c)
    BY <2>2 DEF RunPairingFlow, RunDeeplinkPairingFlow
  <2>3. CASE UiRender \/ OnLoad \/ BandMessage
    BY <2>3 DEF UiRender, OnLoad, BandMessage, Idle
  <2> QED
    BY <1>5, <2>1, <2>2, <2>3 DEF Events
<1> QED
  BY <1>1, <1>2, <1>3, <1>4, <1>5 DEF PluginSide

LEMMA TrustKeptByPlugin ==
  ASSUME BridgeInv, Alone, StoreInv, TrustInv, PluginSide, ~troubled'
  PROVE  TrustInv'
<1>1. UNCHANGED <<tokens, file, revoke, revoked, minted, troubled>>
  BY PluginAlone DEF server, past
<1>2. Leaving' = Leaving
  BY <1>1 DEF Leaving
<1>3. cred' # None => cred' \in file \cup revoked
  BY PluginMoves DEF TrustInv
<1>4. ASSUME task'.at = "send", task'.kind = "pairing_revoked"
      PROVE  cred' \in revoked \cup Leaving
  <2>1. task.at = "get" /\ cred \notin tokens /\ cred' = cred
    BY <1>4, PluginMoves
  <2>2. cred \in file \cup revoked
    BY <2>1 DEF BridgeInv, PluginInv, TrustInv
  <2>3. CASE revoke = Idle
    <3>1. file \subseteq tokens
      BY <2>3 DEF StoreInv
    <3> QED
      BY <2>1, <2>2, <3>1
  <2>4. CASE revoke # Idle
    BY <2>1, <2>2, <2>4 DEF StoreInv, Leaving
  <2> QED
    BY <2>3, <2>4
<1>5. ToldRevokedIsRevoked'
  BY <1>1, <1>2, <1>4 DEF ToldRevokedIsRevoked
<1> QED
  BY <1>1, <1>3, <1>5, PluginMoves DEF TrustInv

-----------------------------------------------------------------------------
LEMMA InitCalm == Init => Calm
<1> SUFFICES ASSUME Init PROVE Calm
  OBVIOUS
<1>1. /\ \A s \in Slots : handler[s] = Idle /\ ~Saving(s) /\ handler[s].at = "idle"
      /\ revoke = Idle /\ revoke.at = "idle" /\ task.at = "idle"
      /\ minted = 0 /\ offer = NewOffer(1) /\ cred = None
      /\ tokens = {} /\ file = {} /\ revoked = {}
  BY DEF Init, Idle, Saving
<1>2. Alone
  BY <1>1 DEF Alone
<1>3. CodeInv
  BY <1>1, BridgeAssumption
     DEF BridgeAssumption, CodeInv, OneTokenPerCode, Spent, NewOffer
<1>4. StoreInv
  BY <1>1 DEF StoreInv
<1>5. TrustInv
  BY <1>1 DEF TrustInv, ToldRevokedIsRevoked
<1> QED
  BY <1>2, <1>3, <1>4, <1>5 DEF Calm

LEMMA CalmKept ==
  ASSUME IInv, [Next]_vars
  PROVE  Calm'
<1> SUFFICES ASSUME ~troubled' PROVE (Alone /\ CodeInv /\ StoreInv /\ TrustInv)'
  BY DEF Calm
<1>1. CASE ServerSide
  <2>1. ~troubled
    BY <1>1, CalmStep DEF IInv, BridgeInv, HistoryInv
  <2> QED
    BY <1>1, <2>1, AloneKept, CodeKept, StoreKept, TrustKeptByServer DEF IInv, Calm
<1>2. ASSUME UNCHANGED <<server, past>>
      PROVE  ~troubled /\ (Alone /\ CodeInv /\ StoreInv)'
  <2>1. UNCHANGED <<offer, tokens, file, handler, revoke, minted, forCode, troubled>>
    BY <1>2 DEF server, past
  <2>2. Alone /\ CodeInv /\ StoreInv
    BY <2>1 DEF IInv, Calm
  <2>3. (\A c : Spent(c)' = Spent(c)) /\ \A s : Saving(s)' = Saving(s)
    BY <2>1 DEF Spent, Saving
  <2>4. CodeInv'
    BY <2>1, <2>2, <2>3 DEF CodeInv, OneTokenPerCode
  <2> QED
    BY <2>1, <2>2, <2>3, <2>4 DEF Alone, StoreInv
<1>3. CASE PluginSide
  <2>1. UNCHANGED <<server, past>>
    BY <1>3, PluginAlone
  <2> QED
    BY <1>2, <1>3, <2>1, TrustKeptByPlugin DEF IInv, Calm
<1>4. CASE UNCHANGED vars
  <2>1. UNCHANGED <<server, past>> /\ UNCHANGED <<cred, task, revoke, file, tokens, revoked, minted>>
    BY <1>4 DEF vars, server, plugin, past
  <2>2. TrustInv
    BY <1>2, <2>1 DEF IInv, Calm
  <2>3. TrustInv'
    BY <1>2, <2>1, <2>2 DEF TrustInv, ToldRevokedIsRevoked, Leaving
  <2> QED
    BY <1>2, <2>1, <2>3
<1> QED
  BY <1>1, <1>3, <1>4, Sides

LEMMA IInvHolds == Spec => []IInv
<1>1. Init => IInv
  BY InitTypes, InitCalm DEF IInv
<1>2. IInv /\ [Next]_vars => IInv'
  <2> SUFFICES ASSUME IInv, [Next]_vars PROVE Calm' /\ BridgeInv'
    BY DEF IInv
  <2>1. BridgeInv'
    BY BridgeKept DEF IInv
  <2> QED
    BY <2>1, CalmKept
<1> QED
  BY <1>1, <1>2, PTL DEF Spec

(* Unless handlers overlapped, a write failed or a restart cut a           *)
(* revocation short, a code of quota-server.js mints one token, whatever   *)
(* replies are lost and however the link's addresses are tried, and an     *)
(* offer is guessed at no more often than maxAttempts.                     *)
THEOREM CodeIsGuardedHolds == Spec => []CodeIsGuarded
<1>1. IInv => CodeIsGuarded
  BY DEF IInv, Calm, CodeInv, CodeIsGuarded, OneTokenPerCode, AttemptsBounded
<1> QED
  BY <1>1, IInvHolds, PTL

(* Under the same condition, memory, file and plugin agree on who is       *)
(* paired: the credential in hand is in both until it is revoked, a        *)
(* revoked token is in neither again, and the band is told "pairing        *)
(* revoked" of no other.                                                   *)
THEOREM TokensAreKeptHolds == Spec => []TokensAreKept
<1>1. IInv => TokensAreKept
  <2> SUFFICES ASSUME IInv PROVE TokensAreKept
    OBVIOUS
  <2>1. ASSUME ~troubled, cred # None, cred \notin revoked \cup Leaving
        PROVE  cred \in tokens /\ cred \in file
    <3>1. cred \in file /\ StoreInv
      BY <2>1 DEF IInv, Calm, TrustInv
    <3>2. revoke = Idle
      BY <2>1, <3>1 DEF StoreInv, Leaving
    <3> QED
      BY <3>1, <3>2 DEF StoreInv
  <2>2. RevokedIsGone /\ ToldRevokedIsRevoked
    BY DEF IInv, Calm, TrustInv, RevokedIsGone, ToldRevokedIsRevoked
  <2> QED
    BY <2>1, <2>2 DEF TokensAreKept, PairedIsStored
<1> QED
  BY <1>1, IInvHolds, PTL
================================================================================
