---------------------------- MODULE LegacyBridge ----------------------------
(***************************************************************************)
(* The archived AstroBox path: the plugin that answers the band            *)
(* (astrobox-plugin/src/plugin.rs) and the Electron host's HTTP server and *)
(* token store it talks to (src/server/quota-server.js, token-store.js).   *)
(*                                                                         *)
(* The plugin is one sequential component: an event handler runs to its    *)
(* end, blocking on the network, before the next one starts. The server is *)
(* not: a /v1/pair handler checks the offer, awaits the body, awaits the   *)
(* token store, and only then marks the offer consumed, while other        *)
(* requests, the tray's "show pairing" and "revoke all" run in between.    *)
(* A client that gives up on a request does not stop its handler.          *)
(*                                                                         *)
(* Codes are the numbers of the offers, tokens the numbers of the mintings *)
(* (neither repeats); the parsing of both is HostMessages' subject. A code *)
(* of an earlier offer fits no later one, so it counts as a guessed code.  *)
(***************************************************************************)
EXTENDS Naturals, FiniteSets

CONSTANTS
  Slots,        \* handlers of /v1/pair that can be in progress
  Endpoints,    \* addresses in a pairing link
  MaxAttempts,  \* pairing.maxAttempts
  MaxOffers,    \* bound on the offers shown
  MaxTokens,    \* bound on the tokens minted
  MaxUpsets     \* bound on restarts, plugin reloads, failed writes and lost replies

ASSUME BridgeAssumption ==
  /\ Slots # {} /\ IsFiniteSet(Slots)
  /\ Endpoints \in Nat \ {0} /\ MaxAttempts \in Nat \ {0}
  /\ MaxOffers \in Nat \ {0} /\ MaxTokens \in Nat
  /\ MaxUpsets \in Nat

None    == 0
Guessed == 0            \* a code no offer has
Tokens  == 1..MaxTokens
Codes   == 0..MaxOffers
Idle    == [at |-> "idle"]

VARIABLES
  \* the server
  offer,      \* pairingCodeHash and pairingState
  tokens,     \* the hashes in memory
  file,       \* the token file
  handler,    \* the /v1/pair handlers in progress
  revoke,     \* the revokeAll in progress: "idle", "mkdir", or the body to rename
  minted,     \* tokens minted so far
  \* the plugin
  cred,       \* PluginState.token (base_url is set and cleared with it)
  status,     \* PluginState.status
  uiRoot,     \* UI_ROOT is set
  shown,      \* what render drew last
  task,       \* the event handler in progress
  \* a bound, and history for the properties only
  upsets,
  forCode,    \* the code each token was minted for
  revoked,    \* tokens whose revocation was completed
  troubled    \* handlers overlapped, a write failed or a revocation was cut short

server  == <<offer, tokens, file, handler, revoke, minted>>
plugin  == <<cred, status, uiRoot, shown, task>>
past    == <<forCode, revoked, troubled>>
vars    == <<server, plugin, upsets, past>>

(* The kinds of status text: work in progress, a pairing that was made,    *)
(* and any other note.                                                     *)
Statuses == {"connecting", "paired", "note"}
Busy     == {s \in Slots : handler[s] # Idle}

ServerTypeOK ==
  /\ offer \in [code : 1..MaxOffers, attempts : Nat, gone : BOOLEAN]
  /\ tokens \subseteq Tokens /\ file \subseteq Tokens
  /\ \A s \in Slots :
       \/ handler[s] = Idle
       \/ handler[s].at = "body" /\ handler[s].code \in Codes
       \/ handler[s].at = "mkdir" /\ handler[s].token \in Tokens
       \/ /\ handler[s].at = "rename" /\ handler[s].token \in Tokens
          /\ handler[s].body \subseteq Tokens
  /\ revoke.at \in {"idle", "mkdir", "rename"}
  /\ minted \in 0..MaxTokens

PluginTypeOK ==
  /\ cred \in {None} \cup Tokens
  /\ status \in Statuses /\ uiRoot \in BOOLEAN
  /\ shown \in [paired : BOOLEAN, status : Statuses] \cup {Idle}
  /\ task.at \in {"idle", "post", "wait", "register", "get", "send"}

(* Besides the types: a handler that waits for a reply waits for a handler *)
(* that runs for it or has answered.                                       *)
TypeOK ==
  /\ ServerTypeOK /\ PluginTypeOK
  /\ upsets \in 0..MaxUpsets
  /\ DOMAIN forCode = 1..minted
  /\ task.at = "wait" =>
       task.reply # "none" \/ (task.slot \in Slots /\ handler[task.slot] # Idle)

(* An offer is gone once it was consumed or its time is over.              *)
NewOffer(code) == [code |-> code, attempts |-> 0, gone |-> FALSE]

Screen == [paired |-> cred # None, status |-> status]

(* The Electron host is up with the first offer it made (desktop-service); *)
(* the plugin has just been loaded.                                        *)
Init ==
  /\ offer = NewOffer(1)
  /\ tokens = {} /\ file = {} /\ minted = 0
  /\ handler = [s \in Slots |-> Idle] /\ revoke = Idle
  /\ cred = None /\ status = "note" /\ uiRoot = FALSE /\ shown = Idle
  /\ task = Idle
  /\ upsets = 0
  /\ forCode = <<>> /\ revoked = {} /\ troubled = FALSE

Upset == upsets < MaxUpsets /\ upsets' = upsets + 1

-----------------------------------------------------------------------------
(* The server. The plugin is untouched but for the reply it waits for.     *)

(* The reply to the handler in slot s goes to the plugin if it still waits.*)
Reply(s, r, t) ==
  task' = IF task.at = "wait" /\ task.slot = s /\ task.reply = "none"
            THEN [task EXCEPT !.reply = r, !.token = t] ELSE task

Still == UNCHANGED <<cred, status, uiRoot, shown>>

(* desktopService.beginPairing, with a new code.                           *)
BeginPairing ==
  /\ offer.code < MaxOffers
  /\ offer' = NewOffer(offer.code + 1)
  /\ troubled' = (troubled \/ Busy # {})
  /\ UNCHANGED <<tokens, file, handler, revoke, minted, plugin, upsets, forCode,
                 revoked>>

Expire ==
  /\ ~offer.gone
  /\ offer' = [offer EXCEPT !.gone = TRUE]
  /\ UNCHANGED <<tokens, file, handler, revoke, minted, plugin, upsets, past>>

(* Mutant: the attempt limit is one too high.                              *)
RefusedLate ==
  IF offer.gone THEN "gone"
  ELSE IF offer.attempts > MaxAttempts THEN "limit" ELSE "no"

(* The checks made before the body is read.                                *)
Refused ==
  IF offer.gone THEN "gone"
  ELSE IF offer.attempts >= MaxAttempts THEN "limit" ELSE "no"

(* After the await: the attempt counts, and the code is compared with the  *)
(* offer there is now. tokenStore.add adds the hash, then persists.        *)
ReadBody(s) ==
  /\ handler[s].at = "body"
  /\ offer' = [offer EXCEPT !.attempts = @ + 1]
  /\ IF handler[s].code = offer.code
       THEN /\ minted < MaxTokens
            /\ minted' = minted + 1
            /\ tokens' = tokens \cup {minted + 1}
            /\ forCode' = [t \in 1..(minted + 1) |->
                             IF t > minted THEN offer.code ELSE forCode[t]]
            /\ handler' = [handler EXCEPT ![s] = [at |-> "mkdir", token |-> minted + 1]]
            /\ UNCHANGED task
       ELSE /\ handler' = [handler EXCEPT ![s] = Idle]
            /\ Reply(s, "wrong", None)
            /\ UNCHANGED <<minted, tokens, forCode>>
  /\ Still /\ UNCHANGED <<file, revoke, upsets, revoked, troubled>>

(* persist: the body is what the set holds after mkdir...                  *)
Stringify(s) ==
  /\ handler[s].at = "mkdir"
  /\ handler' = [handler EXCEPT ![s] = [at |-> "rename", token |-> handler[s].token,
                                        body |-> tokens]]
  /\ UNCHANGED <<offer, tokens, file, revoke, minted, plugin, upsets, past>>

(* Mutant: the reply does not wait for the offer to be marked consumed.    *)
AnswerUnconsumed(s) ==
  /\ handler[s].at = "rename"
  /\ file' = handler[s].body
  /\ handler' = [handler EXCEPT ![s] = Idle]
  /\ Reply(s, "created", handler[s].token)
  /\ Still /\ UNCHANGED <<offer, tokens, revoke, minted, upsets, past>>

(* Mutant: the token store answers without having written its file.        *)
AnswerUnsaved(s) ==
  /\ handler[s].at = "rename"
  /\ offer' = [offer EXCEPT !.gone = TRUE]
  /\ handler' = [handler EXCEPT ![s] = Idle]
  /\ Reply(s, "created", handler[s].token)
  /\ Still /\ UNCHANGED <<tokens, file, revoke, minted, upsets, past>>

(* ... and once it is renamed into place the offer is consumed, whichever  *)
(* offer that is by now, and the token is sent.                            *)
Answer(s) ==
  /\ handler[s].at = "rename"
  /\ file' = handler[s].body
  /\ offer' = [offer EXCEPT !.gone = TRUE]
  /\ handler' = [handler EXCEPT ![s] = Idle]
  /\ Reply(s, "created", handler[s].token)
  /\ Still /\ UNCHANGED <<tokens, revoke, minted, upsets, past>>

(* Mutant: nothing catches the exception, the request is never answered.   *)
SaveFailsSilently(s) ==
  /\ handler[s].at \in {"mkdir", "rename"}
  /\ Upset /\ troubled' = TRUE
  /\ handler' = [handler EXCEPT ![s] = Idle]
  /\ Still /\ UNCHANGED <<offer, tokens, file, revoke, minted, task, forCode, revoked>>

(* persist throws: a 500, with the hash left in memory and the offer open. *)
SaveFails(s) ==
  /\ handler[s].at \in {"mkdir", "rename"}
  /\ Upset /\ troubled' = TRUE
  /\ handler' = [handler EXCEPT ![s] = Idle]
  /\ Reply(s, "error", None)
  /\ Still /\ UNCHANGED <<offer, tokens, file, revoke, minted, forCode, revoked>>

(* The tray's revokeAll: clear, then persist in the same two steps.        *)
RevokeAll ==
  /\ revoke = Idle
  /\ minted > 0
  /\ tokens' = {}
  /\ revoke' = [at |-> "mkdir", gone |-> tokens]
  /\ troubled' = (troubled \/ Busy # {})
  /\ UNCHANGED <<offer, file, handler, minted, plugin, upsets, forCode, revoked>>

RevokeStringify ==
  /\ revoke.at = "mkdir"
  /\ revoke' = [at |-> "rename", gone |-> revoke.gone, body |-> tokens]
  /\ UNCHANGED <<offer, tokens, file, handler, minted, plugin, upsets, past>>

(* Mutant: revokeAll clears memory and never rewrites the file.            *)
RevokeInMemory ==
  /\ revoke.at = "rename"
  /\ revoked' = revoked \cup revoke.gone
  /\ revoke' = Idle
  /\ UNCHANGED <<offer, tokens, file, handler, minted, plugin, upsets, forCode,
                 troubled>>

RevokeRename ==
  /\ revoke.at = "rename"
  /\ file' = revoke.body
  /\ revoked' = revoked \cup revoke.gone
  /\ revoke' = Idle
  /\ UNCHANGED <<offer, tokens, handler, minted, plugin, upsets, forCode,
                 troubled>>

RevokeFails ==
  /\ revoke.at \in {"mkdir", "rename"}
  /\ Upset /\ troubled' = TRUE
  /\ revoke' = Idle
  /\ UNCHANGED <<offer, tokens, file, handler, minted, plugin, forCode, revoked>>

(* The host is started again: openHashedTokenStore and a new offer.        *)
Restart ==
  /\ Upset
  /\ offer.code < MaxOffers
  /\ offer' = NewOffer(offer.code + 1)
  /\ tokens' = file
  /\ handler' = [s \in Slots |-> Idle] /\ revoke' = Idle
  /\ task' = IF task.at = "wait" /\ task.reply = "none"
               THEN [task EXCEPT !.reply = "error"] ELSE task
  /\ troubled' = (troubled \/ revoke # Idle)
  /\ Still /\ UNCHANGED <<file, minted, forCode, revoked>>

-----------------------------------------------------------------------------
(* The plugin.                                                             *)

Quietly == UNCHANGED <<server, upsets, past>>

(* set_status, with the rerender it calls; c is the credential by then.    *)
SetStatus(st, c) ==
  /\ cred' = c
  /\ status' = st
  /\ shown' = IF uiRoot THEN [paired |-> c # None, status |-> st] ELSE shown

End(st, c) == SetStatus(st, c) /\ task' = Idle

(* A refused dialog, an address that validate_base_url rejects, or a link  *)
(* parse_deeplink_pairing_payload rejects.                                 *)
PairingNotStarted ==
  /\ task = Idle
  /\ End("note", cred)
  /\ Quietly /\ UNCHANGED <<uiRoot>>

(* run_pairing_flow: one address and a code typed in.                      *)
RunPairingFlow(code) ==
  /\ task = Idle
  /\ SetStatus("connecting", cred)
  /\ task' = [at |-> "post", code |-> code, left |-> 1]
  /\ Quietly /\ UNCHANGED <<uiRoot>>

(* run_deeplink_pairing_flow: every address of a link, of the offer or of  *)
(* an earlier one.                                                         *)
RunDeeplinkPairingFlow(code) ==
  /\ task = Idle
  /\ SetStatus("connecting", cred)
  /\ task' = [at |-> "post", code |-> code, left |-> Endpoints]
  /\ Quietly /\ UNCHANGED <<uiRoot>>

NextEndpoint == task' = [at |-> "post", code |-> task.code, left |-> task.left - 1]

(* pair_with_windows: the request reaches the server, which answers at     *)
(* once or reads the body...                                               *)
PostAccepted ==
  /\ task.at = "post" /\ task.left > 0
  /\ Refused = "no"
  /\ Busy # Slots
  /\ minted + Cardinality(Busy) < MaxTokens
  /\ LET s == CHOOSE s \in Slots : s \notin Busy IN
       /\ handler' = [handler EXCEPT ![s] = [at |-> "body", code |-> task.code]]
       /\ task' = [at |-> "wait", slot |-> s, reply |-> "none", token |-> None,
                   code |-> task.code, left |-> task.left]
  /\ troubled' = (troubled \/ Busy # {} \/ revoke # Idle)
  /\ Still
  /\ UNCHANGED <<offer, tokens, file, revoke, minted, upsets, forCode, revoked>>

(* ... or refuses it, or cannot be reached at this address.                *)
PostFails ==
  /\ task.at = "post" /\ task.left > 0
  /\ NextEndpoint
  /\ Quietly /\ Still

(* The connection breaks while the handler goes on.                        *)
GiveUp ==
  /\ task.at = "wait" /\ task.reply = "none"
  /\ Upset
  /\ NextEndpoint
  /\ Still /\ UNCHANGED <<server, past>>

(* The reply is lost or cannot be read after the server sent it.           *)
ReplyUnreadable ==
  /\ task.at = "wait" /\ task.reply # "none"
  /\ Upset
  /\ NextEndpoint
  /\ Still /\ UNCHANGED <<server, past>>

TakeRefusal ==
  /\ task.at = "wait" /\ task.reply \in {"wrong", "error"}
  /\ NextEndpoint
  /\ Quietly /\ Still

(* configure: the status is set, the page is not yet redrawn.              *)
TakeToken ==
  /\ task.at = "wait" /\ task.reply = "created"
  /\ cred' = task.token
  /\ status' = "paired"
  /\ task' = [at |-> "register"]
  /\ Quietly /\ UNCHANGED <<uiRoot, shown>>

Registered ==
  /\ task.at = "register"
  /\ End("paired", cred)
  /\ Quietly /\ UNCHANGED <<uiRoot>>

PairingFailed ==
  /\ task.at = "post" /\ task.left = 0
  /\ End("note", cred)
  /\ Quietly /\ UNCHANGED <<uiRoot>>

(* Mutant: the page is not redrawn after the credentials are forgotten.    *)
ForgetUndrawn ==
  /\ task = Idle
  /\ cred' = None /\ status' = "note"
  /\ Quietly /\ UNCHANGED <<uiRoot, shown, task>>

(* forget_credentials, and rerender.                                       *)
ForgetCredentials ==
  /\ task = Idle
  /\ End("note", None)
  /\ Quietly /\ UNCHANGED <<uiRoot>>

(* register_current_devices, on the button or a device event.              *)
SubscribeDevices ==
  /\ task = Idle
  /\ End("note", cred)
  /\ Quietly /\ UNCHANGED <<uiRoot>>

UiRender ==
  /\ task = Idle
  /\ uiRoot' = TRUE /\ shown' = Screen
  /\ Quietly /\ UNCHANGED <<cred, status, task>>

(* AstroBox is killed or reloads the plugin: everything it held is gone,   *)
(* and on_load starts again.                                               *)
OnLoad ==
  /\ Upset
  /\ cred' = None /\ status' = "note" /\ uiRoot' = FALSE /\ shown' = Idle
  /\ task' = Idle
  /\ UNCHANGED <<server, past>>

(* handle_band_message: a request that does not parse, one that comes too  *)
(* early, one that is looked up.                                           *)
IgnoreBandMessage ==
  /\ task = Idle
  /\ End("note", cred)
  /\ Quietly /\ UNCHANGED <<uiRoot>>

BandMessage ==
  /\ task = Idle
  /\ task' = IF cred = None THEN [at |-> "send", kind |-> "pairing_required"]
               ELSE [at |-> "get"]
  /\ Quietly /\ UNCHANGED <<cred, status, uiRoot, shown>>

Got(kind) ==
  /\ task.at = "get"
  /\ task' = [at |-> "send", kind |-> kind]
  /\ Quietly /\ Still

(* request_snapshot: authenticate, then the snapshot or an error           *)
(* ("failed": windows_unreachable or windows_response_error).              *)
GetSnapshot == cred \in tokens /\ Got("snapshot")
GetRejected == cred \notin tokens /\ Got("pairing_revoked")
GetFails == Got("failed")

(* send_to_band: delivered, failed, or not sent for want of a device       *)
(* address, which only the wording of the status tells apart.              *)
Send ==
  /\ task.at = "send"
  /\ End("note", cred)
  /\ Quietly /\ UNCHANGED <<uiRoot>>

-----------------------------------------------------------------------------
Handle(s) == ReadBody(s) \/ Stringify(s) \/ Answer(s) \/ SaveFails(s)

Revoke == RevokeStringify \/ RevokeRename \/ RevokeFails

Work ==
  \/ PostAccepted \/ PostFails \/ GiveUp \/ ReplyUnreadable \/ TakeRefusal \/ TakeToken
  \/ Registered \/ PairingFailed
  \/ GetSnapshot \/ GetRejected
  \/ GetFails \/ Send

Events ==
  \/ PairingNotStarted
  \/ \E c \in {Guessed, offer.code} :
       RunPairingFlow(c) \/ RunDeeplinkPairingFlow(c)
  \/ ForgetCredentials \/ SubscribeDevices \/ UiRender \/ OnLoad
  \/ IgnoreBandMessage \/ BandMessage

Next ==
  \/ BeginPairing \/ Expire \/ RevokeAll \/ Restart
  \/ \E s \in Slots : Handle(s)
  \/ Revoke
  \/ Work \/ Events

Spec == Init /\ [][Next]_vars

(* Node runs every continuation that is ready, and the plugin's handler    *)
(* goes on when it is answered.                                            *)
FairSpec ==
  /\ Spec
  /\ \A s \in Slots : WF_vars(Handle(s))
  /\ WF_vars(Revoke)
  /\ WF_vars(Work)

-----------------------------------------------------------------------------
(* Unless two handlers ran at once, a write failed or a restart cut a      *)
(* revocation short: a code mints one token, however the link's addresses  *)
(* are tried in turn and whatever replies are lost.                        *)
OneTokenPerCode ==
  ~troubled => \A t, u \in 1..minted : forCode[t] = forCode[u] => t = u

(* ... and an offer is guessed at no more often than it allows.            *)
AttemptsBounded == ~troubled => offer.attempts <= MaxAttempts

(* An offer is worth one token and a few guesses: what consumed and        *)
(* maxAttempts of quota-server.js are for.                                 *)
CodeIsGuarded == OneTokenPerCode /\ AttemptsBounded

Leaving == IF revoke = Idle THEN {} ELSE revoke.gone

(* A plugin that shows itself paired is known to the server, now and after *)
(* a restart, until its pairing is revoked.                                *)
PairedIsStored ==
  ~troubled /\ cred # None /\ cred \notin revoked \cup Leaving =>
    cred \in tokens /\ cred \in file

(* A revoked token is neither in memory nor in the file again.             *)
RevokedIsGone == ~troubled => revoked \cap (tokens \cup file) = {}

(* The band is told "pairing revoked" only about a pairing that was        *)
(* revoked.                                                                *)
ToldRevokedIsRevoked ==
  ~troubled /\ task.at = "send" /\ task.kind = "pairing_revoked" =>
    cred \in revoked \cup Leaving

(* Memory, file and plugin agree on who is paired, through every revocation *)
(* and restart.                                                            *)
TokensAreKept == PairedIsStored /\ RevokedIsGone /\ ToldRevokedIsRevoked

(* Between events the plugin's page shows its state, although configure    *)
(* and forget_credentials change it without drawing.                       *)
ShownIsCurrent == uiRoot /\ task = Idle => shown = Screen

(* The state is well typed and the page shows it.                          *)
PluginIsSound == TypeOK /\ ShownIsCurrent

(* A pairing or a band request ends: the plugin is ready for the next      *)
(* event.                                                                  *)
PluginComesBack == task # Idle ~> task = Idle
=============================================================================
