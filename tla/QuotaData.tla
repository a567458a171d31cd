------------------------------- MODULE QuotaData -------------------------------
(***************************************************************************)
(* The quota the Windows host makes out of what it finds: the answers of   *)
(* the two upstream endpoints, the direct files they are kept in,          *)
(* Chromium's block cache and the session logs (windows-native/src/        *)
(* quota.rs), the three wire versions of it (src/lib.rs) and the phone's   *)
(* decoder of them (protocol/QuotaWireContract.kt).                        *)
(*                                                                         *)
(* Operators only; HostData checks them. A field of a JSON value is None   *)
(* when it is absent or has another type. Percentages upstream are counted *)
(* in halves, so that a fraction can occur. A text is its length, an       *)
(* identity itself. Decompression and header lines are not modelled: a     *)
(* cached answer is what they yield.                                       *)
(***************************************************************************)
EXTENDS Integers, SequencesExt, Sorting

CONSTANTS
  None,      \* an absent value (a model value: it is compared with anything)
  U32,       \* how many values a u32 has
  I32,       \* the first value a signed 32-bit integer has not
  LastSecond    \* the last second a DateTime can hold

ASSUME QuotaDataAssumption ==
  /\ I32 \in Nat \ {0} /\ U32 \in Nat /\ I32 <= U32
  /\ LastSecond \in Nat
  /\ None \notin Int

Full == 200      \* a hundred percent, in halves

-----------------------------------------------------------------------------
(* Windows.                                                                *)

WindowName(minutes) ==
  CASE minutes = 300   -> "five_hour"
    [] minutes = 10080 -> "weekly"
    [] OTHER           -> "custom"

(* Mutant: a window that resets now still has its percentage.              *)
WindowUntilReset(slot, minutes, used, resetsAt, now) ==
  IF \/ minutes = 0 \/ used \notin 0..Full \/ resetsAt \notin 1..LastSecond
     \/ resetsAt >= now /\ used % 2 = 1
  THEN None
  ELSE [id |-> <<slot, minutes>>, name |-> WindowName(minutes), minutes |-> minutes,
        remaining |-> IF resetsAt >= now THEN (Full - used) \div 2 ELSE None,
        resetsAt |-> resetsAt,
        status |-> IF resetsAt >= now THEN "current" ELSE "pending_sync"]

(* A percentage is only given out when it is whole, and only until the     *)
(* window resets.                                                          *)
NormalizeWindowValues(slot, minutes, used, resetsAt, now) ==
  IF \/ minutes = 0 \/ used \notin 0..Full \/ resetsAt \notin 1..LastSecond
     \/ resetsAt > now /\ used % 2 = 1
  THEN None
  ELSE [id |-> <<slot, minutes>>, name |-> WindowName(minutes), minutes |-> minutes,
        remaining |-> IF resetsAt > now THEN (Full - used) \div 2 ELSE None,
        resetsAt |-> resetsAt,
        status |-> IF resetsAt > now THEN "current" ELSE "pending_sync"]

NormalizeWindow(slot, value, now) ==
  IF \/ None \in {value.length, value.used, value.resetsAt}
     \/ value.length = 0 \/ value.length % 60 # 0 \/ value.length \div 60 >= U32
  THEN None
  ELSE NormalizeWindowValues(slot, value.length \div 60, value.used, value.resetsAt, now)

(* The session logs give minutes, which are cut to 32 bits.                *)
NormalizeLegacyWindow(slot, value, now) ==
  IF None \in {value.length, value.used, value.resetsAt}
  THEN None
  ELSE NormalizeWindowValues(slot, value.length % U32, value.used, value.resetsAt, now)

WindowsOf(limits, Normalize(_, _, _), now) ==
  LET Slot(name, value) == IF value = None THEN None ELSE Normalize(name, value, now)
      slots == <<Slot("primary", limits.primary), Slot("secondary", limits.secondary)>>
  IN Picked(slots, {i \in 1..2 : slots[i] # None})

-----------------------------------------------------------------------------
(* What one refresh asks for, and what it makes of the answer.             *)

FormatError == [error |-> "ResponseFormatChanged"]

StatusError(status) ==
  CASE status = 0          -> [error |-> "RequestFailed"]
    [] status = 401        -> [error |-> "Unauthorized"]
    [] status \notin {0, 401} -> [error |-> "HttpStatus"]

Succeeded(status) == status \in 200..299

ReadAccessToken(file) ==
  IF file = None \/ file.length < 1 \/ file.length > 16384
  THEN [error |-> "CredentialsUnavailable"] ELSE [token |-> file.length]

(* The code a diagnosis shows for an error; status 0 is no answer at all.  *)
ErrorCode(error) ==
  CASE error = "CredentialsUnavailable" -> "AUTH_UNAVAILABLE"
    [] error = "Unauthorized"           -> "AUTH_REJECTED"
    [] error = "RequestFailed"          -> "NETWORK"
    [] error = "ResponseFormatChanged"  -> "RESPONSE_FORMAT"
    [] error = "HttpStatus"             -> "UPSTREAM_HTTP"

FetchUsage(status, body, now) ==
  CASE ~Succeeded(status)               -> StatusError(status)
    [] Succeeded(status) /\ body = None -> FormatError
    [] OTHER -> [at |-> now, windows |-> WindowsOf(body, NormalizeWindow, now)]

RefreshUsage(auth, status, body, now) ==
  LET token == ReadAccessToken(auth)
  IN IF "error" \in DOMAIN token THEN token ELSE FetchUsage(status, body, now)

Unexpired(items, now) == Picked(items, {i \in DOMAIN items : items[i].expires > now})

ByExpiry(items) ==
  LET sooner == {p \in (DOMAIN items) \X (DOMAIN items) :
                   \/ items[p[1]].expires < items[p[2]].expires
                   \/ items[p[1]].expires = items[p[2]].expires /\ p[1] < p[2]}
      order == Sorted(DOMAIN items, sooner)
  IN [i \in DOMAIN items |-> items[order[i]]]

(* Cards of another number than the answer counts are a changed format.    *)
ParseDirectInventory(body, now) ==
  IF None \in {body.count, body.credits} \/ body.count >= U32 THEN FormatError
  ELSE LET Held(c) == c.available /\ None \notin {c.granted, c.expires} /\ c.expires > now
           cards == Picked(body.credits, {i \in DOMAIN body.credits : Held(body.credits[i])})
       IN IF Len(cards) # body.count THEN FormatError
          ELSE [at |-> now, count |-> body.count,
                cards |-> ByExpiry([i \in DOMAIN cards |->
                                     [granted |-> cards[i].granted,
                                      expires |-> cards[i].expires]])]

FetchInventory(status, body, now) ==
  CASE ~Succeeded(status)          -> StatusError(status)
    [] Succeeded(status) /\ body = None -> FormatError
    [] OTHER -> ParseDirectInventory(body, now)

-----------------------------------------------------------------------------
(* The inventory of reset cards.                                           *)

NoInventory(status) == [status |-> status, count |-> None, at |-> None, items |-> <<>>]

Counted(count, at, items) ==
  [status |-> IF Len(items) # count THEN "cached_derived" ELSE "cached",
   count |-> Len(items), at |-> at, items |-> items]

(* Mutant: texts are not measured.                                         *)
CreditUnchecked(credit) ==
  IF credit.expires = None THEN None
  ELSE [id |-> credit.id, title |-> IF credit.title \in {None, 0} THEN 10 ELSE credit.title,
        granted |-> credit.granted, expires |-> credit.expires]

(* A card from Chromium's copy of the answer keeps its identity and title. *)
SanitizeCredit(credit) ==
  LET title == IF credit.title \in {None, 0} THEN 10 ELSE credit.title
  IN IF credit.id \notin 1..256 \/ credit.expires = None \/ title > 128 THEN None
     ELSE [id |-> credit.id, title |-> title,
           granted |-> credit.granted, expires |-> credit.expires]

ChromiumInventory(body, at, now) ==
  IF None \in {body.count, body.credits} THEN NoInventory("unavailable")
  ELSE LET safe == [i \in DOMAIN body.credits |-> SanitizeCredit(body.credits[i])]
           items == Picked(safe, {i \in DOMAIN safe : body.credits[i].available /\ safe[i] # None})
       IN Counted(body.count, at, ByExpiry(Unexpired(items, now)))

(* How long the identity reset-credit-N of the n-th card is.               *)
NumberedId(n) == 13 + Cardinality({d \in 0..9 : n >= 10^d})

(* Mutant: the count of the answer is shown, not that of the cards left.   *)
StoredInventoryOldCount(file, now) ==
  LET cards == ByExpiry(Unexpired(file.cards, now))
  IN [Counted(file.count, file.at,
              [i \in DOMAIN cards |->
                [id |-> NumberedId(i), title |-> 10,
                 granted |-> cards[i].granted, expires |-> cards[i].expires]])
      EXCEPT !.count = file.count]

(* A card from the file a refresh wrote has neither: it is numbered.       *)
StoredInventory(file, now) ==
  LET cards == ByExpiry(Unexpired(file.cards, now))
  IN Counted(file.count, file.at,
             [i \in DOMAIN cards |->
               [id |-> NumberedId(i), title |-> 10,
                granted |-> cards[i].granted, expires |-> cards[i].expires]])

ReadInventory(sources, now) ==
  CASE sources.reset # None -> StoredInventory(sources.reset, now)
    [] sources.reset = None /\ ~sources.package -> NoInventory("missing")
    [] OTHER -> IF sources.cachedReset = None THEN NoInventory("unavailable")
                ELSE ChromiumInventory(sources.cachedReset.body, sources.cachedReset.at, now)

-----------------------------------------------------------------------------
(* Mutant: the files are read in the order of the directory.               *)
LatestUnsorted(files) ==
  LET lines == UNION {{<<f, i>> : i \in DOMAIN files[f].lines} : f \in DOMAIN files}
      At(l) == IF files[l[1]].lines[l[2]].at = None THEN files[l[1]].modified
               ELSE files[l[1]].lines[l[2]].at
      ReadFirst(k, l) == k[1] < l[1] \/ (k[1] = l[1] /\ k[2] <= l[2])
      won == CHOOSE l \in lines :
               \A k \in lines : At(k) < At(l) \/ (At(k) = At(l) /\ ReadFirst(l, k))
  IN IF lines = {} THEN None
     ELSE [at |-> At(won), limits |-> files[won[1]].lines[won[2]].limits]

(* The session logs: the newest line with limits wins; of two equally new  *)
(* the one read first, and the files are read newest first. A line without *)
(* a time has that of its file. A line is its file and its place there.    *)
LatestRateLimits(files) ==
  LET lines == UNION {{<<f, i>> : i \in DOMAIN files[f].lines} : f \in DOMAIN files}
      At(l) == IF files[l[1]].lines[l[2]].at = None THEN files[l[1]].modified
               ELSE files[l[1]].lines[l[2]].at
      ReadFirst(k, l) ==
        \/ files[k[1]].modified > files[l[1]].modified
        \/ files[k[1]].modified = files[l[1]].modified /\ k[1] < l[1]
        \/ k[1] = l[1] /\ k[2] <= l[2]
      won == CHOOSE l \in lines :
               \A k \in lines : At(k) < At(l) \/ (At(k) = At(l) /\ ReadFirst(l, k))
  IN IF lines = {} THEN None
     ELSE [at |-> At(won), limits |-> files[won[1]].lines[won[2]].limits]

(* Mutant: the limits of a log are shown as collected now.                 *)
FromSessionsNow(session, now) ==
  [windows |-> WindowsOf(session.limits, NormalizeLegacyWindow, now),
   at |-> now, link |-> "ok"]

FromSessions(session, now) ==
  [windows |-> WindowsOf(session.limits, NormalizeLegacyWindow, now),
   at |-> session.at, link |-> "ok"]

(* Where the windows come from: the direct file, else Chromium's copy of   *)
(* the answer, else the session logs.                                      *)
CollectLimits(sources, now) ==
  LET session == LatestRateLimits(sources.sessions)
      cached == IF sources.package THEN sources.cachedUsage ELSE None
  IN CASE sources.usage # None ->
            [windows |-> sources.usage.windows, at |-> sources.usage.at,
             link |-> IF sources.fresh.usage = "current" THEN "ok" ELSE "stale"]
       [] sources.usage = None /\ cached # None ->
            IF cached.body = None
            THEN [windows |-> <<>>, at |-> cached.at, link |-> "format_changed"]
            ELSE [windows |-> WindowsOf(cached.body, NormalizeWindow, now),
                  at |-> cached.at, link |-> "ok"]
       [] sources.usage = None /\ cached = None /\ session # None ->
            FromSessions(session, now)
       [] OTHER -> [windows |-> <<>>, at |-> None, link |-> "unavailable"]

SourceStatus(sources, limits, inventory) ==
  CASE \/ sources.fresh.usage = "current" /\ sources.fresh.reset = "current"
       \/ limits.link # "unavailable" /\ inventory.status \in {"cached", "cached_derived"}
         -> "ok"
    [] /\ ~(sources.fresh.usage = "current" /\ sources.fresh.reset = "current")
       /\ limits.link # "unavailable" /\ inventory.status \in {"missing", "unavailable"}
         -> "partial"
    [] OTHER -> "unavailable"

(* Mutant: a snapshot is dated by its limits.                              *)
CollectDatedByLimits(sources, now) ==
  LET limits == CollectLimits(sources, now)
      inventory == ReadInventory(sources, now)
  IN [at |-> limits.at, status |-> SourceStatus(sources, limits, inventory),
      limitsAt |-> limits.at, windows |-> limits.windows, inventory |-> inventory,
      link |-> limits.link, fresh |-> sources.fresh]

Collect(sources, now) ==
  LET limits == CollectLimits(sources, now)
      inventory == ReadInventory(sources, now)
  IN [at |-> now, status |-> SourceStatus(sources, limits, inventory),
      limitsAt |-> limits.at, windows |-> limits.windows, inventory |-> inventory,
      link |-> limits.link, fresh |-> sources.fresh]

(* Mutant: only a complete inventory loses its expired cards.              *)
LoadCompleteSnapshot(snapshot, now) ==
  LET left == Unexpired(snapshot.inventory.items, now)
  IN IF Len(snapshot.windows) > 8 \/ Len(snapshot.inventory.items) > 64 THEN None
     ELSE [snapshot EXCEPT !.at = now, !.status = "partial", !.link = "stale",
             !.inventory = IF @.status = "cached"
                           THEN [@ EXCEPT !.items = left, !.count = Len(left),
                                          !.status = "cached_derived"]
                           ELSE @]

(* A snapshot of an earlier run, shown until the first collect.            *)
LoadCachedSnapshot(snapshot, now) ==
  LET left == Unexpired(snapshot.inventory.items, now)
      held == snapshot.inventory.status \in {"cached", "cached_derived"}
  IN IF Len(snapshot.windows) > 8 \/ Len(snapshot.inventory.items) > 64 THEN None
     ELSE [snapshot EXCEPT !.at = now, !.status = "partial", !.link = "stale",
             !.inventory = IF held THEN [@ EXCEPT !.items = left, !.count = Len(left),
                                                  !.status = "cached_derived"]
                                   ELSE @]

-----------------------------------------------------------------------------
(* The wire and the phone.                                                 *)

QuotaWire(snapshot, version) ==
  [version |-> version, at |-> snapshot.at, windows |-> snapshot.windows,
   count |-> snapshot.inventory.count,
   items |-> [i \in DOMAIN snapshot.inventory.items |->
               LET item == snapshot.inventory.items[i]
               IN IF version = 1
                  THEN [id |-> item.id, title |-> item.title, expires |-> item.expires]
                  ELSE [granted |-> item.granted, expires |-> item.expires]],
   fresh |-> version = 3]

ValidText(length, most) == length \in 1..most

(* What QuotaWireContract.decode requires of a snapshot of a version.      *)
PhoneTakesQuota(wire, version) ==
  /\ wire.version = version
  /\ wire.fresh = (version = 3)
  /\ \A i \in DOMAIN wire.windows :
       LET w == wire.windows[i]
       IN /\ w.minutes > 0 /\ w.minutes < I32
          /\ w.remaining # None => w.remaining \in 0..100
          /\ w.resetsAt >= 0
          /\ \A j \in DOMAIN wire.windows : wire.windows[j].id = w.id => i = j
  /\ wire.count # None => wire.count >= 0
  /\ \A i \in DOMAIN wire.items :
       LET item == wire.items[i]
       IN /\ item.expires >= 0
          /\ version = 1 => ValidText(item.id, 256) /\ ValidText(item.title, 128)
          /\ version > 1 => item.granted = None \/ item.granted >= 0

-----------------------------------------------------------------------------
(* Chromium's block files. HEADER, ENTRY, KEY and CAPACITY are             *)
(* BLOCK_HEADER_SIZE, ENTRY_STORE_SIZE, ENTRY_KEY_OFFSET and               *)
(* INLINE_KEY_CAPACITY, scaled down.                                       *)
HEADER   == 8
ENTRY    == 6
KEY      == 4
CAPACITY == 2

(* Mutant: the last, cut entry of a file is read.                          *)
EntriesCut(length, keys) ==
  {offset \in HEADER..(length - 1) :
     /\ (offset - HEADER) % ENTRY = 0
     /\ keys[offset] \in 1..CAPACITY}

(* Offsets at which find_cached_json reads an entry of a file of a length, *)
(* keys[offset] being the length its key claims.                           *)
Entries(length, keys) ==
  {offset \in HEADER..(length - 1) :
     /\ (offset - HEADER) % ENTRY = 0
     /\ offset + ENTRY <= length
     /\ keys[offset] \in 1..CAPACITY
     /\ offset + KEY + keys[offset] <= length}

BlockSize(kind) ==
  CASE kind = 1 -> 2 [] kind = 2 -> 3 [] kind = 3 -> 4 [] kind = 4 -> 5

(* The bytes an address names: a range of a file, or None for an error. An *)
(* external file may be shorter than the entry says.                       *)
ReadCacheAddress(address, size, length) ==
  LET offset == HEADER + address.start * BlockSize(address.kind)
  IN IF ~address.initialized \/ address.kind > 4 \/ length = None THEN None
     ELSE IF address.kind = 0
          THEN [from |-> 0, to |-> IF size < length THEN size ELSE length]
          ELSE IF offset + size > length THEN None
               ELSE [from |-> offset, to |-> offset + size]

(* The newest of the parsed answers, the last read of the equally new.     *)
NewestAnswer(answers) ==
  IF answers = <<>> THEN None
  ELSE answers[CHOOSE i \in DOMAIN answers :
                 \A j \in DOMAIN answers : \/ answers[j].at < answers[i].at
                                           \/ answers[j].at = answers[i].at /\ j <= i]
=============================================================================
