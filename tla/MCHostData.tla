------------------------------ MODULE MCHostData ------------------------------
(* Bounded inputs for HostData: each set has the values at the edge of     *)
(* every condition of the code.                                            *)
EXTENDS HostData

MCTimes == 1..3

(* 18000 is five hours, 90 no whole minute, 63 halves no whole percentage; *)
(* Wide has the first minutes that are no signed integer, Wider the first  *)
(* that are no unsigned one.                                               *)
Values == [length : {None, 0, 90, 18000}, used : {None, 0, 63, 200, 201}, resetsAt : {0, 1, 2, 3}]
Good   == [length |-> 604800, used |-> 188, resetsAt |-> 2]
Wide   == [length |-> 1966080, used |-> 188, resetsAt |-> 2]
Wider  == [length |-> 3932160, used |-> 188, resetsAt |-> 2]
Ended  == [length |-> 18000, used |-> 63, resetsAt |-> 1]

MCLimits ==
  {[primary |-> v, secondary |-> w] : v \in Values \cup {None, Good}, w \in {None, Good, Wide, Wider, Ended}}

Credit(available, granted, expires) ==
  [available |-> available, id |-> 20, title |-> None, granted |-> granted, expires |-> expires]
Credits ==
  {Credit(TRUE, 1, 2), Credit(TRUE, 1, 3), Credit(TRUE, None, 3), Credit(FALSE, 1, 3),
   Credit(TRUE, 1, None), Credit(TRUE, 1, 1)}
MCCardBodies ==
  [count : {None, 0, 1, 2, 3}, credits : {None} \cup UNION {[1..n -> Credits] : n \in 0..3}]

SomeBodies ==
  {[count |-> 1, credits |-> <<Credit(TRUE, 1, 3)>>],
   [count |-> 2, credits |-> <<Credit(TRUE, 1, 3), Credit(TRUE, None, 2)>>],
   [count |-> 1, credits |-> <<[Credit(TRUE, 1, 3) EXCEPT !.id = 257],
                               [Credit(TRUE, 1, 2) EXCEPT !.title = 129],
                               [Credit(TRUE, 1, 2) EXCEPT !.title = 128]>>],
   [count |-> None, credits |-> <<>>], [count |-> 0, credits |-> None]}

Stored(body) == {FetchInventory(200, body, 1)}
Usages == {[at |-> 1, windows |-> WindowsOf(l, NormalizeWindow, 1)] :
             l \in {[primary |-> Good, secondary |-> Good], [primary |-> Good, secondary |-> None],
                    [primary |-> Good, secondary |-> Wide],
                    [primary |-> None, secondary |-> None]}}
Weeks == [primary |-> [length |-> 10080, used |-> 40, resetsAt |-> 3],
          secondary |-> [length |-> 10080, used |-> 63, resetsAt |-> 1]]

MCSources ==
  [usage : {None} \cup Usages,
   reset : {None, [at |-> 1, count |-> 1, cards |-> <<[granted |-> 1, expires |-> 2]>>]},
   package : BOOLEAN,
   cachedUsage : {None, [at |-> 2, body |-> None]} \cup
                 {[at |-> 2, body |-> l] : l \in {Weeks, [primary |-> Good, secondary |-> Good]}},
   cachedReset : {None} \cup {[at |-> 1, body |-> b] : b \in SomeBodies},
   sessions : {<<>>, <<[modified |-> 1, lines |-> <<[at |-> None, limits |-> Weeks]>>]>>,
               <<[modified |-> 2, lines |-> <<[at |-> 1, limits |-> Weeks]>>],
                 [modified |-> 1, lines |-> <<[at |-> 2, limits |-> [Weeks EXCEPT !.primary = None]]>>]>>},
   fresh : [usage : {"current", "cached"}, reset : {"current", "unavailable"}]]

Lines(f) ==
  UNION {[1..n -> {[at |-> t, limits |-> <<f, 1>>] : t \in {None, 1, 2}}] : n \in 0..2}
Tagged(f, lines) == [i \in DOMAIN lines |-> [lines[i] EXCEPT !.limits = <<f, i>>]]
MCLogs ==
  {<<>>} \cup
  {<<[modified |-> m, lines |-> Tagged(1, a)], [modified |-> n, lines |-> Tagged(2, b)]>> :
     m \in 1..2, n \in 1..2, a \in Lines(1), b \in Lines(2)}

MCLengths == {0, 1, 7, 8, 9, 11, 13, 14, 15, 20, 22}

Texts == {[length |-> 15, of |-> "id"], [length |-> 16, of |-> "hex"],
          [length |-> 128, of |-> "id"], [length |-> 36, of |-> "other"], [length |-> 129, of |-> "hex"]}
MCHellos ==
  [transport : {1, 2}, client : Texts, tasks : {<<>>, <<1>>, <<1, 2>>},
   quota : UNION {[1..n -> 1..4] : n \in 0..3}]

Locals == {[net |-> "192.168/16", number |-> n] : n \in 1..7} \cup
          {[net |-> "10/8", number |-> 1], [net |-> "169.254/16", number |-> 1],
           [net |-> "172.16/12", number |-> 1]}
MCAddresses == SUBSET Locals \cup {{[net |-> "8.8/16", number |-> 1]}}

MCDraws == {d \in [range : 1..5, most : 1..16] : d.most >= d.range}

Words == [length : {1, 7, 16}, private : BOOLEAN, control : BOOLEAN]
MCTitles == UNION {[1..n -> Words] : n \in 0..3}

MCPolicies == [mode : {"Never", "WhenChatGptUnfocused", "Always"}, authorization : BOOLEAN,
               review : BOOLEAN, phone : BOOLEAN, band : BOOLEAN, band8 : BOOLEAN]
MCContexts == [focused : BOOLEAN, foreground : BOOLEAN, reconnect : BOOLEAN]

Groups == {<<>>, <<"own">>, <<"other">>, <<"other", "own">>, Odd}
GroupLists == UNION {[1..n -> Groups] : n \in 0..2}
MCHookFiles ==
  {Absent, Odd} \cup UNION {[events -> GroupLists \cup {Odd}] :
                             events \in SUBSET {"Stop", "SessionStart"}}

Urls == {[scheme |-> "http", net |-> n, port |-> 47831, extra |-> FALSE] :
           n \in {"10/8", "192.168/16", "169.254/16"}} \cup
        {[scheme |-> "https", net |-> "10/8", port |-> 1, extra |-> FALSE],
         [scheme |-> "http", net |-> "8.8/16", port |-> 1, extra |-> FALSE],
         [scheme |-> "http", net |-> "10/8", port |-> 0, extra |-> FALSE],
         [scheme |-> "http", net |-> "10/8", port |-> 1, extra |-> TRUE]}
MCLinks ==
  [length : {400, 2049}, version : {1}, kind : {"codex-quota-pairing", "other"},
   urls : UNION {[1..n -> Urls] : n \in 0..3}, code : {[length |-> 6, of |-> "digits"], [length |-> 6, of |-> "hex"]}]
=============================================================================
