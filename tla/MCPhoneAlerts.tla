---------------------------- MODULE MCPhoneAlerts ----------------------------
(* PhoneAlerts with one task, and quotas on both sides of a threshold, of  *)
(* two cycles, the first of which may end before the next one begins, and   *)
(* unconfirmed.                                                            *)
EXTENDS PhoneAlerts, TLC

Q(p, r) == [percent |-> p, resets |-> r]

MCWindows    == {"five_hour", "weekly"}
MCThresholds == {75}

Of(usage, five, weekly) ==
  [usage |-> usage, windows |-> "five_hour" :> five @@ "weekly" :> weekly]

MCPayloads ==
  { Of("Current", Q(80, 1), Q(80, 9)),
    Of("Current", Q(75, 1), Q(80, 9)),
    Of("Current", Q(80, 2), Q(80, 9)),
    Of("Cached", Q(75, 1), Q(80, 9)) }

Setting(mode, band8) ==
  [mode |-> mode, authorization |-> TRUE, review |-> TRUE,
   phone |-> TRUE, band |-> TRUE, band8 |-> band8]

MCSettings == { Setting("WhenChatGptUnfocused", FALSE), Setting("Always", TRUE) }
=============================================================================
