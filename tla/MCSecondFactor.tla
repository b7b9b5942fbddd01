--------------------------- MODULE MCSecondFactor ---------------------------
(* Instances of SecondFactor for TLC: the factors and their recovery codes *)
(* with an email factor that is confirmed by any code, and the codes and   *)
(* changes of address by mail.                                             *)
EXTENDS SecondFactor, TLC

FactorOps == {"start-totp", "confirm-totp", "disable-totp", "disable-all",
              "send-code", "confirm-email", "disable-email", "regenerate",
              "admin-disable", "admin-update", "recovery"}
MailOps == {"send-code", "confirm-email", "email-login", "disable-email",
            "password", "request-change", "confirm-change",
            "cancel-change", "cancel-in-app"}

Symmetric == Permutations(Threads) \cup Permutations(Addresses)
=============================================================================
