------------------------- MODULE MCExtensionRunner -------------------------
(***************************************************************************)
(* ExtensionRunner for TLC: the sessions the devices can draw and the sets *)
(* of failure codes the runs choose from.                                  *)
(***************************************************************************)
EXTENDS ExtensionRunner

DrawnSessions == Runners \X (1..MaxGeneration)

\* The device's own code alone.
OwnCode == {UnknownCode}

\* One code more, which the server retries.
RetriedCodes == {"network_transient", UnknownCode}

\* One code that is retried and one that blocks the whole surface.
PageCodes == {"network_transient", "captcha", UnknownCode}

Captcha == {"captcha"}
=============================================================================
