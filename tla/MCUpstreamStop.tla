--------------------------- MODULE MCUpstreamStop ---------------------------
(* The upstream connection alone, for the end of the server: nothing the   *)
(* cloud says matters there, so it says one thing.                         *)
EXTENDS UpstreamLink

R == INSTANCE Redact

MCPolicy == [blockRce |-> TRUE, blockOta |-> TRUE, blockLogUpload |-> TRUE,
             mediaToRealOss |-> FALSE, localCvrWindow |-> FALSE]
MCDeviceBody == R!EmptyObject
MCCloudBodies == {MCDeviceBody}
MCCleanBody(body, policy) == R!RedactMqtt(body, policy)
MCForeignBody(body, policy) == ~R!NothingForeign(body, policy)
=============================================================================
