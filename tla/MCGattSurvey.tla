----------------------------- MODULE MCGattSurvey -----------------------------
EXTENDS GattSurvey

\* Four devices can be on the air, so that the limit of three cuts the queue.
MCAddresses == 1..4
=============================================================================
