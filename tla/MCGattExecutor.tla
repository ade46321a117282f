---- MODULE MCGattExecutor ----
EXTENDS GattExecutor

====
