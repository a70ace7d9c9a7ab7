\* A client given up in the handshake leaves its session with the connector.
SPECIFICATION ReconnectSpec
PROPERTIES
  Recreates
CHECK_DEADLOCK FALSE
