-------------------------- MODULE MC_HandshakeCodec --------------------------
EXTENDS HandshakeCodec
=============================================================================
