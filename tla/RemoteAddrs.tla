---------------------------- MODULE RemoteAddrs -----------------------------
\* The keys of the protection package's maps: what String returns of the
\* remote end of a connection, an ip and a port.
EXTENDS GoMap

CONSTANT Addrs
=============================================================================
