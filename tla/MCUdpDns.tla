------------------------------ MODULE MCUdpDns ------------------------------
EXTENDS UdpDns
=============================================================================
