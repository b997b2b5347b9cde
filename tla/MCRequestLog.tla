----------------------------- MODULE MCRequestLog ----------------------------
EXTENDS RequestLog
=============================================================================
