---------------------------- MODULE MCAuthTokens ----------------------------
\* AuthTokens for TLC: handlers and refresh tokens are interchangeable.
EXTENDS AuthTokens, TLC

Symmetry == Permutations(Handlers) \cup Permutations(Tokens)
=============================================================================
