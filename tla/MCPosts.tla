------------------------------- MODULE MCPosts -------------------------------
EXTENDS Posts, TLC

AllOps == DOMAIN Methods

=============================================================================
