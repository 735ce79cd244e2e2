---------------------------- MODULE MCTreeServe -----------------------------
EXTENDS TreeServe

\* A short and a long embedding request with a common start (the long one
\* takes three chunks), and tree_value requests on the same texts: candidates
\* that spell a cached text, a longer prefix, and one that bypasses the cache.
MCJobs ==
    { [ids |-> <<"a", "b">>, prefix_len |-> 0, bypass |-> FALSE],
      [ids |-> <<"a", "b", "c", "b", "c">>, prefix_len |-> 0, bypass |-> FALSE],
      [ids |-> <<"a", "b", "c">>, prefix_len |-> 1, bypass |-> FALSE],
      [ids |-> <<"a", "c", "b", "c", "d">>, prefix_len |-> 2, bypass |-> FALSE],
      [ids |-> <<"a", "b", "b">>, prefix_len |-> 2, bypass |-> TRUE] }
=============================================================================
