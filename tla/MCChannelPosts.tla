---------------------------- MODULE MCChannelPosts ----------------------------
(***************************************************************************)
(* Model checking of the posts of a channel: one scenario for every kind   *)
(* of disturbance, as long as it takes for the disturbance to matter.      *)
(***************************************************************************)
EXTENDS ChannelPosts

\* An empty channel, as long as it takes for a page to meet its empty block; lost
\* connections and failing requests while there are new posts; pages of a longer channel,
\* loaded beside one new post and while offline; replies that overtake each other while
\* nobody posts; events that wait for their threads; synchronisations that bring only one
\* of two posts; pages that are wrongly taken for the end of the channel.
MCScenarios ==
    { Scenario(0, 5, 1, 1000, {"permalink"}),
      Scenario(1, 4, 1, 1000, {"failure"}),
      Scenario(2, 4, 2, 1000, {"failure"}),
      Scenario(3, 4, 2, 1000, {"permalink", "offline"}),
      Scenario(5, 5, 2, 1000, {"permalink", "overtaking", "failure"}),
      Scenario(1, 3, 2, 1000, {"threads", "offline", "overtaking"}),
      Scenario(1, 4, 1, 1, {}),
      Scenario(3, 4, 1, 1000, {"cursor", "permalink"}) }
=============================================================================
