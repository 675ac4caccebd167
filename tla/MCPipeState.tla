---------------------------- MODULE MCPipeState ----------------------------
EXTENDS PipeState, TLC

CONSTANTS s1, s2, s3, plain, tiled

\* Two layers of a level without tile status, and a multisampled level with it.
MCLevelOf == (s1 :> plain) @@ (s2 :> plain) @@ (s3 :> tiled)
MCTsLevels == {tiled}
MCMsaaLevels == {tiled}

\* The sample mask, which shares a register with the number of samples, the fragment
\* shader and its constants, and the two states that a sampler is woven from.
SomeSlots == {"sample_mask", "fs", "fs_const", "samplers", "sampler_views"}

SamplerSlots == {"samplers", "sampler_views"}

\* What the configurations give the constants.
NoPractices == {}
AnySamplers == {"samplers"}
Layers == {"layers"}

\* The layers of a level are alike, so are the colours.
Symmetry == Permutations(Colors) \union Permutations({s1, s2})

=============================================================================
