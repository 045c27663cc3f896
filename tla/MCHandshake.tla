----------------------------- MODULE MCHandshake ----------------------------
EXTENDS Handshake

CONSTANTS TargetSizes, Envs

\* The CmpLog binary is built from the same harness, so that it has the same
\* opinion of shared memory.  What is left out is listed in the README: a
\* vanilla server whose map is not the default one, or whose harness reads
\* shared memory that it cannot announce.
MCSetups ==
    LET target(kinds, versions) ==
          {t \in [kind : kinds, version : versions, map_size : TargetSizes,
                  shmem : BOOLEAN, dict : BOOLEAN] :
              /\ t.kind # "new" => t.map_size = MAP_SIZE /\ ~t.dict /\ t.version = 1
              /\ t.kind = "old" => ~t.shmem}
    IN  {s \in [main : target(Kinds, {1, 2}),
                cmplog : {NoTarget} \cup target({"new", "old"}, {1}),
                env : {Unset} \cup Envs,
                skip_bin_check : BOOLEAN, no_autodict : BOOLEAN,
                deaths : {0, 2}] :
            /\ s.cmplog # NoTarget => /\ s.main.kind = "new" /\ s.main.version = 1
                                      /\ s.cmplog.shmem = s.main.shmem
            /\ s.main.kind = "old" /\ s.skip_bin_check =>
                  s.env = Unset \/ s.env >= MAP_SIZE}
=============================================================================
