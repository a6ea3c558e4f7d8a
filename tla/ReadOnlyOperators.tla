-------------------------- MODULE ReadOnlyOperators --------------------------
(* Queries: the optimizer on the plan of one, the read-only operators such *)
(* plans consist of - a join of two tables, or a chain of the others over  *)
(* one table -, the readers of encoded columns that operators use, and the *)
(* files that tables are exported to and imported from.                    *)
EXTENDS Optimizer, JoinOperators, QueryPipeline, TableFiles

vars == <<left, right, join, base, view, held, input, call, steps, query, plan, rule,
          column, segment, shared, encodings, readers, read,
          content, stored, file, fileSteps>>

Init == \/ JoinInit /\ NoPipeline /\ NoOptimizer /\ NoReaders /\ NoFiles
        \/ PipelineInit /\ NoJoins /\ NoOptimizer /\ NoReaders /\ NoFiles
        \/ OptimizerInit /\ NoJoins /\ NoPipeline /\ NoReaders /\ NoFiles
        \/ ReadersInit /\ NoJoins /\ NoPipeline /\ NoOptimizer /\ NoFiles
        \/ FilesInit /\ NoJoins /\ NoPipeline /\ NoOptimizer /\ NoReaders

Next == \/ JoinNext /\ UNCHANGED <<pipelineVars, optimizerVars, readerVars, fileVars>>
        \/ PipelineNext /\ UNCHANGED <<joinVars, optimizerVars, readerVars, fileVars>>
        \/ OptimizerNext /\ UNCHANGED <<joinVars, pipelineVars, readerVars, fileVars>>
        \/ ReadersNext /\ UNCHANGED <<joinVars, pipelineVars, optimizerVars, fileVars>>
        \/ FilesNext /\ UNCHANGED <<joinVars, pipelineVars, optimizerVars, readerVars>>

Spec == Init /\ [][Next]_vars

-----------------------------------------------------------------------------
(* The properties of the parts, for TLC.                                   *)

\* The four join operators return what the verification join does (join_*.cpp), but for
\* the cases their comments in JoinOperators name.
JoinsExact == /\ NestedLoopJoinExact /\ HashJoinExact /\ IndexJoinExact
              /\ SortMergeJoinExact /\ SortMergeOuterKeepsPairs

\* Scans, sorts, limits and set operations return the rows they should, and both aggregate
\* operators each group once, with its aggregates (table_scan.cpp, index_scan.cpp, sort.cpp,
\* limit.cpp, union_all.cpp, union_positions.cpp, difference.cpp, aggregate_hash.cpp,
\* aggregate_sort.cpp); and what an output claims of its chunks is true.
OutputsExact == /\ TypeOK /\ ScanExact /\ IndexScanExact
                /\ SortExact /\ LimitExact /\ SetOperationsExact
                /\ AggregateHashExact /\ AggregateSortExact
                /\ GuaranteesTruthful

\* A column returns what was stored, through all encodings and in any order of reads
\* (storage/*_segment/, storage/vector_compression/), and a decompressor keeps no block that
\* is not the vector's; a table returns from its file (import_export/) as it was.
SegmentsExact == ReadsAreExact /\ CachesCurrent /\ FilesExact
=============================================================================
