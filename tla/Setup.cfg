SPECIFICATION Spec
CONSTANTS
    Args <- MCArgs
    MaxOptions = 2
    MaxFiles = 7
    Streams <- MCStreams
    Cpus <- MCCpus
    Ncpus = {2, 64}
    Initial = 5
    SizeOfFloat = 4
INVARIANTS ChannelsAgree SpeakersInOrder FiltersFit SimdAvailable
CHECK_DEADLOCK FALSE
