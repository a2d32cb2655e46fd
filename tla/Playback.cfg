CONSTANTS
    Streams = {s1, s2}
    Players = {p1}
    Requests = {r1, r2}
    Pool <- OnePool
    PrewarmChannels = 1
    Scenarios <- AnswerScenarios
    Zapping = TRUE
    None = None
    picture = picture
    sound = sound
    dub = dub
    Tracks = {picture, sound, dub}
    MediaOf <- PictureAndSound
    Settle = 1
SPECIFICATION PlaybackSpec
CHECK_DEADLOCK FALSE
PROPERTIES RequestsAnswered UnwatchedSessionsEnd LayoutSealed StopEndsPipeline
